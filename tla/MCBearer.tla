------------------------------ MODULE MCBearer ------------------------------
(* Instances of Bearer: what each scenario lets happen.                     *)
EXTENDS Bearer

Quiet == [pcomp |-> "off", dcomp |-> "off", cipher |-> FALSE, acts |-> <<5>>, dacts |-> <<>>,
          ul |-> <<>>, dl |-> <<>>, props |-> <<>>, other |-> <<>>, loss |-> 0, dup |-> 0, restart |-> 0]
P(n, len, gain) == [nsapi |-> n, len |-> len, gain |-> gain]

\* Segments of N-PDUs are lost; the way down is undisturbed.
Lossy == [Quiet EXCEPT !.ul = <<P(5, 8, FALSE), P(5, 9, FALSE), P(5, 2, FALSE), P(5, 5, FALSE)>>, !.loss = 2]
\* Frames come twice, others are not numbered.
Noisy == [Quiet EXCEPT !.ul = <<P(5, 5, FALSE), P(5, 8, FALSE)>>, !.dup = 2, !.dl = <<P(5, 8, FALSE)>>,
                       !.acts = <<5, 5>>, !.dacts = <<5>>, !.other = <<"sabm", "null">>]
\* Two cycles of numbers, ciphered and not, with N-PDUs of two NSAPIs.
Cycles == {[Quiet EXCEPT !.cipher = c, !.acts = <<5, 6>>, !.ul = <<P(5, 8, FALSE), P(6, 8, FALSE), P(5, 8, FALSE), P(6, 5, FALSE)>>,
                         !.dl = <<P(6, 8, FALSE), P(5, 8, FALSE), P(5, 9, FALSE), P(5, 2, FALSE)>>] : c \in BOOLEAN}
\* The MS restarts its numbers.
Restarts == [Quiet EXCEPT !.ul = <<P(5, 8, FALSE), P(5, 5, FALSE), P(5, 9, FALSE), P(5, 5, FALSE)>>, !.restart = 2, !.loss = 1]
\* The SGSN negotiates, then again for another NSAPI.
Asks == {[Quiet EXCEPT !.pcomp = p, !.dcomp = d, !.acts = <<5, 6>>,
                       !.ul = <<P(5, 5, TRUE), P(5, 2, FALSE)>>, !.dl = <<P(5, 5, TRUE), P(6, 2, TRUE)>>] :
           p \in {"off", "active"}, d \in {"passive", "active"}}
\* A frame is lost while they negotiate.
AskLossy == [Quiet EXCEPT !.pcomp = "active", !.dcomp = "active", !.loss = 1,
                          !.ul = <<P(5, 5, TRUE), P(5, 8, TRUE)>>, !.dl = <<P(5, 5, TRUE)>>]
\* The MS negotiates: all algorithms, another set for the same entities, nothing, and an end.
F(entity, algo, cs, ns, v) == Field(TRUE, entity, algo, cs, ns, v)
Proposals ==
  <<<<F(3, "V44", <<4, 5>>, {5, 15}, <<192, 3, 300, 300, 600, 600>>), F(1, "V42BIS", <<3>>, {5}, <<3, 1024, 30>>),
      F(4, "RFC_2507", <<5, 6, 7, 8, 9>>, {5}, <<300, 5, 60, 15, 16>>), F(5, "ROHC", <<10, 11>>, {5}, <<100, 60>>),
      F(0, "RFC_1144", <<1, 2>>, {5}, <<15>>)>>,
    <<>>,
    <<F(1, "V42BIS", <<6>>, {5}, <<1, 512, 6>>)>>,
    <<Field(FALSE, 0, "RFC_1144", <<>>, {}, <<>>)>>>>
Answers == {[Quiet EXCEPT !.pcomp = p, !.dcomp = d, !.props = Proposals,
                          !.ul = <<P(5, 5, TRUE)>>, !.dl = <<P(5, 5, TRUE)>>] :
              p \in {"off", "passive"}, d \in {"off", "passive"}}

\* The messages of tests/sndcp_xid: decoding and encoding gives the same octets.
RealWorld == <<0, 1, 0, 2, 49, 130, 2, 39, 137, 255, 224, 0, 15, 0, 168, 0, 0, 0, 1, 1, 1, 0, 2, 1,
    2, 0, 3, 1, 3, 0, 4, 1, 4, 0, 5, 1, 5, 0, 6, 0, 7, 1, 7, 0, 8, 1, 8, 128,
    0, 4, 18, 0, 64, 7>>
Artificial == <<0, 1, 0, 1, 26, 131, 1, 13, 171, 0, 32, 128, 3, 1, 44, 1, 44, 2, 88, 2, 88, 131, 0, 7,
    160, 0, 32, 3, 8, 0, 20, 2, 64, 128, 0, 4, 18, 0, 32, 7, 129, 1, 12, 52, 86, 112, 0, 64,
    1, 0, 5, 168, 15, 0, 15, 130, 2, 39, 137, 255, 224, 0, 15, 0, 168, 0, 0, 0, 1, 1, 1, 0,
    2, 1, 2, 0, 3, 1, 3, 0, 4, 1, 4, 0, 5, 1, 5, 0, 6, 0, 7, 1, 7, 0, 8, 1,
    8>>
ASSUME TestVectors ==
  \A m \in {RealWorld, Artificial} :
    LET d == gprs_sndcp_parse_xid(m, <<>>)
    IN  d.ok /\ (\A i \in DOMAIN d.fields : Encodable(d.fields[i])) /\ gprs_sndcp_compile_xid(d.fields, 0) = m

MCAll == {Lossy, Noisy, Restarts, AskLossy} \cup Cycles \cup Asks \cup Answers
\* An NSAPI is activated while segments of another are on their way.
MCWipe == {[Quiet EXCEPT !.pcomp = "active", !.acts = <<5, 6>>, !.ul = <<P(5, 5, TRUE)>>]}
\* Two N-PDUs of one frame each, and one frame comes twice.
MCTwice == {[Quiet EXCEPT !.ul = <<P(5, 2, FALSE), P(5, 2, FALSE)>>, !.dup = 1]}
=============================================================================
