------------------------------- MODULE Bearer -------------------------------
(***************************************************************************)
(* The user plane on Gb: N-PDUs of one MS through SNDCP (gprs_sndcp.c) and *)
(* one LLC entity (gprs_llc.c), and the XID negotiation that sets up their *)
(* compression.  The MS is the peer of the other side: it numbers, cuts    *)
(* and compresses as the protocol says.  Frames travel in order; one may   *)
(* be lost or come twice.                                                  *)
(*                                                                         *)
(* An octet of an N-PDU is its N-PDU, its place and the compressions it is *)
(* under.  What a compressor does to a length or keeps from one N-PDU to   *)
(* the next is left out.  The MM and the PDP context are there throughout. *)
(***************************************************************************)
EXTENDS SndcpXid, Lists

CONSTANTS
  Nsapis,    \* the NSAPIs in use
  N201_U,    \* the most octets a UI frame carries (500 for SNDCP)
  NuMod,     \* numbers of UI frames (512); the overflow counters count cycles of them
  Window,    \* numbers that are taken for repetitions (32)
  NpduMod,   \* N-PDU numbers of the SGSN (0xfff)
  SegMod,    \* segment numbers of the SGSN (0xf)
  Scenarios  \* the configurations and inputs that a run explores

NpduType == [nsapi : Nsapis, len : Nat, gain : BOOLEAN]
FieldType == [p : BOOLEAN, entity : 0..31, algo : Range(Pcomp) \cup Range(Dcomp), comp : Seq(0..15),
              nsapis : SUBSET (5..15), params : Seq(Int)]
\* The configuration, and what may happen: N-PDUs each way, activations, deactivations,
\* proposals of the MS, other frames; and how many frames are lost or repeated and how often
\* the MS starts its numbers afresh.
ScenarioType ==
  [pcomp : {"off", "passive", "active"}, dcomp : {"off", "passive", "active"}, cipher : BOOLEAN,
   acts : Seq(Nsapis), dacts : Seq(Nsapis), ul : Seq(NpduType), dl : Seq(NpduType),
   props : Seq(Seq(FieldType)), other : Seq({"sabm", "null"}), loss : Nat, dup : Nat, restart : Nat]

ASSUME BearerAssumption ==
  /\ N201_U \in Nat /\ N201_U > 4
  /\ NuMod \in Nat /\ NuMod > 1
  /\ Window \in 1..NuMod /\ NpduMod \in Nat \ {0} /\ SegMod \in Nat \ {0}
  /\ Scenarios \subseteq ScenarioType

VARIABLES
  cfg,   \* the scenario, or what is left of it
  lle,   \* the LLC entity
  comp,  \* the compression entities, newest first; gen tells lists from ones freed
  sne,   \* the SNDCP entity of each NSAPI
  up, down,  \* the frames under way
  ms,    \* the MS
  obs    \* what was sent, delivered and refused, and the faults met
vars == <<cfg, lle, comp, sne, up, down, ms, obs>>

NoXid == <<>>
NoSne == [on |-> FALSE]
NewLle == [vu_send |-> 0, oc_send |-> 0, vu_recv |-> 0, oc_recv |-> 0, last |-> 0, dups |-> 0, xid |-> NoXid]
NewDefrag == [npdu |-> 0, highest |-> 0, have |-> {}, no_more |-> FALSE, frags |-> <<>>, tot_len |-> 0,
              pcomp |-> 0, dcomp |-> 0, gen |-> 0]
NewSne == [on |-> TRUE, tx_npdu_nr |-> 0, defrag |-> NewDefrag]

Passive(alg) == cfg[alg] # "off"   \* "active" answers proposals too
Active(alg) == cfg[alg] = "active"
any_pcomp_or_dcomp_active == cfg.pcomp # "off" \/ cfg.dcomp # "off"

-----------------------------------------------------------------------------
(* Compression entities                                                    *)

gprs_sndcp_comp_delete(list, n) ==
  LET i == SelectInSeq(list, LAMBDA e : e.entity = n)
  IN  IF i = 0 THEN list ELSE RemoveAt(list, i)
gprs_sndcp_comp_create(f) ==
  [entity |-> f.entity, algo |-> f.algo, comp |-> f.comp, nsapis |-> f.nsapis, params |-> f.params]
\* Mutant: an entity with this number stays.
gprs_sndcp_comp_add_KeepsOld(list, f) == <<gprs_sndcp_comp_create(f)>> \o list
gprs_sndcp_comp_add(list, f) == <<gprs_sndcp_comp_create(f)>> \o gprs_sndcp_comp_delete(list, f.entity)

\* The position of the entity, 0 if there is none.
gprs_sndcp_comp_by_comp(list, val) == SelectInSeq(list, LAMBDA e : val \in Range(e.comp))
gprs_sndcp_comp_by_nsapi(list, n) == SelectInSeq(list, LAMBDA e : n \in e.nsapis)
gprs_sndcp_comp_get_idx(e, val) == SelectInSeq(e.comp, LAMBDA v : v = val)
gprs_sndcp_comp_get_comp(e, idx) == IF idx \in DOMAIN e.comp THEN e.comp[idx] ELSE 0

\* What a compressor leaves on the octets.
Label(e, idx) == <<e.algo, e.params, idx>>
Apply(data, label) == [i \in DOMAIN data |-> [data[i] EXCEPT !.under = Append(@, label)]]
Undo(data, label) ==
  [i \in DOMAIN data |->
     IF data[i].under # <<>> /\ Last(data[i].under) = label
     THEN [data[i] EXCEPT !.under = Front(@)]
     ELSE [data[i] EXCEPT !.under = Append(@, <<"wrong", label>>)]]

\* idx 0: the algorithm makes nothing of this N-PDU, otherwise its last index.
CompressedBy(e, data, idx) ==
  [val |-> gprs_sndcp_comp_get_comp(e, idx), data |-> IF idx = 0 THEN data ELSE Apply(data, Label(e, idx))]
CompressedAt(list, i, data, gain) ==
  IF i = 0 THEN [val |-> 0, data |-> data] ELSE CompressedBy(list[i], data, IF gain THEN Len(list[i].comp) ELSE 0)
Compressed(list, n, data, gain) == CompressedAt(list, gprs_sndcp_comp_by_nsapi(list, n), data, gain)
\* Without an entity for the value the octets stay as they are.
ExpandedAt(list, i, val, data) ==
  IF val = 0 \/ i = 0 THEN data ELSE Undo(data, Label(list[i], gprs_sndcp_comp_get_idx(list[i], val)))
Expanded(list, val, data) == ExpandedAt(list, gprs_sndcp_comp_by_comp(list, val), val, data)

gprs_sndcp_pcomp_compress(n, data, gain) == Compressed(comp.proto, n, data, gain)
gprs_sndcp_dcomp_compress(n, data, gain) == Compressed(comp.data, n, data, gain)
gprs_sndcp_pcomp_expand(val, data) == Expanded(comp.proto, val, data)
gprs_sndcp_dcomp_expand(val, data) == Expanded(comp.data, val, data)

-----------------------------------------------------------------------------
(* Frames and segments                                                     *)

Octet(dir, id, pos) == [dir |-> dir, id |-> id, pos |-> pos, under |-> <<>>]
Npdu(dir, id, len) == [pos \in 1..len |-> Octet(dir, id, pos)]
HdrLen(first) == IF first THEN 4 ELSE 3

\* Segments of data, the first one of at most a octets and the others of b.
Cut(data, a, b) ==
  LET n == Len(data)
      k == IF n <= a THEN 1 ELSE 1 + (n - a + b - 1) \div b
      From(i) == IF i = 1 THEN 1 ELSE a + (i - 2) * b + 1
  IN  [i \in 1..k |-> SubSeq(data, From(i), IF i = k THEN n ELSE From(i + 1) - 1)]
Segments(n, npdu, pieces, mod, pc, dc) ==
  [i \in DOMAIN pieces |->
     [nsapi |-> n, first |-> i = 1, more |-> i < Len(pieces), npdu |-> npdu, seg |-> (i - 1) % mod,
      pcomp |-> IF i = 1 THEN pc ELSE 0, dcomp |-> IF i = 1 THEN dc ELSE 0, data |-> pieces[i]]]

UiFrame(nu, oc, pdu) == [type |-> "ui", nu |-> nu, oc |-> oc, pdu |-> pdu]
XidFrame(cmd, octets) == [type |-> "xid", cmd |-> cmd, data |-> octets]
OtherFrame(t) == [type |-> t]

\* Mutant: the room of the compression header is not taken off.
MaxPayload_NoCompHdr(first) == N201_U - HdrLen(FALSE)
MaxPayload(first) == N201_U - HdrLen(first)

\* A frame that is too long is refused before it gets a number.
TooLong(pdu) == Len(pdu.data) + HdrLen(pdu.first) > N201_U

\* Mutant: the number runs on at the end of the cycle.
gprs_llc_tx_ui_NoWrap(l) ==
  [l EXCEPT !.vu_send = @ + 1, !.oc_send = IF l.vu_send + 2 = NuMod THEN @ + 1 ELSE @]
\* The overflow counter of the frame after the next grows one frame early.
gprs_llc_tx_ui(l) ==
  LET vu == (l.vu_send + 1) % NuMod
  IN  [l EXCEPT !.vu_send = vu, !.oc_send = IF vu + 1 = NuMod THEN @ + 1 ELSE @]
TxUi(st, pdu) ==
  IF st.failed \/ TooLong(pdu) THEN [st EXCEPT !.failed = TRUE]
  ELSE [failed |-> FALSE, lle |-> gprs_llc_tx_ui(st.lle),
        frames |-> Append(st.frames, UiFrame(st.lle.vu_send, st.lle.oc_send, pdu))]

\* The N-PDU number goes on when no segment was refused.
UnitdataSent(n, end) ==
  /\ lle' = end.lle
  /\ down' = down \o end.frames
  /\ sne' = IF end.failed THEN sne ELSE [sne EXCEPT ![n].tx_npdu_nr = (@ + 1) % NpduMod]
Transmitted(segs) ==
  LET tx[i \in 0..Len(segs)] ==
        IF i = 0 THEN [failed |-> FALSE, lle |-> lle, frames |-> <<>>] ELSE TxUi(tx[i - 1], segs[i])
  IN  tx[Len(segs)]
sndcp_send_ud_frag(n, p, d) ==
  UnitdataSent(n, Transmitted(Segments(n, sne[n].tx_npdu_nr, Cut(d.data, MaxPayload(TRUE), MaxPayload(FALSE)),
                                       SegMod, p.val, d.val)))
\* Header first, then data; then all segments at once.
DataCompressed(n, p, gain) == sndcp_send_ud_frag(n, p, gprs_sndcp_dcomp_compress(n, p.data, gain))
sndcp_sn_unitdata_req(n, data, gain) == DataCompressed(n, gprs_sndcp_pcomp_compress(n, data, gain), gain)

\* A G-PDU of the GGSN.
cb_data_ind ==
  /\ cfg.dl # <<>>
  /\ LET g == Head(cfg.dl)
         data == Npdu("dl", Len(obs.sent) + 1, g.len)
     IN  /\ cfg' = [cfg EXCEPT !.dl = Tail(@)]
         /\ IF sne[g.nsapi].on
            THEN sndcp_sn_unitdata_req(g.nsapi, data, g.gain) /\ obs' = [obs EXCEPT !.sent = Append(@, data)]
            ELSE UNCHANGED <<lle, down, sne, obs>>
         /\ UNCHANGED <<comp, up, ms>>

-----------------------------------------------------------------------------
(* UI frames of the MS                                                     *)

gprs_llc_is_retransmit(nu, vur) == LET delta == (vur - nu) % NuMod IN 0 < delta /\ delta < Window

\* Mutant: a number that seems to be a repetition is never learnt.
Discarded_Always(nu) == gprs_llc_is_retransmit(nu, lle.vu_recv)
\* The same number again, and not often enough to believe it.
Discarded(nu) == gprs_llc_is_retransmit(nu, lle.vu_recv) /\ nu = lle.last /\ lle.dups + 1 < 3

\* Mutant: the overflow counter follows the receive number.
LleAccepts_OnNext(nu) ==
  LET again == gprs_llc_is_retransmit(nu, lle.vu_recv)
  IN  [lle EXCEPT !.last = IF again THEN nu ELSE @,
                  !.vu_recv = (nu + 1) % NuMod,
                  !.oc_recv = IF (nu + 2) % NuMod = 0 THEN @ + 1 ELSE @]
LleAccepts(nu) ==
  LET again == gprs_llc_is_retransmit(nu, lle.vu_recv)
  IN  [lle EXCEPT !.last = IF again THEN nu ELSE @,
                  !.dups = IF ~again THEN @ ELSE IF nu = lle.last THEN @ + 1 ELSE 0,
                  !.vu_recv = (nu + 1) % NuMod,
                  !.oc_recv = IF nu + 1 = NuMod THEN @ + 1 ELSE @]

\* The first segment of an N-PDU keeps what the whole needs to be expanded.
KeepsComp(d, pdu) ==
  IF pdu.first THEN [d EXCEPT !.pcomp = pdu.pcomp, !.dcomp = pdu.dcomp, !.gen = comp.gen] ELSE d

\* Mutant: leftovers of an N-PDU stay in the queue.
DefragStarts_KeepsOld(d, pdu) == IF pdu.first THEN [d EXCEPT !.npdu = pdu.npdu] ELSE d
DefragStarts(d, pdu) ==
  IF pdu.first THEN [d EXCEPT !.npdu = pdu.npdu, !.highest = 0, !.have = {}, !.no_more = FALSE,
                              !.frags = <<>>, !.tot_len = 0]
               ELSE d
defrag_enqueue(d, pdu) ==
  [d EXCEPT !.frags = <<[seg |-> pdu.seg, data |-> pdu.data]>> \o @,
            !.highest = Max({@, pdu.seg}),
            !.have = @ \cup {pdu.seg},
            !.tot_len = @ + Len(pdu.data),
            !.no_more = @ \/ ~pdu.more]
defrag_have_all_segments(d) == d.have = 0..d.highest

\* Position of the newest entry of a segment.
defrag_get_seg(frags, seg) == SelectInSeq(frags, LAMBDA f : f.seg = seg)
\* Segments are taken out of the queue up to one that is missing.  The length is the
\* sum over all that was queued: octets may be missing at the end.
Gathered(d, end) ==
  [ok |-> end.ok, frags |-> end.frags,
   data |-> end.data \o [i \in 1..(d.tot_len - Len(end.data)) |-> Octet("junk", 0, i)]]
SegTaken(st, at) ==
  IF ~st.ok \/ at = 0 THEN [st EXCEPT !.ok = FALSE]
  ELSE [ok |-> TRUE, data |-> st.data \o st.frags[at].data, frags |-> RemoveAt(st.frags, at)]
defrag_segments(d) ==
  LET Take(st, i) == SegTaken(st, defrag_get_seg(st.frags, i - 1))
  IN  Gathered(d, FoldLeft(Take, [ok |-> TRUE, data |-> <<>>, frags |-> d.frags], [i \in 1..(d.highest + 1) |-> i]))

\* V.42bis first, then the header.  stale: the lists of the first segment were freed, and
\* a value other than zero makes an expansion look into them.
decompress_segment(d, data) ==
  IF ~any_pcomp_or_dcomp_active THEN [stale |-> FALSE, data |-> data]
  ELSE [stale |-> d.gen # comp.gen /\ (d.pcomp # 0 \/ d.dcomp # 0),
        data |-> gprs_sndcp_pcomp_expand(d.pcomp, gprs_sndcp_dcomp_expand(d.dcomp, data))]
sgsn_gtp_data_req(x) == [obs EXCEPT !.delivered = Append(@, x.data), !.stale = @ \/ x.stale]

Defragged(q, r) ==
  [defrag |-> [q EXCEPT !.frags = r.frags],
   obs |-> IF r.ok THEN sgsn_gtp_data_req(decompress_segment(q, r.data)) ELSE obs]
DefragTries(q) ==
  IF q.no_more /\ defrag_have_all_segments(q) THEN Defragged(q, defrag_segments(q)) ELSE [defrag |-> q, obs |-> obs]
defrag_input(d, pdu) == DefragTries(defrag_enqueue(DefragStarts(d, pdu), pdu))

UnitdataTaken(n, r) ==
  IF sne[n].on THEN sne' = [sne EXCEPT ![n].defrag = r.defrag] /\ obs' = r.obs
               ELSE UNCHANGED <<sne, obs>>
\* An N-PDU of one segment is not queued.
UnitdataOf(d, pdu) ==
  IF pdu.first /\ ~pdu.more THEN [defrag |-> d, obs |-> sgsn_gtp_data_req(decompress_segment(d, pdu.data))]
                            ELSE defrag_input(d, pdu)
sndcp_ll_unitdata_ind(pdu) ==
  UnitdataTaken(pdu.nsapi, UnitdataOf(KeepsComp(sne[pdu.nsapi].defrag, pdu), pdu))

\* A frame that is not deciphered fails its check sum.
Deciphered(frame, oc) == cfg.cipher => frame.oc = oc

\* A refused frame is a lost one to SNDCP.
Refuses(f) == [obs EXCEPT !.refused = @ + 1, !.faults = @ \cup (IF f.pdu.first THEN {"first"} ELSE {})]

rx_ui ==
  LET f == Head(up) IN
  /\ up # <<>> /\ f.type = "ui"
  /\ up' = Tail(up)
  /\ \/ /\ ~Deciphered(f, lle.oc_recv)
        /\ obs' = Refuses(f)
        /\ UNCHANGED <<lle, sne>>
     \/ /\ Deciphered(f, lle.oc_recv) /\ Discarded(f.nu)
        /\ lle' = [lle EXCEPT !.dups = @ + 1]
        /\ obs' = Refuses(f)
        /\ UNCHANGED sne
     \/ /\ Deciphered(f, lle.oc_recv) /\ ~Discarded(f.nu)
        /\ lle' = LleAccepts(f.nu)
        /\ sndcp_ll_unitdata_ind(f.pdu)
  /\ UNCHANGED <<cfg, comp, down, ms>>

\* SABM and DISC are refused, NULL does nothing.
rx_other ==
  /\ up # <<>> /\ Head(up).type \in {"sabm", "null"}
  /\ up' = Tail(up)
  /\ down' = IF Head(up).type = "sabm" THEN Append(down, OtherFrame("dm")) ELSE down
  /\ UNCHANGED <<cfg, lle, comp, sne, ms, obs>>

-----------------------------------------------------------------------------
(* XID                                                                     *)

XidVersion == 0
XidN201U == 5
XidN201I == 6
XidL3 == 11
N201_I == 1503
L3Of(fields) == Kept(fields, {x \in Range(fields) : x.type = XidL3})
NotL3(fields) == Kept(fields, {x \in Range(fields) : x.type # XidL3})

Field(p, entity, algo, cs, ns, v) ==
  [p |-> p, entity |-> entity, algo |-> algo, comp |-> cs, nsapis |-> ns, params |-> v]
S01 == 7
V42Params == <<3, 2048, 20>>

\* What the configuration wants for the NSAPI, newest first.
Wanted(n) ==
  (IF Active("dcomp") THEN <<Field(TRUE, IF Active("pcomp") THEN 1 ELSE 0, "V42BIS", <<1>>, {n}, V42Params)>> ELSE <<>>)
  \o (IF Active("pcomp") THEN <<Field(TRUE, 0, "RFC_1144", <<1, 2>>, {n}, <<S01>>)>> ELSE <<>>)
gprs_llc_gen_sndcp_xid(n) == IF Wanted(n) = <<>> THEN <<>> ELSE gprs_sndcp_compile_xid(Wanted(n), 0)
gprs_llc_generate_xid(l3) ==
     (IF l3 = <<>> THEN <<>> ELSE <<[type |-> XidL3, data |-> l3]>>)
  \o <<[type |-> XidN201I, data |-> Octets(2, N201_I)], [type |-> XidN201U, data |-> Octets(2, N201_U)],
       [type |-> XidVersion, data |-> <<0>>]>>

\* The entities the MS is left with when the SGSN forgets its own.
Forgotten(n) ==
  {e.entity : e \in Range(comp.proto \o comp.data)} \ {f.entity : f \in Range(Wanted(n))}
\* The accept of an activation: entities and the last request are wiped, a request is sent.
gprs_ll_xid_req(req) ==
  /\ lle' = [lle EXCEPT !.xid = req]
  /\ down' = Append(down, XidFrame(TRUE, gprs_llc_compile_xid(req)))
sndcp_sn_xid_req(n) ==
  /\ comp' = [proto |-> <<>>, data |-> <<>>, gen |-> comp.gen + 1]
  /\ gprs_ll_xid_req(gprs_llc_generate_xid(gprs_llc_gen_sndcp_xid(n)))
  /\ obs' = [obs EXCEPT !.faults = @ \cup (IF comp.proto \o comp.data = <<>> THEN {} ELSE {"wiped"})
                                     \cup (IF Forgotten(n) = {} THEN {} ELSE {"forgotten"})]
sndcp_sm_activate_ind(n) == sne' = IF sne[n].on THEN sne ELSE [sne EXCEPT ![n] = NewSne]

XidPending == ms.req # <<>> \/ \E f \in Range(up \o down) : f.type = "xid"
Activate ==
  /\ cfg.acts # <<>>
  /\ ~XidPending                 \* the MS finishes one activation before the next
  /\ sndcp_sm_activate_ind(Head(cfg.acts))
  /\ sndcp_sn_xid_req(Head(cfg.acts))
  /\ cfg' = [cfg EXCEPT !.acts = Tail(@)]
  /\ UNCHANGED <<up, ms>>

sndcp_sm_deactivate_ind ==
  /\ cfg.dacts # <<>> /\ sne[Head(cfg.dacts)].on
  /\ sne' = [sne EXCEPT ![Head(cfg.dacts)] = NoSne]
  /\ cfg' = [cfg EXCEPT !.dacts = Tail(@)]
  /\ obs' = [obs EXCEPT !.faults = @ \cup {"deactivated"}]
  /\ UNCHANGED <<lle, comp, up, down, ms>>

\* One field of a proposal or of a confirmation: taken or refused, and its echo.
Accepted(f) == \/ f.algo = "RFC_1144" /\ Passive("pcomp") /\ f.nsapis # {}
               \/ f.algo = "V42BIS" /\ Passive("dcomp") /\ f.nsapis # {}
Refused(f) == [f EXCEPT !.p = FALSE, !.nsapis = {}]
handle_pcomp_entities(st, f) ==
  IF Accepted(f)
  THEN [echo |-> Append(st.echo, [f EXCEPT !.p = FALSE]), comp |-> [st.comp EXCEPT !.proto = gprs_sndcp_comp_add(@, f)]]
  ELSE [echo |-> Append(st.echo, Refused(f)), comp |-> [st.comp EXCEPT !.proto = gprs_sndcp_comp_delete(@, f.entity)]]
handle_dcomp_entities(st, f) ==
  IF Accepted(f)
  THEN [echo |-> Append(st.echo, [f EXCEPT !.p = FALSE]), comp |-> [st.comp EXCEPT !.data = gprs_sndcp_comp_add(@, f)]]
  ELSE [echo |-> Append(st.echo, Refused(f)), comp |-> [st.comp EXCEPT !.data = gprs_sndcp_comp_delete(@, f.entity)]]
HandleField(st, f) ==
  CASE gprs_sndcp_get_compression_class(f) = "pcomp" -> handle_pcomp_entities(st, f)
    [] gprs_sndcp_get_compression_class(f) = "dcomp" -> handle_dcomp_entities(st, f)
    [] OTHER -> [echo |-> Append(st.echo, f),
                 comp |-> [st.comp EXCEPT !.proto = gprs_sndcp_comp_delete(@, f.entity),
                                          !.data = gprs_sndcp_comp_delete(@, f.entity)]]
Handled(fields) ==
  LET handled[i \in 0..Len(fields)] ==
        IF i = 0 THEN [echo |-> <<>>, comp |-> comp] ELSE HandleField(handled[i - 1], fields[i])
  IN  handled[Len(fields)]

XidAnswer(h) == [ok |-> TRUE, data |-> gprs_sndcp_compile_xid(h.echo, 0), comp |-> h.comp]
XidUnderstood(d) == IF d.ok THEN XidAnswer(Handled(d.fields)) ELSE [ok |-> FALSE, data |-> <<>>, comp |-> comp]
\* An empty indication is answered with an empty one.
sndcp_sn_xid_ind(l3) ==
  IF l3 = <<>> THEN [ok |-> TRUE, data |-> <<>>, comp |-> comp] ELSE XidUnderstood(gprs_sndcp_parse_xid(l3, <<>>))
\* The confirmation is read with the request it answers.
XidConfirmed(d) == IF d.ok THEN Handled(d.fields).comp ELSE comp
sndcp_sn_xid_conf(l3, request) ==
  XidConfirmed(gprs_sndcp_parse_xid(l3, gprs_sndcp_parse_xid(request, <<>>).fields))

\* What the program survives: a message that is not decoded is freed twice, and the answer is
\* encoded with assertions on every parameter, into as many octets as the indication had.
Decoded(octets, request) == octets = <<>> \/ gprs_sndcp_decode_xid(octets, gprs_sndcp_fill_table(request)).ok
Answerable(octets, fields) ==
  /\ \A f \in Range(fields) : f.algo # "none" => Encodable(f)
  /\ Len(octets) >= 3 /\ Len(gprs_sndcp_compile_xid(Handled(fields).echo, 0)) <= Len(octets)
IndSurvived(l3) ==
  \A x \in Range(l3) : x.data # <<>> =>
    \A d \in {gprs_sndcp_parse_xid(x.data, <<>>)} : d.ok /\ Answerable(x.data, d.fields)
ConfSurvived(l3, request) ==
  \A x \in Range(l3), r \in Range(request) :
    \A req \in {gprs_sndcp_parse_xid(r.data, <<>>).fields} : Decoded(x.data, req)

\* SNDCP's part of an indication, if there is one, and the echo of the rest.
XidReplied(r, others) ==
  /\ comp' = r.comp
  /\ down' = Append(down, XidFrame(FALSE, gprs_llc_compile_xid(
                (IF r.ok THEN <<[type |-> XidL3, data |-> r.data]>> ELSE <<>>) \o Reverse(others))))
XidL3Ind(l3, others) ==
  XidReplied(IF l3 = <<>> THEN [ok |-> FALSE, data |-> <<>>, comp |-> comp] ELSE sndcp_sn_xid_ind(l3[1].data), others)
XidFieldsInd(fields) == XidL3Ind(L3Of(fields), NotL3(fields))
gprs_llc_process_xid_ind ==
  /\ up # <<>> /\ Head(up).type = "xid" /\ Head(up).cmd
  /\ IndSurvived(L3Of(gprs_llc_parse_xid(Head(up).data)))
  /\ up' = Tail(up)
  /\ XidFieldsInd(gprs_llc_parse_xid(Head(up).data))
  /\ UNCHANGED <<cfg, lle, sne, ms, obs>>
\* Without a request of SNDCP the confirmation is ignored.
XidL3Conf(l3, request) ==
  comp' = IF l3 = <<>> \/ request = <<>> THEN comp ELSE sndcp_sn_xid_conf(l3[1].data, request[1].data)
gprs_llc_process_xid_conf ==
  /\ up # <<>> /\ Head(up).type = "xid" /\ ~Head(up).cmd
  /\ ConfSurvived(L3Of(gprs_llc_parse_xid(Head(up).data)), L3Of(lle.xid))
  /\ up' = Tail(up)
  /\ XidL3Conf(L3Of(gprs_llc_parse_xid(Head(up).data)), L3Of(lle.xid))
  /\ lle' = [lle EXCEPT !.xid = NoXid]
  /\ UNCHANGED <<cfg, sne, down, ms, obs>>

-----------------------------------------------------------------------------
(* The MS                                                                  *)

NoReas == [next |-> -1, data |-> <<>>, pcomp |-> 0, dcomp |-> 0]
NewMs == [vu |-> 0, oc_send |-> 0, vur |-> 0, oc_recv |-> 0, npdu |-> 0, ents |-> {}, req |-> <<>>,
          reas |-> [n \in Nsapis |-> NoReas], got |-> <<>>]
MsList(class) == SetToSeq({e \in ms.ents : gprs_sndcp_get_compression_class(e) = class})

\* An N-PDU of the MS: all its segments.  The MS sends none while it negotiates.
MsCycle(i) == (ms.vu + i) \div NuMod
MsSegments(segs) ==
  /\ up' = up \o [i \in DOMAIN segs |-> UiFrame((ms.vu + i - 1) % NuMod, ms.oc_send + MsCycle(i - 1), segs[i])]
  /\ ms' = [ms EXCEPT !.vu = (@ + Len(segs)) % NuMod, !.oc_send = @ + MsCycle(Len(segs)), !.npdu = (@ + 1) % 4096]
MsData(n, p, d) == MsSegments(Segments(n, ms.npdu, Cut(d.data, N201_U - 4, N201_U - 3), 16, p.val, d.val))
MsHeader(g, p) == MsData(g.nsapi, p, Compressed(MsList("dcomp"), g.nsapi, p.data, g.gain))
MsNpdu(g, data) ==
  /\ MsHeader(g, Compressed(MsList("pcomp"), g.nsapi, data, g.gain))
  /\ obs' = [obs EXCEPT !.offered = Append(@, data)]
MsSend ==
  /\ cfg.ul # <<>> /\ ms.req = <<>> /\ sne[Head(cfg.ul).nsapi].on
  /\ MsNpdu(Head(cfg.ul), Npdu("ul", Len(obs.offered) + 1, Head(cfg.ul).len))
  /\ cfg' = [cfg EXCEPT !.ul = Tail(@)]
  /\ UNCHANGED <<lle, comp, sne, down>>

MsOther ==
  /\ cfg.other # <<>>
  /\ up' = Append(up, OtherFrame(Head(cfg.other)))
  /\ cfg' = [cfg EXCEPT !.other = Tail(@)]
  /\ UNCHANGED <<lle, comp, sne, down, ms, obs>>

\* The MS starts to number its frames at zero.
MsRestart ==
  /\ cfg.restart > 0 /\ ms.vu # 0
  /\ ms' = [ms EXCEPT !.vu = 0]
  /\ cfg' = [cfg EXCEPT !.restart = @ - 1]
  /\ obs' = [obs EXCEPT !.restarts = @ + 1]
  /\ UNCHANGED <<lle, comp, sne, up, down>>

\* A proposal of the MS, one negotiation at a time.
MsPropose ==
  /\ cfg.props # <<>> /\ ~XidPending /\ \E n \in Nsapis : sne[n].on
  /\ ms' = [ms EXCEPT !.req = <<Head(cfg.props)>>]
  /\ LET l3 == IF Head(cfg.props) = <<>> THEN <<>> ELSE gprs_sndcp_compile_xid(Head(cfg.props), 0)
     IN  up' = Append(up, XidFrame(TRUE, gprs_llc_compile_xid(
                             <<[type |-> XidL3, data |-> l3], [type |-> XidVersion, data |-> <<0>>]>>)))
  /\ cfg' = [cfg EXCEPT !.props = Tail(@)]
  /\ UNCHANGED <<lle, comp, sne, down, obs>>

\* The entities after the fields of an answer.
MsTakes(ents, fields) ==
  {e \in ents : \A f \in Range(fields) : ~(f.entity = e.entity
       /\ gprs_sndcp_get_compression_class(f) = gprs_sndcp_get_compression_class(e))}
  \cup {gprs_sndcp_comp_create(f) : f \in {g \in Range(fields) : g.nsapis # {}}}

\* What the answer does not mention is taken as it was asked for.
MsAgreed(fields, req) ==
  fields \o SelectSeq(req, LAMBDA r : \A f \in Range(fields) : f.entity # r.entity \/ f.algo # r.algo)

\* The answer to a field: refused, taken as it is, or with a smaller first parameter.
MsAnswers(f) ==
  LET lower == [f.params EXCEPT ![1] = Encoder[f.algo][1].min]
      Answer(ns, shown, v) == [shown |-> Field(FALSE, f.entity, f.algo, <<>>, ns, shown), full |-> [f EXCEPT !.nsapis = ns, !.params = v]]
  IN  {Answer({}, <<>>, f.params), Answer(f.nsapis, <<>>, f.params), Answer(f.nsapis, lower, lower)}

\* A command is answered field by field; an answer ends the MS's own negotiation.
MsAnswersXid(fields, l3, asked) ==
  \E as \in {s \in [DOMAIN asked -> UNION {MsAnswers(f) : f \in Range(asked)}] :
               \A i \in DOMAIN asked : s[i] \in MsAnswers(asked[i])} :
    LET shown == [i \in DOMAIN as |-> as[i].shown]
        l3resp == IF l3 = <<>> THEN <<>> ELSE <<[type |-> XidL3, data |-> gprs_sndcp_compile_xid(shown, -1)]>>
    IN  /\ ms' = [ms EXCEPT !.ents = MsTakes(@, [i \in DOMAIN as |-> as[i].full])]
        /\ up' = Append(up, XidFrame(FALSE, gprs_llc_compile_xid(l3resp \o NotL3(fields))))
MsXid ==
  /\ down # <<>> /\ Head(down).type = "xid"
  /\ down' = Tail(down)
  /\ \E fields \in {gprs_llc_parse_xid(Head(down).data)} :
       LET l3 == L3Of(fields) IN
       \/ /\ Head(down).cmd
          /\ \E asked \in {IF l3 = <<>> THEN <<>> ELSE gprs_sndcp_parse_xid(l3[1].data, <<>>).fields} :
               MsAnswersXid(fields, l3, asked)
       \/ /\ ~Head(down).cmd
          /\ \E answered \in {IF l3 = <<>> \/ l3[1].data = <<>> THEN <<>>
                               ELSE gprs_sndcp_parse_xid(l3[1].data, ms.req[1]).fields} :
               ms' = [ms EXCEPT !.req = <<>>, !.ents = MsTakes(@, MsAgreed(answered, ms.req[1]))]
          /\ UNCHANGED up
  /\ UNCHANGED <<cfg, lle, comp, sne, obs>>

\* The overflow counter of a frame: a number below the one expected is of the next cycle.
MsOc(nu) == ms.oc_recv + (IF nu < ms.vur THEN 1 ELSE 0)
MsWhole(q) == Expanded(MsList("pcomp"), q.pcomp, Expanded(MsList("dcomp"), q.dcomp, q.data))
MsReassembles(f, n, q, whole) ==
  ms' = [ms EXCEPT !.vur = (f.nu + 1) % NuMod,
                   !.oc_recv = MsOc(f.nu) + (f.nu + 1) \div NuMod,
                   !.reas[n] = IF whole THEN NoReas ELSE q,
                   !.got = IF whole THEN Append(@, MsWhole(q)) ELSE @]
MsAppends(r, seg) == IF r.next = seg.seg THEN [r EXCEPT !.next = @ + 1, !.data = @ \o seg.data] ELSE NoReas
MsBegins(seg) ==
  IF seg.first THEN [next |-> 0, data |-> <<>>, pcomp |-> seg.pcomp, dcomp |-> seg.dcomp] ELSE ms.reas[seg.nsapi]
MsUi ==
  /\ down # <<>> /\ Head(down).type = "ui"
  /\ down' = Tail(down)
  /\ LET f == Head(down) IN
     \/ /\ ~Deciphered(f, MsOc(f.nu))
        /\ obs' = [obs EXCEPT !.ms_refused = @ \cup {f.nu}]
        /\ UNCHANGED ms
     \/ /\ Deciphered(f, MsOc(f.nu))
        /\ \E q \in {MsAppends(MsBegins(f.pdu), f.pdu)} :
             MsReassembles(f, f.pdu.nsapi, q, q.next > 0 /\ ~f.pdu.more)
        /\ UNCHANGED obs
  /\ UNCHANGED <<cfg, lle, comp, sne, up>>
MsDm ==
  /\ down # <<>> /\ Head(down).type = "dm"
  /\ down' = Tail(down)
  /\ UNCHANGED <<cfg, lle, comp, sne, up, ms, obs>>

-----------------------------------------------------------------------------
(* The way                                                                 *)

LostFault(f) == IF f.type = "xid" THEN {"lost", "xid"} ELSE IF f.type = "ui" /\ f.pdu.first THEN {"lost", "first"} ELSE {"lost"}
LoseUp ==
  /\ cfg.loss > 0 /\ up # <<>>
  /\ up' = Tail(up)
  /\ cfg' = [cfg EXCEPT !.loss = @ - 1]
  /\ obs' = [obs EXCEPT !.faults = @ \cup LostFault(Head(up))]
  /\ UNCHANGED <<lle, comp, sne, down, ms>>
LoseDown ==
  /\ cfg.loss > 0 /\ down # <<>>
  /\ down' = Tail(down)
  /\ cfg' = [cfg EXCEPT !.loss = @ - 1]
  /\ obs' = [obs EXCEPT !.faults = @ \cup {"lost"}]
  /\ UNCHANGED <<lle, comp, sne, up, ms>>
DupUp ==
  /\ cfg.dup > 0 /\ up # <<>>
  /\ up' = <<Head(up)>> \o up
  /\ cfg' = [cfg EXCEPT !.dup = @ - 1]
  /\ obs' = [obs EXCEPT !.faults = @ \cup {"dup"}]
  /\ UNCHANGED <<lle, comp, sne, down, ms>>

-----------------------------------------------------------------------------
NewObs == [sent |-> <<>>, offered |-> <<>>, delivered |-> <<>>, refused |-> 0, ms_refused |-> {}, restarts |-> 0, faults |-> {}, stale |-> FALSE]
Init ==
  /\ cfg \in Scenarios
  /\ lle = NewLle
  /\ comp = [proto |-> <<>>, data |-> <<>>, gen |-> 0]
  /\ sne = [n \in Nsapis |-> NoSne]
  /\ up = <<>> /\ down = <<>>
  /\ ms = NewMs
  /\ obs = NewObs
Next ==
  \/ Activate \/ sndcp_sm_deactivate_ind \/ cb_data_ind
  \/ rx_ui \/ rx_other \/ gprs_llc_process_xid_ind \/ gprs_llc_process_xid_conf
  \/ MsSend \/ MsOther \/ MsRestart \/ MsPropose \/ MsXid \/ MsUi \/ MsDm
  \/ LoseUp \/ LoseDown \/ DupUp
Spec == Init /\ [][Next]_vars

-----------------------------------------------------------------------------
(* Properties                                                              *)

\* The counters stay within their moduli, and a saved request is one of gprs_llc_generate_xid.
TypeOK ==
  /\ lle.vu_send \in 0..(NuMod - 1) /\ lle.vu_recv \in 0..(NuMod - 1) /\ lle.last \in 0..(NuMod - 1)
  /\ lle.xid # NoXid => Len(NotL3(lle.xid)) = 3
  /\ \A n \in Nsapis : sne[n].on => sne[n].tx_npdu_nr \in 0..(NpduMod - 1)

\* No two compression entities of a list have one number, whatever is proposed, confirmed and
\* refused in whichever order (gprs_sndcp_comp_add): gprs_sndcp_comp_delete ends at the first.
EntitiesUnique ==
  \A list \in {comp.proto, comp.data} : \A i, j \in DOMAIN list : list[i].entity = list[j].entity => i = j

\* Reassembly and expansion (sndcp_ll_unitdata_ind): what goes to the GGSN is an N-PDU that
\* the MS sent, whole, plain and in order, even if segments were lost - as long as no first
\* segment and no XID frame was, no frame came twice, and no negotiation wiped entities in use.
UplinkIntact ==
  obs.faults \cap {"first", "dup", "wiped", "xid"} = {} =>
    /\ Range(obs.delivered) \subseteq Range(obs.offered)
    /\ \A i, j \in DOMAIN obs.delivered : i < j => obs.delivered[i][1].id < obs.delivered[j][1].id

\* Nothing was lost, repeated or wiped and nobody left: with no frame under way each side has
\* exactly the N-PDUs that went in at the other (sndcp_sn_unitdata_req, defrag_input); the MS
\* may miss those whose frame closed a ciphered cycle.
BearerTransparent ==
  (obs.faults = {} /\ obs.restarts = 0 /\ up = <<>> /\ down = <<>>) =>
    /\ obs.delivered = obs.offered
    /\ obs.ms_refused = {} => ms.got = obs.sent

\* The window test and its recovery as the code has them (gprs_llc_hdr_rx): unciphered, with no
\* frame repeated, the SGSN discards at most one frame for each time the MS starts its numbers
\* afresh - with at most one frame lost, as in the run.  A gap of more than NuMod - Window lost
\* frames looks like a restart too.
RestartLearnt == (~cfg.cipher /\ "dup" \notin obs.faults) => obs.refused <= obs.restarts

\* The comment on the window test (gprs_llc_hdr_rx): a number of the window is discarded until it
\* came three times.  A frame that comes twice, and nothing else going wrong, is not passed on twice.
RepetitionDiscarded ==
  (obs.restarts = 0 /\ obs.faults \subseteq {"dup"}) =>
    \A i, j \in DOMAIN obs.delivered : obs.delivered[i] = obs.delivered[j] => i = j

\* Overflow counters (gprs_llc_tx_ui, gprs_llc_hdr_rx): with nothing lost or repeated, every frame of an
\* MS that goes on with its numbers is deciphered and taken, and every one of the SGSN but the last
\* of a cycle is deciphered.
CipherInStep ==
  obs.faults \cap {"lost", "dup"} = {} =>
    /\ obs.restarts = 0 => obs.refused = 0
    /\ obs.ms_refused \subseteq {NuMod - 1}

\* The compression entities of both sides: number, algorithm, values, NSAPIs, parameters.
Agreed == Range(comp.proto \o comp.data) = ms.ents
\* A negotiation that is over leaves both sides with the same entities, whether the SGSN asked
\* (sndcp_sn_xid_conf) or the MS (sndcp_sn_xid_ind) and whatever was left out of the answer.
EntitiesAgree ==
  (~XidPending /\ obs.faults \cap {"lost", "dup", "forgotten"} = {}) => Agreed

\* The wipe of sndcp_sn_xid_req hits leftovers only: no N-PDU is expanded with lists that
\* were freed after its first segment came.
DefragListsLive == ~obs.stale
=============================================================================
