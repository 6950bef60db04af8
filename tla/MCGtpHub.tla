------------------------------ MODULE MCGtpHub ------------------------------
(* Instances of GtpHub for TLC.                                            *)
EXTENDS GtpHub, TLC

CONSTANTS s1, g1, apn

NoIe == [addr |-> NoAddr, tei |-> 0, fits |-> TRUE]
NoIes == [pl \in Planes |-> NoIe]
\* The address a and TEIs c, u of a GSN in its GSN Address and TEI IEs.
Ies(a, c, u) == [pl \in Planes |-> [addr |-> a, tei |-> IF pl = "ctrl" THEN c ELSE u, fits |-> TRUE]]

Packet(type, side, a, n, tei, seq) ==
  [version |-> 1, side |-> side, plane |-> IF type = "user" THEN "user" ELSE "ctrl",
   addr |-> a, port |-> n, type |-> type, tei |-> tei, seq |-> seq, recovery |-> -1,
   apn |-> NoApn, ie |-> NoIes, nsapi |-> NoNsapi, cause |-> TRUE]

Symmetry == Permutations(TunIds)

SeqNrs == 0..SeqMax
TeiNrs == 0..TeiMax
NoProxy == [s \in Sides |-> [pl \in Planes |-> NoPort]]

\* The GGSN side is one GGSN, also for lookups.
GgsnProxy == [NoProxy EXCEPT !["ggsn"]["ctrl"] = PortOf("ggsn", "ctrl", g1, 2123)]

CreateReq(a, n, seq, rec, ie) ==
  [Packet("create_req", "sgsn", a, n, 0, seq) EXCEPT !.apn = apn, !.recovery = rec, !.ie = ie]

\* Two tunnels of one SGSN at one GGSN: TEIs announced again, restarts of the
\* SGSN, deletes with and without a response.
TunnelPackets ==
       {CreateReq(s1, 2123, 0, rec, Ies(s1, tei, tei)) : rec \in {0, 1}, tei \in {1, 2}}
  \cup {[Packet("create_rsp", "ggsn", g1, 2123, tei, 1) EXCEPT !.ie = Ies(g1, n, n)] :
          tei \in 1..TeiMax, n \in {1, 2}}
  \cup {Packet("create_rsp", "ggsn", g1, 2123, tei, 1) : tei \in {0, 1}}
  \cup {[Packet("delete_req", "sgsn", s1, 2123, tei, 0) EXCEPT !.nsapi = 5] : tei \in TeiNrs}
  \cup {Packet("delete_req", "sgsn", s1, 2123, 1, 0)}
  \cup {Packet("delete_rsp", "ggsn", g1, 2123, tei, 1) : tei \in TeiNrs}
  \cup {[Packet("delete_rsp", "ggsn", g1, 2123, 1, 1) EXCEPT !.cause = FALSE]}

\* One tunnel at a GGSN that has to be looked up: every other kind of message,
\* malformed ones included, and restarts of the GGSN.
OddCreates ==
  {CreateReq(s1, 2123, 0, -1, ie) :
     ie \in {[Ies(s1, 1, 1) EXCEPT !["user"].tei = 0], [Ies(s1, 1, 1) EXCEPT !["user"].fits = FALSE]}}
LookupPackets ==
       {[CreateReq(s1, 2123, 0, -1, Ies(s1, 1, 1)) EXCEPT !.tei = tei] : tei \in {0, 1}} \cup OddCreates
  \cup {[Packet("create_rsp", "ggsn", g1, 2123, 1, 1) EXCEPT !.ie = Ies(g1, 1, 1), !.recovery = 0]}
  \cup {[Packet("update", "ggsn", g1, 2123, 1, 1) EXCEPT !.recovery = 1]}
  \cup {[Packet("create_rsp", "sgsn", s1, 2123, 1, 0) EXCEPT !.ie = Ies(s1, 1, 1)]}
  \cup {Packet("update", "ggsn", g1, 2123, 0, 1), Packet("user", "sgsn", s1, 2152, 1, 0)}
  \cup {[Packet("update", "sgsn", s1, 2123, 0, 0) EXCEPT !.version = 0]}

\* hub->proxy names the GGSN, or nothing.
Setup(packets, proxy, n) == [packets |-> packets, proxy |-> proxy, max_tunnels |-> n]
LookupSetups == [lookup |-> Setup(LookupPackets, NoProxy, 1)]
AllSetups == [tunnels |-> Setup(TunnelPackets, GgsnProxy, 2), lookup |-> Setup(LookupPackets, NoProxy, 1)]
=============================================================================
