----------------------------- MODULE PdpTunnel -----------------------------
(***************************************************************************)
(* What the session management of the SGSN promises about the GTP tunnel   *)
(* of a PDP context, whatever the interleaving of MS, RAN, GGSN and timers *)
(* (gprs_sm.c, pdpctx.c, sgsn_libgtp.c, gtp_ggsn.c).                       *)
(*                                                                         *)
(* creating   a Create PDP Context Request is unanswered                   *)
(* up         the GGSN has answered, or may have: there is a libgtp handle *)
(* closing    a Delete PDP Context Request is unanswered                   *)
(* released   the GGSN side is gone, the MS is being told (T3395)          *)
(* abandoned  neither a tunnel nor an MS is left, only the memory          *)
(*                                                                         *)
(* A tunnel never goes back: one that is closing is not used again, and a  *)
(* released one gives way before its NSAPI is used again.                  *)
(***************************************************************************)
CONSTANT Pctx
VARIABLE tunnel

States == {"none", "creating", "up", "closing", "released", "abandoned"}

TypeOK == tunnel \in [Pctx -> States]
Init == tunnel = [p \in Pctx |-> "none"]

\* What may become of a tunnel in one step.
Successors == [none |-> {"creating"},
               creating |-> {"up", "closing", "released", "none"},
               up |-> {"closing", "released", "none"},
               closing |-> {"released", "none"},
               released |-> {"abandoned", "none"},
               abandoned |-> {}]

\* One input may move several tunnels: a restart of the GGSN, a detach.
Step ==
  /\ tunnel' \in [Pctx -> States]
  /\ \A p \in Pctx : tunnel'[p] # tunnel[p] => tunnel'[p] \in Successors[tunnel[p]]

\* The SGSN dies.
Crash == tunnel' = [p \in Pctx |-> "none"]

Next == Step \/ Crash
SafeSpec == Init /\ [][Next]_tunnel

\* Requests to the GGSN end, and so does the wait for the MS.
Ends(p) == \A s \in {"creating", "closing", "released"} : []<>(tunnel[p] # s)
Spec == SafeSpec /\ \A p \in Pctx : Ends(p)
=============================================================================
