---------------------------- MODULE MCGmmContext ----------------------------
(* Instances of GmmContext for TLC.                                        *)
EXTENDS GmmContext

\* Configurations: RAN, auth policy, whether the IMSI is in the access list,
\* "authentication required", and "update location" required.
Config(ran, policy, listed, a, u) ==
  [ran |-> ran, policy |-> policy, listed |-> listed, require_auth |-> a, require_ul |-> u]

MCLocal == {Config("Gb", "open", TRUE, FALSE, FALSE)}
             \cup {Config("Gb", "acl", l, FALSE, FALSE) : l \in BOOLEAN}
MCRemote == {Config("Gb", "remote", TRUE, a, TRUE) : a \in BOOLEAN}
MCGb == {Config("Gb", "remote", TRUE, TRUE, TRUE)}
MCMixed == MCLocal \cup MCRemote
MCIu == {Config("Iu", "remote", TRUE, TRUE, TRUE)}

\* The HLR answers every request.
ReliableSpec ==
  Init /\ [][HandlerStep \/ (Quiet /\ (MsInput \/ TimerInput \/ IuInput \/ HlrAnswer))]_vars
=============================================================================
