---------------------------- MODULE MCPdpContext ----------------------------
(* Instances of PdpContext for TLC.                                        *)
EXTENDS PdpContext
CONSTANTS p1, p2

Config(release, loss, unreachable, rans, asks, memory) ==
  [iu_release |-> release, rnc_loss |-> loss, unreachable |-> unreachable,
   rans |-> rans, asks |-> asks, memory |-> memory]

Static == {<<5, 0, "static">>, <<6, 1, "static">>}
Dynamic == {<<5, 0, "dynamic">>, <<5, 1, "dynamic">>}
One == {<<5, 0, "static">>}
MCRequests == Static \cup Dynamic
MCPctx == {p1, p2}

\* Two NSAPIs at one GGSN, one NSAPI with two look-ups, and an MS that moves
\* between Gb and Iu, with each of the Gn policies.
MCAll ==
  {Config("keep", "keep", FALSE, {"Gb"}, Static, MCPctx),
   Config("keep", "keep", FALSE, {"Gb"}, Dynamic, MCPctx),
   Config("keep", "delete_gn", TRUE, {"Gb", "Iu"}, One, {p1}),
   Config("delete_gn", "keep", TRUE, {"Iu"}, One, {p1})}
=============================================================================
