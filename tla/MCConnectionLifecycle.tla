----------------------- MODULE MCConnectionLifecycle -----------------------
(* Instances of ConnectionLifecycle: two connections, three heap addresses *)
(* for their drivers, an option object of each way to be set and one that  *)
(* takes a setting back, and a library on each side of a threshold.        *)
EXTENDS ConnectionLifecycle, TLC

CONSTANTS c1, c2, d1, d2, d3, o1, o2, o3, o4

MCOptionAt ==
  (o1 :> [class |-> "FoundRowsOption", on |-> TRUE])
  @@ (o2 :> [class |-> "MultiResultsOption", on |-> TRUE])
  @@ (o3 :> [class |-> "ReconnectOption", on |-> TRUE])
  @@ (o4 :> [class |-> "FoundRowsOption", on |-> FALSE])
MCVersions == {40100, 50013, 50106}
Symmetry == Permutations({c1, c2}) \cup Permutations({d1, d2, d3})
=============================================================================
