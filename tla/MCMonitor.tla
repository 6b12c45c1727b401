----------------------------- MODULE MCMonitor -----------------------------
(***************************************************************************)
(* Small instances of Monitor.                                             *)
(*                                                                         *)
(* Overlap: host a, whose goroutines may coexist, two at a time, is added  *)
(* and dropped by reloads, while b, configured with its ping disabled,     *)
(* stays.                                                                  *)
(*                                                                         *)
(* Churn: one host, added and dropped, for the liveness properties.        *)
(***************************************************************************)
EXTENDS Monitor, TLC

CONSTANTS a, b, uptime, s1, s2

Off == [ping |-> FALSE, every |-> (uptime :> 0)]
Every(n) == [ping |-> TRUE, every |-> (uptime :> n)]

OverlapHosts == {a, b}
OverlapConfigs == {b :> Off, (a :> Every(1)) @@ (b :> Off)}

BothSlots == {s1, s2}
SlotSymmetry == Permutations(BothSlots)

ChurnConfigs == {<<>>, a :> Every(1)}

============================================================================
