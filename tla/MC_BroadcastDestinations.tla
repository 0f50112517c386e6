----------------------- MODULE MC_BroadcastDestinations -----------------------
(***************************************************************************)
(* Instances of BroadcastDestinations for TLC: two clients, two command    *)
(* IDs, one destination with two secret versions, and one budget per run.  *)
(***************************************************************************)
EXTENDS BroadcastDestinations, TLC

CONSTANTS d1, c1, c2, k1, k2

\* Command IDs and clients are interchangeable.
Symmetric == Permutations(Commands) \cup Permutations(Clients)

Allow(f) == [k \in Kinds |-> IF k \in DOMAIN f THEN f[k] ELSE 0]

CommandsBudget == Allow([request |-> 3, background |-> 1, fault |-> 1])
ReadsBudget    == Allow([request |-> 2, background |-> 1])
================================================================================
