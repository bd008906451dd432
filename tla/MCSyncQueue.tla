----------------------------- MODULE MCSyncQueue -----------------------------
(***************************************************************************)
(* Model values for lib/SyncQueue.h: one sub-queue limited by the number   *)
(* of items, one by their total size, one without a limit.                 *)
(***************************************************************************)
EXTENDS SyncQueue, TLC

CONSTANTS w1, w2, r1, r2, i1, i2, i3

\* Two sub-queues: priority 1 limited to one item, priority 0 to size 2.
TwoPrio == {0, 1}
TwoMaxItems == [p \in TwoPrio |-> p]
TwoMaxSize == [p \in TwoPrio |-> 2 - 2 * p]

\* One sub-queue limited to one item.
OnePrio == {0}
OnlyOneItem == [p \in OnePrio |-> 1]
NoMaxSize == [p \in OnePrio |-> 0]

TwoSizes == (i1 :> 1) @@ (i3 :> 2)

Symmetry == Permutations({w1, w2}) \cup Permutations({r1, r2})

=============================================================================
