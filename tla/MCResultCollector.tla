-------------------------- MODULE MCResultCollector --------------------------
(***************************************************************************)
(* Model values for the result collector: who submits which resource.      *)
(***************************************************************************)
EXTENDS ResultCollector, TLC

CONSTANTS c1, c2, i1, i2, i3

TwoOwners == (i1 :> c1) @@ (i2 :> c2) @@ (i3 :> c1)
OneOwner == [i \in Id |-> c1]

=============================================================================
