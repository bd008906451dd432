---------------------------- MODULE MCProcessor ----------------------------
(***************************************************************************)
(* Configurations of a processor: filters, limits, modules.                *)
(***************************************************************************)
EXTENDS Processor, TLC

CONSTANTS t1, t2, i1, i2, i3, i4

\* A copy for filter 1, the resource itself for filter 2, which does not take
\* i3: the first queue holds one item, the second one too.
CopyAccepts == (1 :> Id) @@ (2 :> Id \ {i3})
CopyCap == [f \in Filter |-> 1]

\* Every filter takes everything.
AllAccepts == [f \in Filter |-> Id]
NoCap == [f \in Filter |-> 0]

\* Sound where no resource is singled out by a filter or a module.
Symmetric == Permutations(Id) \cup Permutations(Thread)

=============================================================================
