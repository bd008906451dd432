--------------------------- MODULE MCResourcePool ---------------------------
(* Configurations for ResourcePool. *)
EXTENDS ResourcePool

CONSTANTS t1, t2, n, p, i1, i2, i3, r1, r2, r3, r4, r5, r6

\* One thread and three interpreters: the counts and the order of the heap.
HeapScene ==
  [threads |-> {t1}, available |-> 1, interpreters |-> 3,
   native |-> <<>>, perl |-> <<p>>, scripts |-> FALSE, ids |-> 8]

\* Two threads that share an interpreter, files that are no resources.
SharedScene(scripts) ==
  [threads |-> {t1, t2}, available |-> 1, interpreters |-> 1,
   native |-> <<NoOne, n>>, perl |-> <<NoOne, p>>, scripts |-> scripts, ids |-> 5]

MCScenes == {HeapScene, SharedScene(TRUE), SharedScene(FALSE)}
============================================================================
