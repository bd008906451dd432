---------------------------- MODULE MCAttributes ----------------------------
(***************************************************************************)
(* Resources for module Attributes: a compiled one and two Perl resources  *)
(* that share an interpreter.                                              *)
(***************************************************************************)
EXTENDS Attributes, TLC

CONSTANTS t1, t2, rc, rp, rq, i1, module

Users == (rc :> t1) @@ (rp :> t1) @@ (rq :> t2)
OneInterp == [r \in Perl |-> i1]
\* The first thread comes from a Perl module.
Homes == (t1 :> module) @@ (t2 :> NoContext)

\* "u" is an integer, "l" a list, "h" a hash, one of whose keys is its name.
MCShape == ("u" :> "scalar") @@ ("l" :> "array") @@ ("h" :> "hash")
           @@ ("ip" :> "scalar")
MCKind == ("u" :> "uint64") @@ ("l" :> "string") @@ ("h" :> "int32")
          @@ ("ip" :> "ip")
MCTables == {(rc :> {"h"}) @@ (rp :> {"u", "l"}) @@ (rq :> {"ip"}),
             (rc :> {"u", "l"}) @@ (rp :> {"h"}) @@ (rq :> {"ip"})}
\* The class of rp has no method that counts the items of "h".
MCMethod == ("u" :> {"Get", "Set"}) @@ ("l" :> {"Get", "Set", "Count", "Clear"})
            @@ ("h" :> {"Get", "Set"}) @@ ("ip" :> {"Get", "Set"})
=============================================================================
