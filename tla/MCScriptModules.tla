-------------------------- MODULE MCScriptModules --------------------------
(* Configurations of two modules and two threads for ScriptModules. *)
EXTENDS ScriptModules, TLC

CONSTANTS p1, p2, q1, q2, w1, w2, c, r1, r2, r3

\* A module with its processor thread, and threads that serve clients.
Alone(m, kind, clients) ==
  [owner |-> m :> w1, kind |-> m :> kind, clients |-> clients, reads |-> {}]

\* Two modules with a processor thread each and scripts that read.
Pair(m, n, reads) ==
  [owner |-> m :> w1 @@ n :> w2, kind |-> m :> "INPUT" @@ n :> "SIMPLE",
   clients |-> {}, reads |-> reads]

MCScenes ==
  {Alone(m, k, {c}) : m \in {p1, q1}, k \in Kind} \cup
  {Alone(m, "INPUT", {c, w2}) : m \in {p1, q1}} \cup
  {Pair(p1, q1, {<<p1, q1>>}), Pair(p1, q1, {<<q1, p1>>}),
   Pair(q1, q2, {<<q1, q2>>}), Pair(p1, p2, {<<p1, p2>>})}
============================================================================
