-------------------------- MODULE AttributesProofs --------------------------
(***************************************************************************)
(* Theorems about module Attributes: an accessor of a Perl resource leaves *)
(* the interpreter as it found it, and a getter returns what was set, for  *)
(* any number of threads, resources, interpreters and attributes.          *)
(***************************************************************************)
EXTENDS Attributes, FiniteSetTheorems, WellFoundedInduction, TLAPS

-----------------------------------------------------------------------------
(***************************************************************************)
(* The stack of a thread: at most a call and one that its method makes.    *)
(***************************************************************************)

Request(V) == [op : Ops, by : {"ai", "name"}, r : Res, a : Attr \cup {NoAttr}, i : V, v : V]
Entry(V) == [c : Request(V), at : {"wait", "run", "answer"}, old : V, res : V, nested : BOOLEAN]
\* The indices, values, contexts and results that occur are some set V.
Framed(V) == stack \in [Thread -> Seq(Entry(V))]
Shallow == \A u \in Thread : Len(stack[u]) <= 2
Stacks == (\E V : Framed(V)) /\ Shallow

\* A frame but for the mark that its method has made a call.
Same(f, g) == f.c = g.c /\ f.at = g.at /\ f.old = g.old /\ f.res = g.res
OtherStacks(t) == \A u \in Thread \ {t} : stack'[u] = stack[u]

\* What Push, SetTop and Pop do to the stack of t.
Pushed(t, f) ==
  /\ Stacks' /\ OtherStacks(t)
  /\ Len(stack[t]) \in 0..1 /\ Len(stack'[t]) = Len(stack[t]) + 1
  /\ stack'[t][Len(stack[t]) + 1] = f
  /\ \A k \in 1..Len(stack[t]) : Same(stack'[t][k], stack[t][k])
Edited(t, f) ==
  /\ Stacks' /\ OtherStacks(t)
  /\ Len(stack[t]) \in 1..2 /\ Len(stack'[t]) = Len(stack[t])
  /\ stack'[t][Len(stack[t])] = f
  /\ \A k \in 1..(Len(stack[t]) - 1) : stack'[t][k] = stack[t][k]
Popped(t) ==
  /\ Stacks' /\ OtherStacks(t)
  /\ Len(stack[t]) \in 1..2 /\ Len(stack'[t]) = Len(stack[t]) - 1
  /\ \A k \in 1..(Len(stack[t]) - 1) : stack'[t][k] = stack[t][k]

LEMMA Widen ==
  ASSUME NEW V, NEW W, V \subseteq W, Framed(V)
  PROVE  Framed(W)
<1>1. Request(V) \subseteq Request(W)
  BY DEF Request
<1>2. Entry(V) \subseteq Entry(W)
  BY <1>1 DEF Entry
<1>3. SUFFICES ASSUME NEW u \in Thread PROVE stack[u] \in Seq(Entry(W))
  BY DEF Framed
<1>4. stack[u] \in Seq(Entry(V))
  BY DEF Framed
<1>5. QED
  BY <1>2, <1>4

LEMMA StackLength ==
  ASSUME Stacks, NEW t \in Thread
  PROVE  /\ Len(stack[t]) \in 0..2
         /\ stack[t] # <<>> => Len(stack[t]) \in 1..2
<1>1. PICK V : Framed(V)
  BY DEF Stacks
<1>2. stack[t] \in Seq(Entry(V))
  BY <1>1 DEF Framed
<1>3. Len(stack[t]) \in Nat /\ (stack[t] # <<>> => Len(stack[t]) # 0)
  BY <1>2
<1>4. Len(stack[t]) <= 2
  BY DEF Stacks, Shallow
<1>5. \A n \in Nat : n <= 2 => n \in 0..2 /\ (n # 0 => n \in 1..2)
  OBVIOUS
<1>6. QED
  BY <1>3, <1>4, <1>5

LEMMA Appended ==
  ASSUME NEW X, NEW s \in Seq(X), NEW f \in X, NEW r, r = Append(s, f)
  PROVE  r \in Seq(X) /\ Len(r) = Len(s) + 1 /\ r[Len(s) + 1] = f /\ \A k \in 1..Len(s) : r[k] = s[k]
OBVIOUS

LEMMA FirstOf ==
  ASSUME NEW X, NEW s \in Seq(X), Len(s) = 1
  PROVE  s[1] \in X
OBVIOUS

LEMMA Replaced ==
  ASSUME NEW X, NEW s \in Seq(X), Len(s) = 1, NEW g \in X, NEW r, r = [s EXCEPT ![1] = g]
  PROVE  r \in Seq(X) /\ Len(r) = 1 /\ r[1] = g
<1>1. r \in Seq(X)
  OBVIOUS
<1>2. Len(r) = 1 /\ r[1] = g
  OBVIOUS
<1>3. QED
  BY <1>1, <1>2

LEMMA PushIs ==
  ASSUME NEW V, Framed(V), Shallow, NEW t \in Thread, NEW f \in Entry(V), Len(stack[t]) <= 1, Push(t, f)
  PROVE  Pushed(t, f)
<1>1. OtherStacks(t) /\ stack' = [stack EXCEPT ![t] = stack'[t]]
  BY DEF OtherStacks, Push, Framed
<1>2. PICK s \in Seq(Entry(V)) : s = stack[t]
  BY DEF Framed
<1>3. PICK n \in Nat : n = Len(s) /\ n <= 1
  BY <1>2
<1>4. PICK r : r = IF s = <<>> THEN s ELSE [s EXCEPT ![Len(s)].nested = TRUE]
  OBVIOUS
<1>5. stack'[t] = Append(r, f)
  BY <1>2, <1>4 DEF Push, Framed
<1>6. r \in Seq(Entry(V)) /\ Len(r) = n /\ \A k \in 1..n : Same(r[k], s[k])
  <2>1. CASE s = <<>>
    <3>1. r = s /\ n = 0
      BY <1>3, <1>4, <2>1
    <3>2. 1..n = {}
      BY <3>1
    <3>3. QED
      BY <1>3, <3>1, <3>2
  <2>2. CASE s # <<>>
    <3>1. n = 1
      BY <1>3, <2>2
    <3>2. PICK e \in Entry(V) : e = s[1]
      BY <1>3, <3>1, FirstOf
    <3>3. PICK g : g = [e EXCEPT !.nested = TRUE]
      OBVIOUS
    <3>4. g \in Entry(V) /\ Same(g, e)
      BY <3>3 DEF Entry, Same
    <3>5. r = [s EXCEPT ![1] = g]
      BY <1>3, <1>4, <2>2, <3>1, <3>2, <3>3
    <3>6. r \in Seq(Entry(V)) /\ Len(r) = 1 /\ r[1] = g
      <4>1. Len(s) = 1
        BY <1>3, <3>1
      <4>2. QED
        BY <3>4, <3>5, <4>1, Replaced
    <3>7. \A k \in 1..n : k = 1
      BY <3>1
    <3>8. QED
      BY <3>1, <3>2, <3>4, <3>6, <3>7
  <2>3. QED
    BY <2>1, <2>2
<1>7. /\ stack'[t] \in Seq(Entry(V)) /\ Len(stack'[t]) = n + 1 /\ stack'[t][n + 1] = f
      /\ \A k \in 1..n : stack'[t][k] = r[k]
  BY <1>5, <1>6, Appended
<1>8. \A k \in 1..n : Same(stack'[t][k], s[k])
  BY <1>6, <1>7
<1>9. Framed(V)'
  BY <1>1, <1>7 DEF Framed
<1>10. Shallow'
  <2>1. Len(stack'[t]) <= 2
    BY <1>3, <1>7
  <2>2. QED
    BY <1>1, <2>1 DEF OtherStacks, Shallow
<1>11. n \in 0..1
  BY <1>3
<1>12. QED
  BY <1>1, <1>2, <1>3, <1>7, <1>8, <1>9, <1>10, <1>11 DEF Pushed, Stacks

LEMMA PopIs ==
  ASSUME Stacks, NEW t \in Thread, stack[t] # <<>>, stack' = [stack EXCEPT ![t] = Pop(t)]
  PROVE  Popped(t)
<1>1. PICK V : Framed(V)
  BY DEF Stacks
<1>2. OtherStacks(t) /\ stack' = [stack EXCEPT ![t] = stack'[t]]
      /\ stack'[t] = SubSeq(stack[t], 1, Len(stack[t]) - 1)
  BY <1>1 DEF OtherStacks, Framed, Pop
<1>3. PICK s \in Seq(Entry(V)) : s = stack[t]
  BY <1>1 DEF Framed
<1>4. Len(s) \in 1..2
  BY <1>3, StackLength
<1>5. stack'[t] \in Seq(Entry(V))
  BY <1>2, <1>3, <1>4
<1>6. Len(stack'[t]) = Len(s) - 1 /\ \A k \in 1..(Len(s) - 1) : stack'[t][k] = s[k]
  BY <1>2, <1>3, <1>4
<1>7. Framed(V)'
  BY <1>1, <1>2, <1>5 DEF Framed
<1>8. Shallow'
  BY <1>1, <1>2, <1>4, <1>6 DEF Framed, Shallow, Stacks
<1>9. QED
  BY <1>2, <1>3, <1>4, <1>6, <1>7, <1>8 DEF Popped, Stacks

LEMMA EditIs ==
  ASSUME NEW V, Framed(V), Shallow, NEW t \in Thread, NEW f \in Entry(V), stack[t] # <<>>, SetTop(t, f)
  PROVE  Edited(t, f)
<1>1. OtherStacks(t) /\ stack' = [stack EXCEPT ![t] = stack'[t]]
      /\ stack'[t] = Append(SubSeq(stack[t], 1, Len(stack[t]) - 1), f)
  BY DEF OtherStacks, Framed, Pop, SetTop
<1>2. PICK s \in Seq(Entry(V)) : s = stack[t]
  BY DEF Framed
<1>3. Len(s) \in 1..2
  BY <1>2, StackLength DEF Stacks
<1>4. PICK r : r = SubSeq(s, 1, Len(s) - 1)
  OBVIOUS
<1>5. r \in Seq(Entry(V))
  BY <1>2, <1>3, <1>4
<1>6. Len(r) = Len(s) - 1 /\ \A k \in 1..(Len(s) - 1) : r[k] = s[k]
  BY <1>2, <1>3, <1>4
<1>7. /\ stack'[t] \in Seq(Entry(V)) /\ Len(stack'[t]) = Len(s)
      /\ stack'[t][Len(s)] = f /\ \A k \in 1..(Len(s) - 1) : stack'[t][k] = s[k]
  BY <1>1, <1>2, <1>3, <1>4, <1>5, <1>6
<1>8. Framed(V)'
  BY <1>1, <1>7 DEF Framed
<1>9. Shallow'
  BY <1>1, <1>3, <1>7 DEF Framed, Shallow
<1>10. QED
  BY <1>1, <1>2, <1>3, <1>7, <1>8, <1>9 DEF Edited, Stacks

-----------------------------------------------------------------------------
(***************************************************************************)
(* The inductive invariant.                                                *)
(***************************************************************************)

Setting == {"set", "setArray", "setHash"}
\* The call has the interpreter of its resource locked.
Holding(f) == f.at = "run" /\ f.c.op \notin {"clear", "delete"}
Of(f) == PerlOf[f.c.r]

\* A call that waits for an interpreter or runs in it is one of a Perl resource.
Proper(f) ==
  /\ f.at # "answer" => /\ f.c.r \in Perl /\ f.c.a \in Attr
                        /\ f.c.op \in Setting => f.c.i \in Index(f.c.a)
  /\ f.at = "wait" => f.c.op \notin {"clear", "delete"}

Owns(t, f) == Holding(f) => lock[Of(f)].owner = t /\ f.old \in Interp \cup {Home[t]}
CallsOK(t) == \A k \in 1..Len(stack[t]) : Proper(stack[t][k]) /\ Owns(t, stack[t][k])

\* The context t had when its k-th call began, and has after n calls.
Under(t, k) == IF k = 2 /\ Holding(stack[t][1]) THEN Of(stack[t][1]) ELSE Home[t]
After(t, n) == IF n \in 1..2 /\ Holding(stack[t][n]) THEN Of(stack[t][n]) ELSE Under(t, n)
Chained(t) ==
  /\ \A k \in 1..Len(stack[t]) : Holding(stack[t][k]) => stack[t][k].old = Under(t, k)
  /\ ctx[t] = After(t, Len(stack[t]))

\* The calls of t that hold interpreter p, and how deep they have it locked.
Holders(t, p) ==
  {k \in 1..Len(stack[t]) : stack[t][k].at = "run" /\ stack[t][k].c.op \notin {"clear", "delete"}
                            /\ PerlOf[stack[t][k].c.r] = p}
Depths ==
  \A p \in Interp :
    /\ lock[p].owner = NoOne => lock[p].depth = 0 /\ leaked[p] = 0
    /\ \A u \in Thread : lock[p].owner = u =>
         lock[p].depth # 0 /\ lock[p].depth = leaked[p] + Cardinality(Holders(u, p))
Contexts == (\A p \in Interp : leaked[p] = 0) => \A t \in Thread : Chained(t)

Types ==
  /\ table \in Tables
  /\ lock \in [Interp -> [owner : Thread \cup {NoOne}, depth : Nat]]
  /\ ctx = [t \in Thread |-> ctx[t]] /\ \A t \in Thread : ctx[t] \in Interp \cup {Home[t]}
  /\ leaked \in [Interp -> 0..MaxLeaks]
  /\ crashed \in BOOLEAN
Stored ==
  /\ store = [r \in Res |-> [a \in Attr |-> store[r][a]]]
  /\ \A r \in Res, a \in Attr : DOMAIN store[r][a] \subseteq Index(a)
  /\ \A r \in Compiled, a \in Attr : \A i \in DOMAIN store[r][a] :
       store[r][a][i] \in Values(Kind[a])

GuardInv ==
  /\ Types /\ Stored /\ Stacks /\ (\A t \in Thread : CallsOK(t)) /\ Depths /\ Contexts

LEMMA GuardMeans == GuardInv => InterpreterGuarded
<1> SUFFICES ASSUME GuardInv PROVE InterpreterGuarded
  OBVIOUS
<1>1. TypeOK
  BY DEF GuardInv, Types, Stored, TypeOK
<1>2. OneThreadInPerl
  <2>1. SUFFICES ASSUME NEW t \in Thread, NEW u \in Thread, NEW p \in Interp, t # u,
                        Inside(t, p), Inside(u, p), ~Sneaked(t), ~Sneaked(u)
                 PROVE  FALSE
    BY DEF OneThreadInPerl
  <2>2. ASSUME NEW x \in Thread, Inside(x, p), ~Sneaked(x)
        PROVE  lock[p].owner = x
    <3>1. PICK k \in 1..Len(stack[x]) : stack[x][k].at = "run" /\ PerlOf[stack[x][k].c.r] = p
      BY <2>2 DEF Inside
    <3>2. stack[x][k].c.op \notin {"clear", "delete"}
      BY <2>2, <3>1 DEF Sneaked
    <3>3. Owns(x, stack[x][k])
      BY <3>1 DEF GuardInv, CallsOK
    <3>4. QED
      BY <3>1, <3>2, <3>3 DEF Owns, Holding, Of
  <2>3. QED
    BY <2>1, <2>2
<1>3. ContextRestored
  <2>1. SUFFICES ASSUME \A p \in Interp : leaked[p] = 0, NEW t \in Thread, stack[t] = <<>>
                 PROVE  ctx[t] = Home[t]
    BY DEF ContextRestored
  <2>2. ctx[t] = After(t, Len(stack[t]))
    BY <2>1 DEF GuardInv, Contexts, Chained
  <2>3. Len(stack[t]) = 0
    BY <2>1
  <2>4. QED
    BY <2>2, <2>3 DEF After, Under
<1>4. LockDepthExact
  <2>1. SUFFICES ASSUME NEW p \in Interp
                 PROVE  /\ lock[p].depth = leaked[p] + IF lock[p].owner = NoOne THEN 0
                                                       ELSE LockedFrames(lock[p].owner, p)
                        /\ lock[p].owner = NoOne <=> lock[p].depth = 0
    BY DEF LockDepthExact
  <2>2. PICK u \in Thread \cup {NoOne} : u = lock[p].owner
    BY DEF GuardInv, Types
  <2>3. CASE u = NoOne
    <3>1. lock[p].owner = NoOne /\ lock[p].depth = 0 /\ leaked[p] = 0
      BY <2>2, <2>3 DEF GuardInv, Depths
    <3>2. QED
      BY <3>1
  <2>4. CASE u # NoOne
    <3>1. u \in Thread /\ LockedFrames(u, p) = Cardinality(Holders(u, p))
      BY <2>4 DEF LockedFrames, Holders
    <3>2. lock[p].depth # 0 /\ lock[p].depth = leaked[p] + Cardinality(Holders(u, p))
      BY <2>2, <3>1 DEF GuardInv, Depths
    <3>3. lock[p].owner # NoOne
      BY <2>2, <2>4
    <3>4. LockedFrames(lock[p].owner, p) = Cardinality(Holders(u, p))
      BY <2>2, <3>1
    <3>5. QED
      BY <3>2, <3>3, <3>4
  <2>5. QED
    BY <2>3, <2>4
<1>5. QED
  BY <1>1, <1>2, <1>3, <1>4 DEF InterpreterGuarded

-----------------------------------------------------------------------------
(***************************************************************************)
(* What a step may do to the stack of a thread, and what becomes of the    *)
(* calls that hold an interpreter.                                         *)
(***************************************************************************)

\* The innermost call of t ends, or has only its answer left.
Leaves(t) ==
  /\ Stacks' /\ OtherStacks(t)
  /\ Len(stack[t]) \in 1..2
  /\ \A k \in 1..(Len(stack[t]) - 1) : stack'[t][k] = stack[t][k]
  /\ \/ Len(stack'[t]) = Len(stack[t]) - 1
     \/ Len(stack'[t]) = Len(stack[t]) /\ stack'[t][Len(stack[t])].at = "answer"

LEMMA HoldersFinite ==
  ASSUME Stacks, NEW t \in Thread, NEW p
  PROVE  IsFiniteSet(Holders(t, p)) /\ Cardinality(Holders(t, p)) \in Nat
<1>1. Len(stack[t]) \in Nat
  BY StackLength
<1>2. IsFiniteSet(1..Len(stack[t]))
  BY <1>1, FS_Interval
<1>3. Holders(t, p) \subseteq 1..Len(stack[t])
  BY DEF Holders
<1>4. IsFiniteSet(Holders(t, p))
  BY <1>2, <1>3, FS_Subset
<1>5. QED
  BY <1>4, FS_CardinalityType

LEMMA HoldersOthers ==
  ASSUME NEW t \in Thread, OtherStacks(t), NEW u \in Thread \ {t}, NEW p
  PROVE  Holders(u, p)' = Holders(u, p)
<1>1. stack'[u] = stack[u]
  BY DEF OtherStacks
<1>2. QED
  BY <1>1 DEF Holders

LEMMA HoldersPush ==
  ASSUME NEW t \in Thread, NEW f, Pushed(t, f), ~Holding(f), NEW p
  PROVE  Holders(t, p)' = Holders(t, p)
<1>1. PICK n \in 0..1 : n = Len(stack[t]) /\ Len(stack'[t]) = n + 1
  BY DEF Pushed
<1>2. Holders(t, p)' = {k \in 1..(n + 1) : Holding(stack'[t][k]) /\ PerlOf[stack'[t][k].c.r] = p}
  BY <1>1 DEF Holders, Holding
<1>3. Holders(t, p) = {k \in 1..n : Holding(stack[t][k]) /\ PerlOf[stack[t][k].c.r] = p}
  BY <1>1 DEF Holders, Holding
<1>4. ~Holding(stack'[t][n + 1])
  BY <1>1 DEF Pushed
<1>5. \A k \in 1..n : Holding(stack'[t][k]) <=> Holding(stack[t][k])
  BY <1>1 DEF Pushed, Same, Holding
<1>6. \A k \in 1..n : stack'[t][k].c = stack[t][k].c
  BY <1>1 DEF Pushed, Same
<1>7. 1..(n + 1) = (1..n) \cup {n + 1}
  BY <1>1
<1>8. QED
  BY <1>2, <1>3, <1>4, <1>5, <1>6, <1>7

LEMMA Span ==
  ASSUME NEW n \in 1..2
  PROVE  /\ 1..n = (1..(n - 1)) \cup {n} /\ n \notin 1..(n - 1)
         /\ (\A k \in 1..(n - 1) : n = 2 /\ k = 1) /\ (n = 2 => 1 \in 1..(n - 1))
<1>1. \A k \in 1..n : k \in 1..(n - 1) \/ k = n
  OBVIOUS
<1>2. 1..(n - 1) \subseteq 1..n /\ n \in 1..n /\ n \notin 1..(n - 1)
  OBVIOUS
<1>3. (\A k \in 1..(n - 1) : n = 2 /\ k = 1) /\ (n = 2 => 1 \in 1..(n - 1))
  <2>1. n = 1 \/ n = 2
    OBVIOUS
  <2>2. CASE n = 1
    BY <2>2
  <2>3. CASE n = 2
    BY <2>3
  <2>4. QED
    BY <2>1, <2>2, <2>3
<1>4. QED
  BY <1>1, <1>2, <1>3

LEMMA HoldersLeave ==
  ASSUME NEW t \in Thread, Leaves(t), NEW p
  PROVE  Holders(t, p)' = Holders(t, p) \ {Len(stack[t])}
<1>1. PICK n \in 1..2 : n = Len(stack[t])
  BY DEF Leaves
<1>2. Holders(t, p) = {k \in 1..n : Holding(stack[t][k]) /\ PerlOf[stack[t][k].c.r] = p}
  BY <1>1 DEF Holders, Holding
<1>3. \A k \in 1..(n - 1) : stack'[t][k] = stack[t][k]
  BY <1>1 DEF Leaves
<1>4. 1..n = (1..(n - 1)) \cup {n} /\ n \notin 1..(n - 1)
  BY Span
<1>5. CASE Len(stack'[t]) = n - 1
  <2>1. Holders(t, p)' = {k \in 1..(n - 1) : Holding(stack'[t][k]) /\ PerlOf[stack'[t][k].c.r] = p}
    BY <1>5 DEF Holders, Holding
  <2>2. QED
    BY <1>1, <1>2, <1>3, <1>4, <2>1
<1>6. CASE Len(stack'[t]) = n /\ stack'[t][n].at = "answer"
  <2>1. Holders(t, p)' = {k \in 1..n : Holding(stack'[t][k]) /\ PerlOf[stack'[t][k].c.r] = p}
    BY <1>6 DEF Holders, Holding
  <2>2. ~Holding(stack'[t][n])
    BY <1>6 DEF Holding
  <2>3. QED
    BY <1>1, <1>2, <1>3, <1>4, <2>1, <2>2
<1>7. QED
  BY <1>1, <1>5, <1>6 DEF Leaves

LEMMA HoldersLock ==
  ASSUME NEW t \in Thread, NEW f, Edited(t, f), Holding(f), ~Holding(Top(t)), NEW p
  PROVE  /\ Len(stack[t]) \notin Holders(t, p)
         /\ Holders(t, p)' = IF p = Of(f) THEN Holders(t, p) \cup {Len(stack[t])} ELSE Holders(t, p)
<1>1. PICK n \in 1..2 : n = Len(stack[t]) /\ Len(stack'[t]) = n /\ stack'[t][n] = f
  BY DEF Edited
<1>2. Holders(t, p) = {k \in 1..n : Holding(stack[t][k]) /\ PerlOf[stack[t][k].c.r] = p}
  BY <1>1 DEF Holders, Holding
<1>3. \A k \in 1..(n - 1) : stack'[t][k] = stack[t][k]
  BY <1>1 DEF Edited
<1>4. 1..n = (1..(n - 1)) \cup {n} /\ n \notin 1..(n - 1)
  BY Span
<1>5. Holders(t, p)' = {k \in 1..n : Holding(stack'[t][k]) /\ PerlOf[stack'[t][k].c.r] = p}
  BY <1>1 DEF Holders, Holding
<1>6. ~Holding(stack[t][n])
  BY <1>1 DEF Top
<1>7. n \notin Holders(t, p)
  BY <1>2, <1>6
<1>8. n \in Holders(t, p)' <=> p = Of(f)
  BY <1>1, <1>4, <1>5 DEF Of
<1>9. \A k \in 1..(n - 1) : k \in Holders(t, p)' <=> k \in Holders(t, p)
  BY <1>2, <1>3, <1>4, <1>5
<1>10. Holders(t, p)' \subseteq 1..n /\ Holders(t, p) \subseteq 1..n
  BY <1>2, <1>5
<1>11. CASE p = Of(f)
  <2>1. Holders(t, p)' = Holders(t, p) \cup {n}
    BY <1>4, <1>8, <1>9, <1>10, <1>11
  <2>2. QED
    BY <1>1, <1>7, <1>11, <2>1
<1>12. CASE p # Of(f)
  <2>1. \A k \in 1..n : k \in Holders(t, p)' <=> k \in Holders(t, p)
    BY <1>4, <1>7, <1>8, <1>9, <1>12
  <2>2. Holders(t, p)' = Holders(t, p)
    BY <1>10, <2>1
  <2>3. QED
    BY <1>1, <1>7, <1>12, <2>2
<1>13. QED
  BY <1>11, <1>12

-----------------------------------------------------------------------------
(***************************************************************************)
(* The kinds of steps preserve calls, depths and contexts.                 *)
(***************************************************************************)

LockInv == Stacks /\ (\A t \in Thread : CallsOK(t)) /\ Depths /\ Contexts
PerlSteady == UNCHANGED <<lock, ctx, leaked>>

\* Another thread keeps its calls and their contexts.
LEMMA OthersKeep ==
  ASSUME LockInv, NEW t \in Thread, OtherStacks(t), NEW u \in Thread \ {t},
         \A p \in Interp : lock[p].owner = u => lock'[p].owner = u,
         PerlOf \in [Perl -> Interp]
  PROVE  CallsOK(u)' /\ (ctx'[u] = ctx[u] /\ Chained(u) => Chained(u)')
<1>1. stack'[u] = stack[u]
  BY DEF OtherStacks
<1>2. CallsOK(u)'
  <2>1. SUFFICES ASSUME NEW k \in 1..Len(stack[u])
                 PROVE  Proper(stack[u][k]) /\ Owns(u, stack[u][k])'
    BY <1>1 DEF CallsOK
  <2>2. Proper(stack[u][k]) /\ Owns(u, stack[u][k])
    BY DEF LockInv, CallsOK
  <2>3. Holding(stack[u][k]) => Of(stack[u][k]) \in Interp
    BY <2>2 DEF Proper, Holding, Of
  <2>4. QED
    BY <1>1, <2>2, <2>3 DEF Owns
<1>3. ctx'[u] = ctx[u] /\ Chained(u) => Chained(u)'
  BY <1>1 DEF Chained, After, Under
<1>4. QED
  BY <1>2, <1>3

LEMMA PushKeeps ==
  ASSUME LockInv, PerlOf \in [Perl -> Interp], NEW t \in Thread, NEW f, Pushed(t, f),
         Proper(f), ~Holding(f), PerlSteady
  PROVE  LockInv'
<1>1. Stacks' /\ OtherStacks(t)
  BY DEF Pushed
<1>2. PICK n \in 0..1 : n = Len(stack[t]) /\ Len(stack'[t]) = n + 1 /\ stack'[t][n + 1] = f
  BY DEF Pushed
<1>3. \A k \in 1..n : Same(stack'[t][k], stack[t][k])
  BY <1>2 DEF Pushed
<1>4. 1..(n + 1) = (1..n) \cup {n + 1}
  BY <1>2
<1>5. \A u \in Thread, p \in Interp : Holders(u, p)' = Holders(u, p)
  BY <1>1, HoldersOthers, HoldersPush
<1>6. Depths'
  BY <1>5 DEF LockInv, Depths, PerlSteady
<1>7. CallsOK(t)'
  <2>1. ASSUME NEW k \in 1..n PROVE (Proper(stack[t][k]) /\ Owns(t, stack[t][k]))'
    <3>1. Proper(stack[t][k]) /\ Owns(t, stack[t][k])
      BY <1>2 DEF LockInv, CallsOK
    <3>2. Same(stack'[t][k], stack[t][k])
      BY <1>3
    <3>3. QED
      BY <3>1, <3>2 DEF Proper, Owns, Same, PerlSteady, Holding, Of
  <2>2. (Proper(stack[t][n + 1]) /\ Owns(t, stack[t][n + 1]))'
    BY <1>2 DEF Owns
  <2>3. QED
    BY <1>2, <1>4, <2>1, <2>2 DEF CallsOK
<1>8. ASSUME Chained(t) PROVE Chained(t)'
  <2>1. CASE n = 0
    <3>1. ctx[t] = Home[t]
      BY <1>2, <1>8, <2>1 DEF Chained, After, Under
    <3>2. Len(stack'[t]) = 1 /\ ~Holding(stack'[t][1]) /\ \A k \in 1..1 : k = 1
      BY <1>2, <2>1
    <3>3. QED
      BY <3>1, <3>2 DEF Chained, After, Under, PerlSteady
  <2>2. CASE n = 1
    <3>1. Len(stack[t]) = 1 /\ Len(stack'[t]) = 2 /\ ~Holding(stack'[t][2]) /\ Same(stack'[t][1], stack[t][1])
      BY <1>2, <1>3, <2>2
    <3>2. (Holding(stack'[t][1]) <=> Holding(stack[t][1])) /\ Of(stack'[t][1]) = Of(stack[t][1])
          /\ stack'[t][1].old = stack[t][1].old
      BY <3>1 DEF Same, Holding, Of
    <3>3. (Holding(stack[t][1]) => stack[t][1].old = Home[t])
          /\ ctx[t] = IF Holding(stack[t][1]) THEN Of(stack[t][1]) ELSE Home[t]
      BY <1>8, <3>1 DEF Chained, After, Under
    <3>4. \A k \in 1..2 : k = 1 \/ k = 2
      OBVIOUS
    <3>5. QED
      BY <3>1, <3>2, <3>3, <3>4 DEF Chained, After, Under, PerlSteady
  <2>3. QED
    BY <2>1, <2>2
<1>9. \A u \in Thread \ {t} : CallsOK(u)' /\ (Chained(u) => Chained(u)')
  BY <1>1, OthersKeep DEF PerlSteady
<1>10. Contexts'
  BY <1>8, <1>9 DEF Contexts, LockInv, PerlSteady
<1>11. QED
  BY <1>1, <1>6, <1>7, <1>9, <1>10 DEF LockInv


\* Leaving a call: what remains of the calls of t.
LEMMA LeaveCalls ==
  ASSUME LockInv, NEW t \in Thread, Leaves(t), PerlOf \in [Perl -> Interp],
         \A k \in 1..(Len(stack[t]) - 1) : Holding(stack[t][k]) => lock'[Of(stack[t][k])].owner = t
  PROVE  CallsOK(t)'
<1>1. PICK n \in 1..2 : n = Len(stack[t])
  BY DEF Leaves
<1>2. \A k \in 1..(n - 1) : stack'[t][k] = stack[t][k]
  BY <1>1 DEF Leaves
<1>3. 1..n = (1..(n - 1)) \cup {n} /\ n \notin 1..(n - 1)
  BY Span
<1>4. ASSUME NEW k \in 1..(n - 1) PROVE (Proper(stack[t][k]) /\ Owns(t, stack[t][k]))'
  <2>1. Proper(stack[t][k]) /\ Owns(t, stack[t][k])
    BY <1>1, <1>3 DEF LockInv, CallsOK
  <2>2. Holding(stack[t][k]) => lock'[Of(stack[t][k])].owner = t
    BY <1>1
  <2>3. stack'[t][k] = stack[t][k]
    BY <1>2
  <2>4. QED
    BY <2>1, <2>2, <2>3 DEF Owns
<1>5. CASE Len(stack'[t]) = n - 1
  BY <1>4, <1>5 DEF CallsOK
<1>6. CASE Len(stack'[t]) = n /\ stack'[t][n].at = "answer"
  <2>1. (Proper(stack[t][n]) /\ Owns(t, stack[t][n]))'
    BY <1>6 DEF Proper, Owns, Holding
  <2>2. QED
    BY <1>3, <1>4, <1>6, <2>1 DEF CallsOK
<1>7. QED
  BY <1>1, <1>5, <1>6 DEF Leaves

\* ... and the contexts, when t is back in the one below the call it leaves.
LEMMA LeaveChain ==
  ASSUME NEW t \in Thread, Leaves(t), Chained(t), ctx'[t] = Under(t, Len(stack[t]))
  PROVE  Chained(t)'
<1>1. PICK n \in 1..2 : n = Len(stack[t])
  BY DEF Leaves
<1>2. \A k \in 1..(n - 1) : stack'[t][k] = stack[t][k]
  BY <1>1 DEF Leaves
<1>3. CASE n = 1
  <2>1. ctx'[t] = Home[t]
    BY <1>1, <1>3 DEF Under
  <2>2. CASE Len(stack'[t]) = 0
    <3>1. 1..Len(stack'[t]) = {}
      BY <2>2
    <3>2. QED
      BY <2>1, <2>2, <3>1 DEF Chained, After, Under
  <2>3. CASE Len(stack'[t]) = 1 /\ stack'[t][1].at = "answer"
    <3>1. ~Holding(stack'[t][1]) /\ \A k \in 1..1 : k = 1
      BY <2>3 DEF Holding
    <3>2. QED
      BY <2>1, <2>3, <3>1 DEF Chained, After, Under
  <2>4. QED
    BY <1>1, <1>3, <2>2, <2>3 DEF Leaves
<1>4. CASE n = 2
  <2>1. stack'[t][1] = stack[t][1]
    BY <1>2, <1>4
  <2>2. Holding(stack[t][1]) => stack[t][1].old = Home[t]
    <3>1. 1 \in 1..Len(stack[t])
      BY <1>1, <1>4
    <3>2. QED
      BY <3>1 DEF Chained, Under
  <2>3. ctx'[t] = IF Holding(stack[t][1]) THEN Of(stack[t][1]) ELSE Home[t]
    BY <1>1, <1>4 DEF Under
  <2>4. CASE Len(stack'[t]) = 1
    <3>1. \A k \in 1..1 : k = 1
      OBVIOUS
    <3>2. QED
      BY <2>1, <2>2, <2>3, <2>4, <3>1 DEF Chained, After, Under
  <2>5. CASE Len(stack'[t]) = 2 /\ stack'[t][2].at = "answer"
    <3>1. ~Holding(stack'[t][2]) /\ \A k \in 1..2 : k = 1 \/ k = 2
      BY <2>5 DEF Holding
    <3>2. QED
      BY <2>1, <2>2, <2>3, <2>5, <3>1 DEF Chained, After, Under
  <2>6. QED
    BY <1>1, <1>4, <2>4, <2>5 DEF Leaves
<1>5. QED
  BY <1>3, <1>4

\* A call that holds nothing is left: Clear, DeleteItem, or the return.
LEMMA LeaveKeeps ==
  ASSUME LockInv, PerlOf \in [Perl -> Interp], NEW t \in Thread, Leaves(t), ~Holding(Top(t)), PerlSteady
  PROVE  LockInv'
<1>1. Stacks' /\ OtherStacks(t)
  BY DEF Leaves
<1>2. Top(t) = stack[t][Len(stack[t])]
  BY DEF Top
<1>3. \A p \in Interp : Len(stack[t]) \notin Holders(t, p)
  BY <1>2 DEF Holders, Holding
<1>4. \A u \in Thread, p \in Interp : Holders(u, p)' = Holders(u, p)
  <2>1. \A u \in Thread \ {t}, p \in Interp : Holders(u, p)' = Holders(u, p)
    BY <1>1, HoldersOthers
  <2>2. \A p \in Interp : Holders(t, p)' = Holders(t, p) \ {Len(stack[t])}
    BY HoldersLeave
  <2>3. \A p \in Interp : Holders(t, p)' = Holders(t, p)
    BY <1>3, <2>2
  <2>4. QED
    BY <2>1, <2>3
<1>5. Depths'
  BY <1>4 DEF LockInv, Depths, PerlSteady
<1>6. CallsOK(t)'
  <2>1. ASSUME NEW k \in 1..(Len(stack[t]) - 1), Holding(stack[t][k])
        PROVE  lock'[Of(stack[t][k])].owner = t
    <3>1. PICK n \in 1..2 : n = Len(stack[t])
      BY DEF Leaves
    <3>2. k \in 1..Len(stack[t])
      BY <2>1, <3>1, Span
    <3>3. Owns(t, stack[t][k])
      BY <3>2 DEF LockInv, CallsOK
    <3>4. QED
      BY <2>1, <3>3 DEF Owns, PerlSteady
  <2>2. QED
    BY <2>1, LeaveCalls
<1>7. Chained(t) => Chained(t)'
  <2>1. Chained(t) => ctx'[t] = Under(t, Len(stack[t]))
    BY <1>2 DEF Chained, After, PerlSteady
  <2>2. QED
    BY <2>1, LeaveChain
<1>8. \A u \in Thread \ {t} : CallsOK(u)' /\ (Chained(u) => Chained(u)')
  BY <1>1, OthersKeep DEF PerlSteady
<1>9. Contexts'
  BY <1>7, <1>8 DEF Contexts, LockInv, PerlSteady
<1>10. QED
  BY <1>1, <1>5, <1>6, <1>8, <1>9 DEF LockInv


Locked == lock \in [Interp -> [owner : Thread \cup {NoOne}, depth : Nat]]

\* perl->Lock() at the start of an accessor.
LEMMA LockKeeps ==
  ASSUME LockInv, Locked, leaked \in [Interp -> Nat], NoOne \notin Thread, PerlOf \in [Perl -> Interp],
         NEW t \in Thread, NEW f, Edited(t, f), Holding(f), Proper(f), ~Holding(Top(t)),
         NEW p \in Interp, p = Of(f), lock[p].owner \in {NoOne, t},
         f.old = ctx[t], ctx[t] \in Interp \cup {Home[t]},
         lock' = [lock EXCEPT ![p] = [owner |-> t, depth |-> @.depth + 1]],
         ctx' = [ctx EXCEPT ![t] = p], t \in DOMAIN ctx, UNCHANGED leaked
  PROVE  LockInv'
<1>1. Stacks' /\ OtherStacks(t)
  BY DEF Edited
<1>2. PICK n \in 1..2 : n = Len(stack[t]) /\ Len(stack'[t]) = n /\ stack'[t][n] = f
  BY DEF Edited
<1>3. \A k \in 1..(n - 1) : stack'[t][k] = stack[t][k]
  BY <1>2 DEF Edited
<1>4. 1..n = (1..(n - 1)) \cup {n} /\ n \notin 1..(n - 1)
  BY Span
<1>5. /\ lock'[p].owner = t /\ lock'[p].depth = lock[p].depth + 1
      /\ \A q \in Interp : q # p => lock'[q] = lock[q]
  BY DEF Locked
<1>6. \A u \in Thread \ {t}, q \in Interp : Holders(u, q)' = Holders(u, q)
  BY <1>1, HoldersOthers
<1>7. \A q \in Interp : q # p => Holders(t, q)' = Holders(t, q)
  BY HoldersLock
<1>8. n \notin Holders(t, p) /\ Holders(t, p)' = Holders(t, p) \cup {n}
  BY <1>2, HoldersLock
<1>9. Cardinality(Holders(t, p)') = Cardinality(Holders(t, p)) + 1 /\ Cardinality(Holders(t, p)) \in Nat
  BY <1>8, HoldersFinite, FS_AddElement DEF LockInv
<1>10. lock[p].owner = NoOne => Holders(t, p) = {}
  <2>1. ASSUME NEW k \in Holders(t, p) PROVE lock[p].owner = t
    <3>1. k \in 1..Len(stack[t]) /\ Holding(stack[t][k]) /\ Of(stack[t][k]) = p
      BY <2>1 DEF Holders, Holding, Of
    <3>2. Owns(t, stack[t][k])
      BY <3>1 DEF LockInv, CallsOK
    <3>3. QED
      BY <3>1, <3>2 DEF Owns
  <2>2. QED
    BY <2>1
<1>11. lock[p].depth = leaked[p] + Cardinality(Holders(t, p)) /\ leaked[p] \in Nat
  <2>1. CASE lock[p].owner = t
    BY <2>1 DEF LockInv, Depths
  <2>2. CASE lock[p].owner = NoOne
    <3>1. lock[p].depth = 0 /\ leaked[p] = 0
      BY <2>2 DEF LockInv, Depths
    <3>2. Cardinality(Holders(t, p)) = 0
      BY <1>10, <2>2, FS_EmptySet
    <3>3. QED
      BY <3>1, <3>2
  <2>3. QED
    BY <2>1, <2>2
<1>12. lock'[p].depth = leaked[p] + Cardinality(Holders(t, p)') /\ lock'[p].depth # 0
  BY <1>5, <1>9, <1>11
<1>13. Depths'
  <2>1. ASSUME NEW q \in Interp, NEW u \in Thread, lock'[q].owner = u
        PROVE  lock'[q].depth # 0 /\ lock'[q].depth = leaked'[q] + Cardinality(Holders(u, q)')
    <3>1. CASE q = p
      BY <1>5, <1>12, <2>1, <3>1
    <3>2. CASE q # p
      <4>1. Holders(u, q)' = Holders(u, q) /\ lock'[q] = lock[q]
        BY <1>5, <1>6, <1>7, <3>2
      <4>2. lock[q].depth # 0 /\ lock[q].depth = leaked[q] + Cardinality(Holders(u, q))
        BY <2>1, <4>1 DEF LockInv, Depths
      <4>3. QED
        BY <4>1, <4>2
    <3>3. QED
      BY <3>1, <3>2
  <2>2. ASSUME NEW q \in Interp, lock'[q].owner = NoOne
        PROVE  lock'[q].depth = 0 /\ leaked'[q] = 0
    <3>1. lock'[q] = lock[q]
      BY <1>5, <2>2
    <3>2. QED
      BY <2>2, <3>1 DEF LockInv, Depths
  <2>3. QED
    BY <2>1, <2>2 DEF Depths
<1>14. CallsOK(t)'
  <2>1. ASSUME NEW k \in 1..(n - 1) PROVE (Proper(stack[t][k]) /\ Owns(t, stack[t][k]))'
    <3>1. Proper(stack[t][k]) /\ Owns(t, stack[t][k])
      BY <1>2, <1>4 DEF LockInv, CallsOK
    <3>2. Holding(stack[t][k]) => Of(stack[t][k]) \in Interp
      BY <3>1 DEF Proper, Holding, Of
    <3>3. stack'[t][k] = stack[t][k]
      BY <1>3
    <3>4. QED
      BY <1>5, <3>1, <3>2, <3>3 DEF Owns
  <2>2. (Proper(stack[t][n]) /\ Owns(t, stack[t][n]))'
    BY <1>2, <1>5 DEF Owns
  <2>3. QED
    BY <1>2, <1>4, <2>1, <2>2 DEF CallsOK
<1>15. Chained(t) => Chained(t)'
  <2>1. SUFFICES ASSUME Chained(t) PROVE Chained(t)'
    OBVIOUS
  <2>2. Top(t) = stack[t][n] /\ ~Holding(stack[t][n])
    BY <1>2 DEF Top
  <2>3. ctx[t] = Under(t, n)
    BY <1>2, <2>1, <2>2 DEF Chained, After
  <2>4. ctx'[t] = Of(f)
    OBVIOUS
  <2>5. Under(t, n)' = Under(t, n)
    <3>1. CASE n = 2
      <4>1. stack'[t][1] = stack[t][1]
        BY <1>3, <3>1, Span
      <4>2. QED
        BY <4>1 DEF Under
    <3>2. CASE n # 2
      BY <3>2 DEF Under
    <3>3. QED
      BY <3>1, <3>2
  <2>6. \A k \in 1..n : Holding(stack'[t][k]) => stack'[t][k].old = Under(t, k)'
    <3>1. ASSUME NEW k \in 1..(n - 1), Holding(stack'[t][k]) PROVE stack'[t][k].old = Under(t, k)'
      <4>1. n = 2 /\ k = 1
        BY <3>1, Span
      <4>2. stack'[t][k] = stack[t][k] /\ k \in 1..Len(stack[t])
        BY <1>2, <1>3, <1>4, <3>1
      <4>3. stack[t][k].old = Under(t, k)
        BY <2>1, <3>1, <4>2 DEF Chained
      <4>4. Under(t, k) = Home[t] /\ Under(t, k)' = Home[t]
        BY <4>1 DEF Under
      <4>5. QED
        BY <4>2, <4>3, <4>4
    <3>2. stack'[t][n].old = Under(t, n)'
      BY <1>2, <2>3, <2>5
    <3>3. QED
      BY <1>4, <3>1, <3>2
  <2>7. ctx'[t] = After(t, n)'
    BY <1>2, <2>4 DEF After
  <2>8. Len(stack[t])' = n
    BY <1>2
  <2>9. QED
    BY <2>6, <2>7, <2>8 DEF Chained
<1>16. \A u \in Thread \ {t} : CallsOK(u)' /\ (Chained(u) => Chained(u)')
  <2>1. SUFFICES ASSUME NEW u \in Thread \ {t} PROVE CallsOK(u)' /\ (Chained(u) => Chained(u)')
    OBVIOUS
  <2>2. \A q \in Interp : lock[q].owner = u => lock'[q].owner = u
    BY <1>5
  <2>3. ctx'[u] = ctx[u]
    OBVIOUS
  <2>4. QED
    BY <1>1, <2>2, <2>3, OthersKeep
<1>17. Contexts'
  BY <1>15, <1>16 DEF Contexts, LockInv
<1>18. QED
  BY <1>1, <1>13, <1>14, <1>16, <1>17 DEF LockInv


\* An accessor is left that holds its interpreter: n is its place, p the
\* interpreter, and n is one of the calls that hold p.
LEMMA LeaveHolder ==
  ASSUME LockInv, Locked, leaked \in [Interp -> Nat], PerlOf \in [Perl -> Interp],
         NEW t \in Thread, Leaves(t), Holding(Top(t)), NEW p, p = Of(Top(t))
  PROVE  /\ p \in Interp /\ lock[p].owner = t
         /\ \A q \in Interp : q # p => Holders(t, q)' = Holders(t, q)
         /\ Holders(t, p)' = Holders(t, p) \ {Len(stack[t])}
         /\ IsFiniteSet(Holders(t, p)') /\ Cardinality(Holders(t, p)') \in Nat
         /\ lock[p].depth = leaked[p] + Cardinality(Holders(t, p)') + 1
         /\ leaked[p] \in Nat
<1>1. PICK n \in 1..2 : n = Len(stack[t])
  BY DEF Leaves
<1>2. Top(t) = stack[t][n] /\ n \in 1..Len(stack[t])
  <2>1. n \in 1..n
    BY Span
  <2>2. QED
    BY <1>1, <2>1 DEF Top
<1>3. Proper(stack[t][n]) /\ Owns(t, stack[t][n])
  BY <1>2 DEF LockInv, CallsOK
<1>4. p \in Interp /\ lock[p].owner = t
  BY <1>2, <1>3 DEF Proper, Owns, Holding, Of
<1>5. \A q \in Interp : n \in Holders(t, q) <=> q = p
  BY <1>2 DEF Holders, Holding, Of
<1>6. \A q \in Interp : Holders(t, q)' = Holders(t, q) \ {n}
  BY <1>1, HoldersLeave
<1>7. \A q \in Interp : q # p => Holders(t, q)' = Holders(t, q)
  BY <1>5, <1>6
<1>8. n \in Holders(t, p) /\ Holders(t, p)' = Holders(t, p) \ {n}
  BY <1>4, <1>5, <1>6
<1>9. IsFiniteSet(Holders(t, p)) /\ Cardinality(Holders(t, p)) \in Nat
  BY HoldersFinite DEF LockInv
<1>10. IsFiniteSet(Holders(t, p)') /\ Cardinality(Holders(t, p)') = Cardinality(Holders(t, p)) - 1
  BY <1>8, <1>9, FS_RemoveElement
<1>11. Cardinality(Holders(t, p)') \in Nat
  BY <1>10, FS_CardinalityType
<1>12. lock[p].depth = leaked[p] + Cardinality(Holders(t, p)) /\ leaked[p] \in Nat
  BY <1>4 DEF LockInv, Depths
<1>13. lock[p].depth = leaked[p] + Cardinality(Holders(t, p)') + 1
  BY <1>9, <1>10, <1>11, <1>12
<1>14. QED
  BY <1>1, <1>4, <1>7, <1>8, <1>10, <1>11, <1>12, <1>13

\* SetContext(old) and perl->Unlock() at the end of an accessor.
LEMMA UnlockKeeps ==
  ASSUME LockInv, Locked, leaked \in [Interp -> Nat], NoOne \notin Thread, PerlOf \in [Perl -> Interp],
         NEW t \in Thread, Leaves(t), Holding(Top(t)), NEW p, p = Of(Top(t)),
         NEW d, d = lock[p].depth - 1,
         lock' = [lock EXCEPT ![p] = [owner |-> IF d = 0 THEN NoOne ELSE t, depth |-> d]],
         ctx' = [ctx EXCEPT ![t] = Top(t).old], t \in DOMAIN ctx, UNCHANGED leaked
  PROVE  LockInv' /\ Locked' /\ ctx'[t] \in Interp \cup {Home[t]}
<1>1. Stacks' /\ OtherStacks(t)
  BY DEF Leaves
<1>2. PICK n \in 1..2 : n = Len(stack[t])
  BY DEF Leaves
<1>3. PICK c : c = Cardinality(Holders(t, p)')
  OBVIOUS
<1>4. /\ p \in Interp /\ lock[p].owner = t
      /\ \A q \in Interp : q # p => Holders(t, q)' = Holders(t, q)
      /\ Holders(t, p)' = Holders(t, p) \ {n}
      /\ IsFiniteSet(Holders(t, p)') /\ c \in Nat
      /\ lock[p].depth = leaked[p] + c + 1 /\ leaked[p] \in Nat
  <2>1. /\ p \in Interp /\ lock[p].owner = t
        /\ \A q \in Interp : q # p => Holders(t, q)' = Holders(t, q)
        /\ Holders(t, p)' = Holders(t, p) \ {Len(stack[t])}
        /\ IsFiniteSet(Holders(t, p)') /\ Cardinality(Holders(t, p)') \in Nat
        /\ lock[p].depth = leaked[p] + Cardinality(Holders(t, p)') + 1
        /\ leaked[p] \in Nat
    BY LeaveHolder
  <2>2. QED
    BY <1>2, <1>3, <2>1
<1>5. d \in Nat /\ d = leaked[p] + c
  BY <1>4
<1>6. /\ lock'[p].owner = (IF d = 0 THEN NoOne ELSE t) /\ lock'[p].depth = d
      /\ \A q \in Interp : q # p => lock'[q] = lock[q]
  BY <1>4 DEF Locked
<1>7. Locked'
  BY <1>4, <1>5 DEF Locked
<1>8. \A u \in Thread \ {t}, q \in Interp : Holders(u, q)' = Holders(u, q)
  BY <1>1, HoldersOthers
<1>9. Depths'
  <2>1. ASSUME NEW q \in Interp, NEW u \in Thread, lock'[q].owner = u
        PROVE  lock'[q].depth # 0 /\ lock'[q].depth = leaked'[q] + Cardinality(Holders(u, q)')
    <3>1. CASE q = p
      <4>1. d # 0 /\ u = t
        BY <1>6, <2>1, <3>1
      <4>2. QED
        BY <1>3, <1>5, <1>6, <3>1, <4>1
    <3>2. CASE q # p
      <4>1. Holders(u, q)' = Holders(u, q) /\ lock'[q] = lock[q]
        BY <1>4, <1>6, <1>8, <3>2
      <4>2. lock[q].depth # 0 /\ lock[q].depth = leaked[q] + Cardinality(Holders(u, q))
        BY <2>1, <4>1 DEF LockInv, Depths
      <4>3. QED
        BY <4>1, <4>2
    <3>3. QED
      BY <3>1, <3>2
  <2>2. ASSUME NEW q \in Interp, lock'[q].owner = NoOne
        PROVE  lock'[q].depth = 0 /\ leaked'[q] = 0
    <3>1. CASE q = p
      <4>1. d = 0
        BY <1>6, <2>2, <3>1
      <4>2. leaked[p] = 0
        BY <1>4, <1>5, <4>1
      <4>3. QED
        BY <1>6, <3>1, <4>1, <4>2
    <3>2. CASE q # p
      <4>1. lock'[q] = lock[q]
        BY <1>6, <3>2
      <4>2. QED
        BY <2>2, <4>1 DEF LockInv, Depths
    <3>3. QED
      BY <3>1, <3>2
  <2>3. QED
    BY <2>1, <2>2 DEF Depths
<1>10. \A k \in 1..(n - 1) : k \in 1..n /\ k # n
  BY Span
<1>11. CallsOK(t)'
  <2>1. ASSUME NEW k \in 1..(Len(stack[t]) - 1), Holding(stack[t][k])
        PROVE  lock'[Of(stack[t][k])].owner = t
    <3>1. k \in 1..Len(stack[t]) /\ k # n
      BY <1>2, <1>10
    <3>2. Owns(t, stack[t][k]) /\ Proper(stack[t][k])
      BY <3>1 DEF LockInv, CallsOK
    <3>3. Of(stack[t][k]) \in Interp /\ lock[Of(stack[t][k])].owner = t
      BY <2>1, <3>2 DEF Proper, Owns, Holding, Of
    <3>4. CASE Of(stack[t][k]) = p
      <4>1. k \in Holders(t, p)'
        BY <1>4, <2>1, <3>1, <3>4 DEF Holders, Holding, Of
      <4>2. c # 0
        BY <1>3, <1>4, <4>1, FS_EmptySet
      <4>3. d # 0
        BY <1>4, <1>5, <4>2
      <4>4. lock'[p].owner = t
        BY <1>6, <4>3, Zenon
      <4>5. QED
        BY <3>4, <4>4, Zenon
    <3>5. CASE Of(stack[t][k]) # p
      BY <1>6, <3>3, <3>5
    <3>6. QED
      BY <3>4, <3>5
  <2>2. QED
    BY <2>1, LeaveCalls
<1>12. Owns(t, Top(t)) /\ Top(t) = stack[t][n] /\ n \in 1..Len(stack[t])
  <2>1. n \in 1..n
    BY Span
  <2>2. Top(t) = stack[t][n] /\ n \in 1..Len(stack[t])
    BY <1>2, <2>1 DEF Top
  <2>3. QED
    BY <2>2 DEF LockInv, CallsOK
<1>13. ctx'[t] = Top(t).old /\ \A u \in Thread \ {t} : ctx'[u] = ctx[u]
  OBVIOUS
<1>14. Chained(t) => Chained(t)'
  <2>1. Chained(t) => ctx'[t] = Under(t, Len(stack[t]))
    BY <1>2, <1>12, <1>13 DEF Chained
  <2>2. QED
    BY <2>1, LeaveChain
<1>15. \A u \in Thread \ {t} : CallsOK(u)' /\ (Chained(u) => Chained(u)')
  <2>1. SUFFICES ASSUME NEW u \in Thread \ {t} PROVE CallsOK(u)' /\ (Chained(u) => Chained(u)')
    OBVIOUS
  <2>2. \A q \in Interp : lock[q].owner = u => lock'[q].owner = u
    BY <1>4, <1>6
  <2>3. QED
    BY <1>1, <1>13, <2>2, OthersKeep
<1>16. Contexts'
  BY <1>14, <1>15 DEF Contexts, LockInv
<1>17. ctx'[t] \in Interp \cup {Home[t]}
  BY <1>12, <1>13 DEF Owns
<1>18. QED
  BY <1>1, <1>7, <1>9, <1>11, <1>15, <1>16, <1>17 DEF LockInv

\* A setter of an IpAddr fails and leaves the interpreter locked.
LEMMA LeakKeeps ==
  ASSUME LockInv, Locked, leaked \in [Interp -> Nat], NoOne \notin Thread, PerlOf \in [Perl -> Interp],
         NEW t \in Thread, Leaves(t), Holding(Top(t)), NEW p, p = Of(Top(t)),
         leaked' = [leaked EXCEPT ![p] = @ + 1], UNCHANGED <<lock, ctx>>
  PROVE  LockInv'
<1>1. Stacks' /\ OtherStacks(t)
  BY DEF Leaves
<1>2. PICK n \in 1..2 : n = Len(stack[t])
  BY DEF Leaves
<1>3. PICK c : c = Cardinality(Holders(t, p)')
  OBVIOUS
<1>4. /\ p \in Interp /\ lock[p].owner = t
      /\ \A q \in Interp : q # p => Holders(t, q)' = Holders(t, q)
      /\ c \in Nat /\ lock[p].depth = leaked[p] + c + 1 /\ leaked[p] \in Nat
  BY <1>2, <1>3, LeaveHolder
<1>5. leaked'[p] = leaked[p] + 1 /\ \A q \in Interp : q # p => leaked'[q] = leaked[q]
  BY <1>4
<1>6. \A u \in Thread \ {t}, q \in Interp : Holders(u, q)' = Holders(u, q)
  BY <1>1, HoldersOthers
<1>7. Depths'
  <2>1. ASSUME NEW q \in Interp, NEW u \in Thread, lock[q].owner = u
        PROVE  lock[q].depth # 0 /\ lock[q].depth = leaked'[q] + Cardinality(Holders(u, q)')
    <3>1. CASE q = p
      <4>1. u = t /\ lock[p].depth # 0 /\ lock[p].depth = leaked'[p] + c
        BY <1>4, <1>5, <2>1, <3>1
      <4>2. QED
        BY <1>3, <3>1, <4>1
    <3>2. CASE q # p
      <4>1. Holders(u, q)' = Holders(u, q) /\ leaked'[q] = leaked[q]
        BY <1>4, <1>5, <1>6, <3>2
      <4>2. lock[q].depth # 0 /\ lock[q].depth = leaked[q] + Cardinality(Holders(u, q))
        BY <2>1 DEF LockInv, Depths
      <4>3. QED
        BY <4>1, <4>2
    <3>3. QED
      BY <3>1, <3>2
  <2>2. ASSUME NEW q \in Interp, lock[q].owner = NoOne
        PROVE  lock[q].depth = 0 /\ leaked'[q] = 0
    <3>1. q # p
      BY <1>4, <2>2
    <3>2. QED
      BY <1>5, <2>2, <3>1 DEF LockInv, Depths
  <2>3. QED
    BY <2>1, <2>2 DEF Depths
<1>8. CallsOK(t)'
  <2>1. ASSUME NEW k \in 1..(Len(stack[t]) - 1), Holding(stack[t][k])
        PROVE  lock'[Of(stack[t][k])].owner = t
    <3>1. k \in 1..Len(stack[t])
      BY <1>2, <2>1, Span
    <3>2. Owns(t, stack[t][k])
      BY <3>1 DEF LockInv, CallsOK
    <3>3. QED
      BY <2>1, <3>2 DEF Owns
  <2>2. QED
    BY <2>1, LeaveCalls
<1>9. \A u \in Thread \ {t} : CallsOK(u)'
  BY <1>1, OthersKeep
<1>10. Contexts'
  <2>1. leaked'[p] # 0
    BY <1>4, <1>5
  <2>2. QED
    BY <1>4, <2>1 DEF Contexts
<1>11. QED
  BY <1>1, <1>7, <1>8, <1>9, <1>10 DEF LockInv

-----------------------------------------------------------------------------
(***************************************************************************)
(* What the calls of Resource.h and the accessors do.                      *)
(***************************************************************************)

\* A request is one that a caller can make.
Fitting(c) ==
  /\ \E W : c \in Request(W)
  /\ c.a # NoAttr => /\ c.a \in Attr
                     /\ c.op \in Setting => c.i \in Index(c.a) /\ c.v \in Values(Kind[c.a])
                     /\ c.op = "get" => c.i = NoIndex

LEMMA RequestIs ==
  ASSUME NEW op \in Ops, NEW by \in {"ai", "name"}, NEW r \in Res, NEW a, NEW i, NEW v,
         NEW c, c = [op |-> op, by |-> by, r |-> r, a |-> a, i |-> i, v |-> v],
         a = NoAttr \/ (/\ a \in Attr
                        /\ op \in Setting => i \in Index(a) /\ v \in Values(Kind[a])
                        /\ op = "get" => i = NoIndex)
  PROVE  Fitting(c) /\ c.r = r
<1>1. c \in Request({i, v})
  BY DEF Request
<1>2. QED
  BY <1>1 DEF Fitting

LEMMA CallsFit ==
  ASSUME table \in Tables, NEW r \in Res, NEW c \in Calls(r)
  PROVE  Fitting(c) /\ c.r = r
<1> DEFINE call(op, by, a, i, v) == [op |-> op, by |-> by, r |-> r, a |-> a, i |-> i, v |-> v]
<1>1. table[r] \subseteq Attr
  BY AttributesAssumption
<1>2. ASSUME NEW a \in table[r], NEW by \in {"ai", "name"}, NEW i, i \in Index(a),
             c = call(GetOf[Shape[a]], by, a, i, 0)
      PROVE  Fitting(c) /\ c.r = r
  <2>1. GetOf[Shape[a]] \in Ops /\ GetOf[Shape[a]] \notin Setting
    BY <1>1, AttributesAssumption DEF GetOf, Shapes, Ops, Setting
  <2>2. GetOf[Shape[a]] = "get" => i = NoIndex
    BY <1>1, <1>2, AttributesAssumption DEF GetOf, Shapes, Index
  <2>3. QED
    BY <1>1, <1>2, <2>1, <2>2, RequestIs
<1>3. ASSUME NEW a \in table[r], NEW by \in {"ai", "name"}, NEW i, i \in Index(a), NEW v, v \in Values(Kind[a]),
             c = call(SetOf[Shape[a]], by, a, i, v)
      PROVE  Fitting(c) /\ c.r = r
  <2>1. SetOf[Shape[a]] \in Ops /\ SetOf[Shape[a]] # "get"
    BY <1>1, AttributesAssumption DEF SetOf, Shapes, Ops
  <2>2. QED
    BY <1>1, <1>3, <2>1, RequestIs
<1>4. ASSUME NEW a \in table[r], NEW by \in {"ai", "name"}, NEW i,
             NEW op \in {"clear", "count", "keys", "delete", "values"}, c = call(op, by, a, i, 0)
      PROVE  Fitting(c) /\ c.r = r
  <2>1. op \in Ops /\ op \notin Setting /\ op # "get"
    BY <1>4 DEF Ops, Setting
  <2>2. QED
    BY <1>1, <1>4, <2>1, RequestIs
<1>5. ASSUME NEW op \in Ops, c = call(op, "name", NoAttr, NoIndex, 0)
      PROVE  Fitting(c) /\ c.r = r
  BY <1>5, RequestIs
<1> HIDE DEF call
<1>6. \/ \E a \in table[r], by \in {"ai", "name"} :
           \/ \E i \in Index(a) : c = call(GetOf[Shape[a]], by, a, i, 0)
           \/ \E i \in Index(a), v \in Values(Kind[a]) : c = call(SetOf[Shape[a]], by, a, i, v)
           \/ \E op \in {"clear", "count", "keys", "delete", "values"} : \E i : c = call(op, by, a, i, 0)
      \/ \E op \in Ops : c = call(op, "name", NoAttr, NoIndex, 0)
  <2>1. CASE \E op \in Ops : c = call(op, "name", NoAttr, NoIndex, 0)
    BY <2>1
  <2>2. CASE ~\E op \in Ops : c = call(op, "name", NoAttr, NoIndex, 0)
    <3>1. PICK a \in table[r], by \in {"ai", "name"} :
            \/ c \in {call(GetOf[Shape[a]], by, a, i, 0) : i \in Index(a)}
            \/ c \in {call(SetOf[Shape[a]], by, a, i, v) : i \in Index(a), v \in Values(Kind[a])}
            \/ c \in {call(op, by, a, NoIndex, 0) : op \in {"clear", "count"}}
            \/ c \in IF Shape[a] = "hash"
                       THEN {call("keys", by, a, NoIndex, 0)} \cup {call("delete", by, a, i, 0) : i \in Key}
                       ELSE {}
            \/ c \in IF Shape[a] # "scalar" THEN {call("values", by, a, NoIndex, 0)} ELSE {}
      BY <2>2 DEF Calls, call
    <3>2. QED
      BY <3>1
  <2>3. QED
    BY <2>1, <2>2
<1>7. QED
  BY <1>2, <1>3, <1>4, <1>5, <1>6


LEMMA FrameIs ==
  ASSUME NEW W, NEW c \in Request(W), NEW at \in {"wait", "run", "answer"}, NEW res, NEW f, f = Frame(c, at, res)
  PROVE  /\ f \in Entry(W \cup {NoContext, res})
         /\ f.at = at /\ f.c.op = c.op /\ f.c.r = c.r /\ f.c.a = c.a /\ f.c.i = c.i
<1>1. PICK d : d = [c EXCEPT !.by = "ai"]
  OBVIOUS
<1>2. d \in Request(W \cup {NoContext, res})
  BY <1>1 DEF Request
<1>3. d.op = c.op /\ d.r = c.r /\ d.a = c.a /\ d.i = c.i
  BY <1>1 DEF Request
<1>4. f = [c |-> d, at |-> at, old |-> NoContext, res |-> res, nested |-> FALSE]
  BY <1>1 DEF Frame
<1>5. f \in Entry(W \cup {NoContext, res})
  BY <1>2, <1>4 DEF Entry
<1>6. f.at = at /\ f.c = d
  BY <1>4
<1>7. QED
  BY <1>3, <1>5, <1>6

LEMMA FramePushed ==
  ASSUME Stacks, NEW t \in Thread, Len(stack[t]) <= 1, NEW c, Fitting(c),
         NEW at \in {"wait", "run", "answer"}, NEW res, Push(t, Frame(c, at, res))
  PROVE  /\ Pushed(t, Frame(c, at, res))
         /\ Frame(c, at, res).at = at /\ Frame(c, at, res).c.op = c.op /\ Frame(c, at, res).c.r = c.r
         /\ Frame(c, at, res).c.a = c.a /\ Frame(c, at, res).c.i = c.i
<1>1. PICK V : Framed(V)
  BY DEF Stacks
<1>2. PICK W : c \in Request(W)
  BY DEF Fitting
<1>3. PICK f : f = Frame(c, at, res)
  OBVIOUS
<1>4. f \in Entry(W \cup {NoContext, res})
      /\ f.at = at /\ f.c.op = c.op /\ f.c.r = c.r /\ f.c.a = c.a /\ f.c.i = c.i
  BY <1>2, <1>3, FrameIs
<1>5. PICK U : U = V \cup W \cup {NoContext, res}
  OBVIOUS
<1>6. Framed(U)
  BY <1>1, <1>5, Widen
<1>7. f \in Entry(U)
  <2>1. Request(W \cup {NoContext, res}) \subseteq Request(U)
    BY <1>5 DEF Request
  <2>2. QED
    BY <1>4, <1>5, <2>1 DEF Entry
<1>8. Pushed(t, f)
  BY <1>3, <1>6, <1>7, PushIs DEF Stacks
<1>9. QED
  BY <1>3, <1>4, <1>8

LEMMA GuardParts ==
  ASSUME GuardInv
  PROVE  /\ LockInv /\ Locked /\ leaked \in [Interp -> Nat] /\ Stacks
         /\ \A t \in Thread : t \in DOMAIN ctx /\ ctx[t] \in Interp \cup {Home[t]}
         /\ NoOne \notin Thread /\ PerlOf \in [Perl -> Interp] /\ table \in Tables
<1>1. LockInv /\ Locked /\ Stacks
  BY DEF GuardInv, LockInv, Locked, Types
<1>2. leaked \in [Interp -> Nat]
  BY AttributesAssumption DEF GuardInv, Types
<1>3. \A t \in Thread : t \in DOMAIN ctx /\ ctx[t] \in Interp \cup {Home[t]}
  BY DEF GuardInv, Types
<1>4. QED
  BY <1>1, <1>2, <1>3, AttributesAssumption DEF GuardInv, Types

\* A call is answered at once, waits for its interpreter, or runs without it.
LEMMA FrameKeeps ==
  ASSUME GuardInv, NEW t \in Thread, Len(stack[t]) <= 1, NEW c, Fitting(c),
         NEW at \in {"wait", "run", "answer"}, NEW res, Push(t, Frame(c, at, res)),
         at # "answer" => c.r \in Perl /\ c.a # NoAttr,
         at = "run" => c.op \in {"clear", "delete"},
         at = "wait" => c.op \notin {"clear", "delete"},
         UNCHANGED <<store, perlVars, crashed>>
  PROVE  GuardInv'
<1>1. PICK f : f = Frame(c, at, res)
  OBVIOUS
<1>2. /\ Pushed(t, f)
      /\ f.at = at /\ f.c.op = c.op /\ f.c.r = c.r /\ f.c.a = c.a /\ f.c.i = c.i
  BY <1>1, GuardParts, FramePushed
<1>3. Proper(f)
  BY <1>2 DEF Proper, Fitting
<1>4. ~Holding(f)
  BY <1>2 DEF Holding
<1>5. PerlSteady
  BY DEF PerlSteady, perlVars
<1>6. LockInv'
  BY <1>2, <1>3, <1>4, <1>5, GuardParts, PushKeeps
<1>7. Types'
  BY DEF GuardInv, Types, perlVars
<1>8. Stored'
  BY DEF GuardInv, Stored
<1>9. QED
  BY <1>6, <1>7, <1>8 DEF GuardInv, LockInv

LEMMA BlankIsGuarded ==
  table \in Tables /\ crashed \in BOOLEAN /\ store = NoStore /\ lock = Free /\ ctx = Home /\ stack = Idle /\ leaked = NoLeaks
    => GuardInv
<1> SUFFICES ASSUME table \in Tables, crashed \in BOOLEAN, store = NoStore, lock = Free, ctx = Home,
                    stack = Idle, leaked = NoLeaks
             PROVE  GuardInv
  OBVIOUS
<1>1. Types
  <2>1. lock \in [Interp -> [owner : Thread \cup {NoOne}, depth : Nat]]
    <3>1. [owner |-> NoOne, depth |-> 0] \in [owner : Thread \cup {NoOne}, depth : Nat]
      OBVIOUS
    <3>2. QED
      BY <3>1 DEF Free
  <2>2. leaked \in [Interp -> 0..MaxLeaks]
    BY AttributesAssumption DEF NoLeaks
  <2>3. QED
    BY <2>1, <2>2, AttributesAssumption DEF Types
<1>2. Stored
  <2>1. \A r \in Res, a \in Attr : store[r][a] = Nothing
    BY DEF NoStore
  <2>2. DOMAIN Nothing = {}
    BY DEF Nothing
  <2>3. store = [r \in Res |-> [a \in Attr |-> store[r][a]]]
    BY DEF NoStore
  <2>4. \A r \in Res, a \in Attr : DOMAIN store[r][a] = {}
    BY <2>1, <2>2
  <2>5. QED
    BY <2>3, <2>4 DEF Stored, Res
<1>3. \A t \in Thread : stack[t] = <<>> /\ Len(stack[t]) = 0 /\ 1..Len(stack[t]) = {}
  BY DEF Idle
<1>4. Stacks
  <2>1. stack \in [Thread -> Seq(Entry({}))]
    BY DEF Idle
  <2>2. Shallow
    BY <1>3 DEF Shallow
  <2>3. QED
    BY <2>1, <2>2 DEF Stacks, Framed
<1>5. \A t \in Thread : CallsOK(t)
  BY <1>3, Zenon DEF CallsOK
<1>6. Depths
  BY AttributesAssumption DEF Depths, Free, NoLeaks
<1>7. Contexts
  <2>1. SUFFICES ASSUME NEW t \in Thread PROVE Chained(t)
    BY DEF Contexts
  <2>2. ctx[t] = After(t, Len(stack[t]))
    BY <1>3 DEF After, Under
  <2>3. QED
    BY <1>3, <2>2, Zenon DEF Chained
<1>8. QED
  BY <1>1, <1>2, <1>4, <1>5, <1>6, <1>7 DEF GuardInv

LEMMA CrashKeeps ==
  ASSUME GuardInv, Crash
  PROVE  GuardInv'
<1>1. /\ table' \in Tables /\ crashed' \in BOOLEAN /\ store' = NoStore /\ lock' = Free /\ ctx' = Home
      /\ stack' = Idle /\ leaked' = NoLeaks
  BY DEF GuardInv, Types, Crash
<1>2. (table \in Tables /\ crashed \in BOOLEAN /\ store = NoStore /\ lock = Free /\ ctx = Home /\ stack = Idle
       /\ leaked = NoLeaks => GuardInv)'
  BY BlankIsGuarded, PTL
<1>3. QED
  BY <1>1, <1>2


\* A setter, Clear or DeleteItem of a compiled resource, and of a Perl one.
Stores ==
  \/ UNCHANGED store
  \/ \E r \in Res, a \in Attr :
       /\ \/ \E i \in Index(a) : \E v :
               /\ r \in Compiled => v \in Values(Kind[a])
               /\ store' = [store EXCEPT ![r][a] = Put(@, i, v)]
          \/ \E I : store' = [store EXCEPT ![r][a] = Drop(@, I)]
          \/ store' = [store EXCEPT ![r][a] = Nothing]

LEMMA StoresKeep ==
  ASSUME Stored, Stores
  PROVE  Stored'
<1>1. CASE UNCHANGED store
  BY <1>1 DEF Stored
<1>2. ASSUME NEW r \in Res, NEW a \in Attr, NEW g, store' = [store EXCEPT ![r][a] = g],
             DOMAIN g \subseteq Index(a),
             r \in Compiled => \A i \in DOMAIN g : g[i] \in Values(Kind[a])
      PROVE  Stored'
  <2>1. store'[r][a] = g
    BY <1>2 DEF Stored
  <2>2. \A s \in Res, b \in Attr : s # r \/ b # a => store'[s][b] = store[s][b]
    BY <1>2 DEF Stored
  <2>3. store' = [s \in Res |-> [b \in Attr |-> store'[s][b]]]
    BY <1>2 DEF Stored
  <2>4. \A s \in Res, b \in Attr : DOMAIN store'[s][b] \subseteq Index(b)
    BY <1>2, <2>1, <2>2 DEF Stored
  <2>5. ASSUME NEW s \in Compiled, NEW b \in Attr, NEW i \in DOMAIN store'[s][b]
        PROVE  store'[s][b][i] \in Values(Kind[b])
    <3>1. CASE s = r /\ b = a
      BY <1>2, <2>1, <2>5, <3>1
    <3>2. CASE ~(s = r /\ b = a)
      <4>1. store'[s][b] = store[s][b]
        BY <2>2, <3>2 DEF Res
      <4>2. QED
        BY <2>5, <4>1 DEF Stored
    <3>3. QED
      BY <3>1, <3>2
  <2>6. QED
    BY <2>3, <2>4, <2>5 DEF Stored
<1>3. ASSUME NEW r \in Res, NEW a \in Attr, NEW i \in Index(a), NEW v, r \in Compiled => v \in Values(Kind[a]),
             store' = [store EXCEPT ![r][a] = Put(@, i, v)]
      PROVE  Stored'
  <2>1. PICK h, g : h = store[r][a] /\ g = Put(h, i, v)
    OBVIOUS
  <2>2. /\ DOMAIN g = {i} \cup DOMAIN h /\ g[i] = v
        /\ \A j \in DOMAIN h \ {i} : g[j] = h[j]
    BY <2>1 DEF Put
  <2>3. DOMAIN h \subseteq Index(a)
    BY <2>1 DEF Stored
  <2>4. r \in Compiled => \A j \in DOMAIN h : h[j] \in Values(Kind[a])
    BY <2>1 DEF Stored
  <2>5. r \in Compiled => \A j \in DOMAIN g : g[j] \in Values(Kind[a])
    BY <1>3, <2>2, <2>4
  <2>6. store' = [store EXCEPT ![r][a] = g]
    BY <1>3, <2>1
  <2>7. DOMAIN g \subseteq Index(a)
    BY <2>2, <2>3
  <2>8. QED
    BY <1>2, <2>5, <2>6, <2>7
<1>4. ASSUME NEW r \in Res, NEW a \in Attr, NEW I, store' = [store EXCEPT ![r][a] = Drop(@, I)]
      PROVE  Stored'
  <2>1. PICK h, g : h = store[r][a] /\ g = Drop(h, I)
    OBVIOUS
  <2>2. DOMAIN g = DOMAIN h \ I /\ \A j \in DOMAIN h \ I : g[j] = h[j]
    BY <2>1 DEF Drop
  <2>3. DOMAIN h \subseteq Index(a)
    BY <2>1 DEF Stored
  <2>4. r \in Compiled => \A j \in DOMAIN h : h[j] \in Values(Kind[a])
    BY <2>1 DEF Stored
  <2>5. store' = [store EXCEPT ![r][a] = g]
    BY <1>4, <2>1
  <2>6. DOMAIN g \subseteq Index(a) /\ (r \in Compiled => \A j \in DOMAIN g : g[j] \in Values(Kind[a]))
    BY <2>2, <2>3, <2>4
  <2>7. QED
    BY <1>2, <2>5, <2>6
<1>5. ASSUME NEW r \in Res, NEW a \in Attr, store' = [store EXCEPT ![r][a] = Nothing]
      PROVE  Stored'
  <2>1. DOMAIN Nothing = {}
    BY DEF Nothing
  <2>2. QED
    BY <1>2, <1>5, <2>1
<1>6. QED
  BY <1>1, <1>3, <1>4, <1>5 DEF Stores

Getting == {"get", "getArray", "getHash"}
\* A getter of a compiled resource answers at once, with what is stored.
Got(c, res) ==
  c.a # NoAttr /\ c.op \in Getting =>
    /\ c.r \in Compiled
    /\ res = Value(store[c.r][c.a], IF c.op = "get" THEN NoIndex ELSE c.i, Kind[c.a])

\* What a call of Resource.h comes to.
Outcome(t, c) ==
  \/ Crash
  \/ \E res : Answer(t, c, res) /\ Got(c, res)
  \/ c.a # NoAttr /\ c.op \in Setting /\ c.r \in Compiled /\ Store(c)
  \/ c.a # NoAttr /\ c.r \in Compiled /\ \E I : Remove(c, I)
  \/ c.a # NoAttr /\ c.r \in Perl /\ c.op \notin {"clear", "delete"} /\ Enter(t, c)
  \/ c.a # NoAttr /\ c.r \in Perl /\ c.op \in {"clear", "delete"} /\ EnterUnlocked(t, c)

LEMMA OutcomeKeeps ==
  ASSUME GuardInv, NEW t \in Thread, Len(stack[t]) <= 1, NEW c, Fitting(c), Outcome(t, c)
  PROVE  GuardInv'
<1>1. ASSUME Void, Stores PROVE GuardInv'
  <2>1. Stored'
    BY <1>1, StoresKeep DEF GuardInv
  <2>2. UNCHANGED <<table, lock, ctx, leaked, stack, crashed>>
    BY <1>1 DEF Void, perlVars
  <2>3. Types'
    BY <2>2 DEF GuardInv, Types
  <2>4. Stacks' /\ (\A u \in Thread : CallsOK(u)')
    BY <2>2 DEF GuardInv, Stacks, Framed, Shallow, CallsOK, Owns
  <2>5. Depths' /\ Contexts'
    BY <2>2 DEF GuardInv, Depths, Contexts, Holders, Chained, After, Under
  <2>6. QED
    BY <2>1, <2>3, <2>4, <2>5 DEF GuardInv
<1>2. CASE Crash
  BY <1>2, CrashKeeps
<1>3. ASSUME NEW res, Answer(t, c, res) PROVE GuardInv'
  <2>1. Push(t, Frame(c, "answer", res)) /\ UNCHANGED <<store, perlVars, crashed>>
    BY <1>3 DEF Answer
  <2>2. QED
    BY <2>1, FrameKeeps
<1>4. c.r \in Res /\ (c.a # NoAttr => c.a \in Attr)
  BY DEF Fitting, Request
<1>5. CASE c.a # NoAttr /\ c.op \in Setting /\ c.r \in Compiled /\ Store(c)
  <2>1. c.i \in Index(c.a) /\ c.v \in Values(Kind[c.a])
    BY <1>5 DEF Fitting
  <2>2. Void /\ store' = [store EXCEPT ![c.r][c.a] = Put(@, c.i, c.v)]
    BY <1>5 DEF Store
  <2>3. Stores
    BY <1>4, <1>5, <2>1, <2>2 DEF Stores
  <2>4. QED
    BY <1>1, <2>2, <2>3
<1>6. ASSUME c.a # NoAttr, NEW I, Remove(c, I) PROVE GuardInv'
  <2>1. Void /\ store' = [store EXCEPT ![c.r][c.a] = Drop(@, I)]
    BY <1>6 DEF Remove
  <2>2. Stores
    BY <1>4, <1>6, <2>1 DEF Stores
  <2>3. QED
    BY <1>1, <2>1, <2>2
<1>7. CASE c.a # NoAttr /\ c.r \in Perl /\ c.op \notin {"clear", "delete"} /\ Enter(t, c)
  <2>1. Push(t, Frame(c, "wait", 0)) /\ UNCHANGED <<store, perlVars, crashed>>
    BY <1>7 DEF Enter
  <2>2. QED
    BY <1>7, <2>1, FrameKeeps
<1>8. CASE c.a # NoAttr /\ c.r \in Perl /\ c.op \in {"clear", "delete"} /\ EnterUnlocked(t, c)
  <2>1. CASE Crash
    BY <2>1, CrashKeeps
  <2>2. CASE Push(t, Frame(c, "run", 0)) /\ UNCHANGED <<store, perlVars, crashed>>
    BY <1>8, <2>2, FrameKeeps
  <2>3. QED
    BY <1>8, <2>1, <2>2 DEF EnterUnlocked
<1>9. QED
  BY <1>2, <1>3, <1>5, <1>6, <1>7, <1>8 DEF Outcome


LEMMA CompiledOutcome ==
  ASSUME NEW t \in Thread, NEW c, c.a # NoAttr, c.r \in Compiled, CompiledCall(t, c)
  PROVE  Outcome(t, c)
<1>1. CASE Get(t, c) \/ GetArray(t, c) \/ GetHash(t, c) \/ GetKeys(t, c)
  BY <1>1 DEF Outcome, Got, Getting, Get, GetArray, GetHash, GetKeys
<1>2. CASE Set(t, c) \/ SetArray(t, c) \/ SetHash(t, c)
  BY <1>2 DEF Outcome, Set, SetArray, SetHash, Setting
<1>3. CASE Clear(t, c) \/ DeleteHashItem(t, c)
  BY <1>3 DEF Outcome, Clear, DeleteHashItem, UnfilledVoid
<1>4. CASE GetCount(t, c) \/ GetValues(t, c)
  BY <1>4 DEF Outcome, Got, Getting, GetCount, GetValues, Unfilled
<1>5. QED
  BY <1>1, <1>2, <1>3, <1>4 DEF CompiledCall

LEMMA PerlOutcome ==
  ASSUME NEW t \in Thread, NEW c, c.a # NoAttr, c.r \in Perl, PerlCall(t, c)
  PROVE  Outcome(t, c)
<1>1. CASE GetP(t, c) \/ GetArrayP(t, c) \/ GetHashP(t, c)
  BY <1>1 DEF Outcome, GetP, GetArrayP, GetHashP
<1>2. CASE SetP(t, c) \/ SetArrayP(t, c) \/ SetHashP(t, c)
  BY <1>2 DEF Outcome, SetP, SetArrayP, SetHashP
<1>3. CASE ClearP(t, c)
  BY <1>3 DEF Outcome, ClearP, UnfilledVoid
<1>4. CASE CountP(t, c) \/ ValuesP(t, c)
  BY <1>4 DEF Outcome, Got, Getting, CountP, ValuesP, Unfilled
<1>5. QED
  BY <1>1, <1>2, <1>3, <1>4 DEF PerlCall

LEMMA ViaOutcome ==
  ASSUME NEW t \in Thread, NEW c, c.r \in Res, GetAttrInfo(c), Via(t, c)
  PROVE  Outcome(t, c)
<1>1. CASE c.r \in Perl
  BY <1>1, PerlOutcome DEF Via, GetAttrInfo
<1>2. CASE c.r \notin Perl
  BY <1>2, CompiledOutcome DEF Via, GetAttrInfo, Res
<1>3. QED
  BY <1>1, <1>2

\* A thread in no call, or whose method runs, makes one.
LEMMA CallDepth ==
  ASSUME NEW t \in Thread, NEW c, Call(t, c)
  PROVE  Len(stack[t]) <= 1
<1>1. CASE stack[t] = <<>>
  <2>1. Len(stack[t]) = 0
    BY <1>1
  <2>2. QED
    BY <2>1
<1>2. CASE Len(stack[t]) = 1
  BY <1>2
<1>3. QED
  BY <1>1, <1>2 DEF Call, MayNest

\* DeleteHashItem by name asks for the item that has the name of the attribute.
LEMMA CallOutcome ==
  ASSUME NEW t \in Thread, NEW c, Fitting(c), Call(t, c)
  PROVE  \E d : Fitting(d) /\ d.r = c.r /\ Outcome(t, d)
<1>1. c.r \in Res
  BY DEF Fitting, Request
<1>2. CASE GetAttr(t, c) \/ GetAttrArray(t, c) \/ GetAttrHash(t, c)
  <2>1. Outcome(t, c)
    BY <1>1, <1>2, ViaOutcome DEF GetAttr, GetAttrArray, GetAttrHash, GetAttrInfo, Outcome, Got
  <2>2. QED
    BY <2>1
<1>3. CASE SetAttr(t, c) \/ SetAttrArray(t, c) \/ SetAttrHash(t, c) \/ ClearAttr(t, c)
  <2>1. Outcome(t, c)
    BY <1>1, <1>3, ViaOutcome DEF SetAttr, SetAttrArray, SetAttrHash, ClearAttr
  <2>2. QED
    BY <2>1
<1>4. CASE GetAttrCount(t, c) \/ GetAttrKeys(t, c) \/ GetAttrValues(t, c)
  <2>1. Outcome(t, c)
    BY <1>1, <1>4, ViaOutcome DEF GetAttrCount, GetAttrKeys, GetAttrValues, Outcome, Got, Getting
  <2>2. QED
    BY <2>1
<1>5. CASE DeleteAttrHashItem(t, c)
  <2>1. PICK d : d = IF c.by = "ai" THEN c ELSE [c EXCEPT !.i = c.a]
    OBVIOUS
  <2>2. GetAttrInfo(c) /\ Via(t, d) /\ c.op = "delete"
    BY <1>5, <2>1 DEF DeleteAttrHashItem
  <2>3. PICK W : c \in Request(W)
    BY DEF Fitting
  <2>4. d \in Request(W \cup {c.a}) /\ d.a = c.a /\ d.op = c.op /\ d.r = c.r
    <3>1. CASE c.by = "ai"
      BY <2>1, <2>3, <3>1 DEF Request
    <3>2. CASE c.by # "ai"
      <4>1. d = [c EXCEPT !.i = c.a]
        BY <2>1, <3>2
      <4>2. QED
        BY <2>3, <4>1 DEF Request
    <3>3. QED
      BY <3>1, <3>2
  <2>5. Fitting(d)
    BY <2>2, <2>4 DEF Fitting, Setting
  <2>6. Outcome(t, d)
    BY <1>1, <2>2, <2>4, ViaOutcome DEF GetAttrInfo
  <2>7. QED
    BY <2>4, <2>5, <2>6
<1>6. QED
  BY <1>2, <1>3, <1>4, <1>5 DEF Call

LEMMA CallKeeps ==
  ASSUME GuardInv, NEW t \in Thread, NEW c, Fitting(c), Call(t, c)
  PROVE  GuardInv'
<1>1. PICK d : Fitting(d) /\ Outcome(t, d)
  BY CallOutcome
<1>2. QED
  BY <1>1, CallDepth, OutcomeKeeps

-----------------------------------------------------------------------------
(***************************************************************************)
(* What a thread does inside a call.                                       *)
(***************************************************************************)

\* The innermost call of t, and its type.
LEMMA TopIs ==
  ASSUME GuardInv, NEW t \in Thread, stack[t] # <<>>
  PROVE  \E V : Framed(V) /\ Top(t) \in Entry(V) /\ Proper(Top(t)) /\ Owns(t, Top(t))
<1>1. PICK V : Framed(V)
  BY DEF GuardInv, Stacks
<1>2. PICK n \in 1..2 : n = Len(stack[t])
  BY GuardParts, StackLength
<1>3. n \in 1..n
  BY Span
<1>4. Top(t) = stack[t][n] /\ n \in 1..Len(stack[t])
  BY <1>2, <1>3 DEF Top
<1>5. stack[t] \in Seq(Entry(V))
  BY <1>1 DEF Framed
<1>6. stack[t][n] \in Entry(V)
  BY <1>4, <1>5
<1>7. Proper(stack[t][n]) /\ Owns(t, stack[t][n])
  BY <1>4 DEF GuardInv, CallsOK
<1>8. QED
  BY <1>1, <1>4, <1>6, <1>7

LEMMA PopLeaves ==
  ASSUME Stacks, NEW t \in Thread, stack[t] # <<>>, stack' = [stack EXCEPT ![t] = Pop(t)]
  PROVE  Leaves(t)
<1>1. Popped(t)
  BY PopIs
<1>2. QED
  BY <1>1 DEF Popped, Leaves

LEMMA LeaveLeaves ==
  ASSUME GuardInv, NEW t \in Thread, stack[t] # <<>>, NEW res, Leave(t, res)
  PROVE  Leaves(t)
<1>1. CASE stack' = [stack EXCEPT ![t] = Pop(t)]
  BY <1>1, PopLeaves DEF GuardInv
<1>2. CASE SetTop(t, [Top(t) EXCEPT !.at = "answer", !.res = res])
  <2>1. PICK V : Framed(V) /\ Top(t) \in Entry(V)
    BY TopIs
  <2>2. PICK e, f : e = Top(t) /\ f = [e EXCEPT !.at = "answer", !.res = res]
    OBVIOUS
  <2>3. PICK W : W = V \cup {res}
    OBVIOUS
  <2>4. Framed(W)
    BY <2>1, <2>3, Widen
  <2>5. Request(V) \subseteq Request(W)
    BY <2>3 DEF Request
  <2>6. f \in Entry(W) /\ f.at = "answer"
    BY <2>1, <2>2, <2>3, <2>5 DEF Entry
  <2>7. Edited(t, f)
    BY <1>2, <2>2, <2>4, <2>6, EditIs DEF GuardInv, Stacks
  <2>8. QED
    BY <2>6, <2>7 DEF Edited, Leaves
<1>3. QED
  BY <1>1, <1>2 DEF Leave

\* Clear, DeleteItem and the return leave lock and context alone.
LEMMA QuietKeeps ==
  ASSUME GuardInv, NEW t \in Thread, Leaves(t), ~Holding(Top(t)), Stores, UNCHANGED <<perlVars, crashed>>
  PROVE  GuardInv'
<1>1. PerlSteady
  BY DEF PerlSteady, perlVars
<1>2. LockInv'
  BY <1>1, GuardParts, LeaveKeeps
<1>3. Types'
  BY DEF GuardInv, Types, perlVars
<1>4. Stored'
  BY StoresKeep DEF GuardInv
<1>5. QED
  BY <1>2, <1>3, <1>4 DEF GuardInv, LockInv

LEMMA ReturnKeeps ==
  ASSUME GuardInv, NEW t \in Thread, Return(t)
  PROVE  GuardInv'
<1>1. stack[t] # <<>> /\ Top(t).at = "answer"
  BY DEF Return, At
<1>2. Leaves(t)
  BY <1>1, GuardParts, PopLeaves DEF Return
<1>3. ~Holding(Top(t))
  BY <1>1 DEF Holding
<1>4. Stores /\ UNCHANGED <<perlVars, crashed>>
  BY DEF Return, Stores
<1>5. QED
  BY <1>2, <1>3, <1>4, QuietKeeps

LEMMA PerlLockKeeps ==
  ASSUME GuardInv, NEW t \in Thread, PerlLock(t)
  PROVE  GuardInv'
<1>1. PICK p : p = Interpreter(t)
  OBVIOUS
<1>2. /\ stack[t] # <<>> /\ Top(t).at = "wait" /\ lock[p].owner \in {NoOne, t}
      /\ lock' = [lock EXCEPT ![p] = [owner |-> t, depth |-> @.depth + 1]]
      /\ ctx' = [ctx EXCEPT ![t] = p]
      /\ SetTop(t, [Top(t) EXCEPT !.at = "run", !.old = ctx[t]])
      /\ UNCHANGED <<table, store, leaked, crashed>>
  BY <1>1 DEF PerlLock, At
<1>3. PICK V : Framed(V) /\ Top(t) \in Entry(V) /\ Proper(Top(t))
  BY <1>2, TopIs
<1>4. PICK e, f : e = Top(t) /\ f = [e EXCEPT !.at = "run", !.old = ctx[t]]
  OBVIOUS
<1>5. PICK W : W = V \cup {ctx[t]}
  OBVIOUS
<1>6. Framed(W)
  BY <1>3, <1>5, Widen
<1>7. Request(V) \subseteq Request(W)
  BY <1>5 DEF Request
<1>8. f \in Entry(W) /\ f.at = "run" /\ f.old = ctx[t] /\ f.c = e.c
  BY <1>3, <1>4, <1>5, <1>7 DEF Entry
<1>9. Edited(t, f)
  BY <1>2, <1>4, <1>6, <1>8, EditIs DEF GuardInv, Stacks
<1>10. e.c.op \notin {"clear", "delete"} /\ e.c.r \in Perl
  BY <1>2, <1>3, <1>4 DEF Proper
<1>11. Holding(f) /\ Proper(f)
  BY <1>2, <1>3, <1>4, <1>8, <1>10 DEF Holding, Proper
<1>12. ~Holding(Top(t))
  BY <1>2 DEF Holding
<1>13. p \in Interp /\ p = Of(f)
  BY <1>1, <1>4, <1>8, <1>10, AttributesAssumption DEF Interpreter, Of
<1>14. LockInv'
  BY <1>2, <1>8, <1>9, <1>11, <1>12, <1>13, GuardParts, LockKeeps
<1>15. Types'
  <2>1. lock[p] \in [owner : Thread \cup {NoOne}, depth : Nat]
    BY <1>13 DEF GuardInv, Types
  <2>2. [owner |-> t, depth |-> lock[p].depth + 1] \in [owner : Thread \cup {NoOne}, depth : Nat]
    BY <2>1
  <2>3. lock' \in [Interp -> [owner : Thread \cup {NoOne}, depth : Nat]]
    BY <1>2, <2>2 DEF GuardInv, Types
  <2>4. ctx' = [u \in Thread |-> ctx'[u]] /\ \A u \in Thread : ctx'[u] \in Interp \cup {Home[u]}
    BY <1>2, <1>13 DEF GuardInv, Types
  <2>5. QED
    BY <1>2, <2>3, <2>4 DEF GuardInv, Types
<1>16. Stored'
  BY <1>2 DEF GuardInv, Stored
<1>17. QED
  BY <1>14, <1>15, <1>16 DEF GuardInv, LockInv

\* An accessor ends with the context put back and the lock released.
LEMMA PerlUnlockKeeps ==
  ASSUME GuardInv, NEW t \in Thread, At(t, "run"), Top(t).c.op \notin {"clear", "delete"}, NEW res,
         PerlUnlock(t, res), Stores
  PROVE  GuardInv'
<1>1. stack[t] # <<>> /\ Holding(Top(t))
  BY DEF At, Holding
<1>2. PICK p, d : p = Interpreter(t) /\ d = lock[p].depth - 1
  OBVIOUS
<1>3. /\ lock' = [lock EXCEPT ![p] = [owner |-> IF d = 0 THEN NoOne ELSE t, depth |-> d]]
      /\ ctx' = [ctx EXCEPT ![t] = Top(t).old] /\ Leave(t, res)
      /\ UNCHANGED <<table, leaked, crashed>>
  BY <1>2 DEF PerlUnlock
<1>4. Leaves(t)
  BY <1>1, <1>3, LeaveLeaves
<1>5. p = Of(Top(t))
  BY <1>2 DEF Interpreter, Of
<1>6. LockInv' /\ Locked' /\ ctx'[t] \in Interp \cup {Home[t]}
  BY <1>1, <1>2, <1>3, <1>4, <1>5, GuardParts, UnlockKeeps
<1>7. Types'
  <2>1. ctx' = [u \in Thread |-> ctx'[u]] /\ \A u \in Thread : ctx'[u] \in Interp \cup {Home[u]}
    BY <1>3, <1>6 DEF GuardInv, Types
  <2>2. QED
    BY <1>3, <1>6, <2>1 DEF GuardInv, Types, Locked
<1>8. Stored'
  BY StoresKeep DEF GuardInv
<1>9. QED
  BY <1>6, <1>7, <1>8 DEF GuardInv, LockInv


LEMMA FetchKeeps ==
  ASSUME GuardInv, NEW t \in Thread, At(t, "run"), Top(t).c.op \notin {"clear", "delete"}, NEW sv, NEW res,
         Fetch(t, sv, res)
  PROVE  GuardInv'
<1>1. CASE Crash
  BY <1>1, CrashKeeps
<1>2. CASE PerlUnlock(t, res) /\ UNCHANGED store
  BY <1>2, PerlUnlockKeeps DEF Stores
<1>3. QED
  BY <1>1, <1>2 DEF Fetch

\* A setter reaches the method Set_name, if the class has one.
LEMMA SetStores ==
  ASSUME GuardInv, NEW t \in Thread, At(t, "run"), Top(t).c.op \in Setting, NEW sv, SetScalar(Top(t).c, sv)
  PROVE  Stores
<1>1. Proper(Top(t)) /\ Top(t).at = "run"
  BY TopIs DEF At
<1>2. PICK c : c = Top(t).c
  OBVIOUS
<1>3. c.r \in Perl /\ c.a \in Attr /\ c.i \in Index(c.a)
  BY <1>1, <1>2 DEF Proper
<1>4. c.r \in Res /\ c.r \notin Compiled
  BY <1>3, AttributesAssumption DEF Res
<1>5. CASE store' = [store EXCEPT ![c.r][c.a] = Put(@, c.i, sv)]
  BY <1>3, <1>4, <1>5 DEF Stores
<1>6. CASE UNCHANGED store
  BY <1>6 DEF Stores
<1>7. QED
  BY <1>2, <1>5, <1>6 DEF SetScalar

LEMMA SettersKeep ==
  ASSUME GuardInv, NEW t \in Thread, PerlSet(t) \/ PerlSetArray(t) \/ PerlSetHash(t)
  PROVE  GuardInv'
<1>1. PICK sv : SetScalar(Top(t).c, sv) /\ PerlUnlock(t, 0) /\ At(t, "run") /\ Top(t).c.op \in Setting
  <2>1. CASE PerlSet(t)
    BY <2>1 DEF PerlSet, Running, SetValue, Setting
  <2>2. CASE PerlSetArray(t)
    BY <2>2 DEF PerlSetArray, Running, SetArrayValue, Setting
  <2>3. CASE PerlSetHash(t)
    BY <2>3 DEF PerlSetHash, Running, SetHashValue, Setting
  <2>4. QED
    BY <2>1, <2>2, <2>3
<1>2. Stores
  BY <1>1, SetStores
<1>3. Top(t).c.op \notin {"clear", "delete"}
  BY <1>1 DEF Setting
<1>4. QED
  BY <1>1, <1>2, <1>3, PerlUnlockKeeps

LEMMA SetIpAddrKeeps ==
  ASSUME GuardInv, NEW t \in Thread, PerlSetIpAddr(t)
  PROVE  GuardInv'
<1>1. At(t, "run") /\ Top(t).c.op \in Setting
  BY DEF PerlSetIpAddr, Setting
<1>2. Top(t).c.op \notin {"clear", "delete"} /\ stack[t] # <<>> /\ Top(t).at = "run"
  BY <1>1 DEF Setting, At
<1>3. CASE SetScalar(Top(t).c, Sv("ROK", Top(t).c.v)) /\ PerlUnlock(t, 0)
  BY <1>1, <1>2, <1>3, SetStores, PerlUnlockKeeps
<1>4. PICK p : p = Interpreter(t)
  OBVIOUS
<1>5. CASE /\ leaked[p] < MaxLeaks /\ leaked' = [leaked EXCEPT ![p] = @ + 1] /\ Leave(t, 0)
           /\ UNCHANGED <<table, store, last, lock, ctx, crashed>>
  <2>1. Leaves(t) /\ Holding(Top(t)) /\ p = Of(Top(t))
    BY <1>2, <1>4, <1>5, LeaveLeaves DEF Holding, Interpreter, Of
  <2>2. LockInv'
    BY <1>5, <2>1, GuardParts, LeakKeeps
  <2>3. Types'
    <3>1. leaked \in [Interp -> 0..MaxLeaks] /\ MaxLeaks \in Nat
      BY AttributesAssumption DEF GuardInv, Types
    <3>2. p \in Interp => leaked[p] + 1 \in 0..MaxLeaks
      BY <1>5, <3>1
    <3>3. leaked' = [leaked EXCEPT ![p] = leaked[p] + 1]
      BY <1>5
    <3>4. leaked' \in [Interp -> 0..MaxLeaks]
      BY <3>1, <3>2, <3>3
    <3>5. QED
      BY <1>5, <3>4 DEF GuardInv, Types
  <2>4. Stored'
    BY <1>5 DEF GuardInv, Stored
  <2>5. QED
    BY <2>2, <2>3, <2>4 DEF GuardInv, LockInv
<1>6. QED
  BY <1>3, <1>4, <1>5 DEF PerlSetIpAddr

LEMMA ClearKeeps ==
  ASSUME GuardInv, NEW t \in Thread, PerlClear(t) \/ PerlDeleteItem(t)
  PROVE  GuardInv'
<1>1. stack[t] # <<>> /\ Top(t).at = "run" /\ Top(t).c.op \in {"clear", "delete"}
  BY DEF PerlClear, PerlDeleteItem, Running, At
<1>2. CASE Crash
  BY <1>2, CrashKeeps
<1>3. PICK c : c = Top(t).c
  OBVIOUS
<1>4. c.r \in Res /\ c.a \in Attr
  BY <1>1, <1>3, TopIs DEF Proper, Res
<1>5. CASE /\ store' = [store EXCEPT ![c.r][c.a] = Nothing] \/ UNCHANGED store
           /\ Leave(t, 0) /\ UNCHANGED <<perlVars, crashed>>
  <2>1. Leaves(t) /\ ~Holding(Top(t))
    BY <1>1, <1>5, LeaveLeaves DEF Holding
  <2>2. Stores
    BY <1>4, <1>5 DEF Stores
  <2>3. QED
    BY <1>5, <2>1, <2>2, QuietKeeps
<1>6. CASE PerlClear(t)
  BY <1>2, <1>3, <1>5, <1>6 DEF PerlClear
<1>7. CASE PerlDeleteItem(t)
  BY <1>2, <1>5, <1>7 DEF PerlDeleteItem
<1>8. QED
  BY <1>6, <1>7

LEMMA GettersKeep ==
  ASSUME GuardInv, NEW t \in Thread,
         \/ PerlGet(t) \/ PerlGetArray(t) \/ PerlGetHash(t)
         \/ PerlCount(t) \/ PerlKeys(t) \/ PerlValues(t)
  PROVE  GuardInv'
<1>1. PICK sv, res : Fetch(t, sv, res) /\ At(t, "run") /\ Top(t).c.op \notin {"clear", "delete"}
  <2>1. CASE PerlGet(t)
    BY <2>1 DEF PerlGet, Running
  <2>2. CASE PerlGetArray(t)
    BY <2>2 DEF PerlGetArray, Running
  <2>3. CASE PerlGetHash(t)
    BY <2>3 DEF PerlGetHash, Running
  <2>4. CASE PerlCount(t)
    BY <2>4 DEF PerlCount, Running
  <2>5. CASE PerlKeys(t)
    BY <2>5 DEF PerlKeys, Running
  <2>6. CASE PerlValues(t)
    BY <2>6 DEF PerlValues, Running
  <2>7. QED
    BY <2>1, <2>2, <2>3, <2>4, <2>5, <2>6
<1>2. QED
  BY <1>1, FetchKeeps

LEMMA GuardNext == GuardInv /\ [Next]_vars => GuardInv'
<1> SUFFICES ASSUME GuardInv, [Next]_vars PROVE GuardInv'
  OBVIOUS
<1>1. CASE UNCHANGED vars
  <2>1. UNCHANGED <<table, store, lock, ctx, stack, leaked, crashed>>
    BY <1>1 DEF vars
  <2>2. Types' /\ Stored'
    BY <2>1 DEF GuardInv, Types, Stored
  <2>3. Stacks' /\ (\A u \in Thread : CallsOK(u)')
    BY <2>1 DEF GuardInv, Stacks, Framed, Shallow, CallsOK, Owns
  <2>4. Depths'
    BY <2>1, Zenon DEF GuardInv, Depths, Holders
  <2>5. Contexts'
    BY <2>1, Zenon DEF GuardInv, Contexts, Chained, After, Under
  <2>6. QED
    BY <2>2, <2>3, <2>4, <2>5 DEF GuardInv
<1>2. ASSUME NEW t \in Thread, NEW r \in Res, NEW c \in Calls(r), Call(t, c)
      PROVE  GuardInv'
  BY <1>2, CallsFit, CallKeeps, GuardParts
<1>3. ASSUME NEW t \in Thread, MethodStep(t)
      PROVE  GuardInv'
  BY <1>3, SettersKeep, SetIpAddrKeeps, ClearKeeps, GettersKeep DEF MethodStep
<1>4. ASSUME NEW t \in Thread, PerlLock(t) \/ Return(t)
      PROVE  GuardInv'
  BY <1>4, PerlLockKeeps, ReturnKeeps
<1>5. QED
  BY <1>1, <1>2, <1>3, <1>4 DEF Next, Step

(***************************************************************************)
(* The accessors of PerlResource.cc keep one thread in an interpreter, but *)
(* for Clear and DeleteItem, which take no lock; the recursive lock is as  *)
(* deep as its owner has accessors in progress, plus the setters of an     *)
(* IpAddr that failed, through nested calls and on every error path; and a *)
(* thread leaves with the Perl context it came with, unless such a setter  *)
(* failed.                                                                 *)
(***************************************************************************)
THEOREM Guarded == Spec => []InterpreterGuarded
<1>1. Init => GuardInv
  BY BlankIsGuarded DEF Init
<1>2. QED
  BY <1>1, GuardNext, GuardMeans, PTL DEF Spec

-----------------------------------------------------------------------------
(***************************************************************************)
(* The integers on their way through long and the Perl scalar.  Pow2 is a  *)
(* recursive function; that there is one, and what it is, takes induction. *)
(***************************************************************************)

LEMMA Least == ASSUME NEW T \in SUBSET Nat, T # {} PROVE \E n \in T : \A m \in T : n <= m
<1>1. PICK R : R = OpToRel(<, Nat)
  OBVIOUS
<1>2. IsWellFoundedOn(R, Nat)
  BY <1>1, NatLessThanWellFounded, Zenon
<1>3. PICK n \in T : \A m \in T : ~(<<m, n>> \in R)
  BY <1>2, WFMin
<1>4. \A m \in T : m < n => <<m, n>> \in R
  BY <1>1 DEF OpToRel
<1>5. ASSUME NEW m \in T PROVE n <= m
  <2>1. n \in Nat /\ m \in Nat /\ ~(m < n)
    BY <1>3, <1>4
  <2>2. QED
    BY <2>1
<1>6. QED
  BY <1>5

\* Induction from l up to N, for a set.
LEMMA Induction ==
  ASSUME NEW N \in Nat, NEW l \in 0..N, NEW S, l \in S, \A n \in l..N - 1 : n \in S => n + 1 \in S
  PROVE  \A n \in l..N : n \in S
<1>1. PICK T : T = {n \in l..N : n \notin S}
  OBVIOUS
<1>2. T \in SUBSET Nat
  BY <1>1
<1>3. SUFFICES ASSUME T # {} PROVE FALSE
  BY <1>1
<1>4. PICK n \in T : \A m \in T : n <= m
  BY <1>2, <1>3, Least
<1>5. n \in l..N /\ n \notin S /\ n # l
  BY <1>1, <1>4
<1>6. n - 1 \in l..N - 1 /\ n - 1 \in l..N /\ ~(n <= n - 1) /\ (n - 1) + 1 = n
  BY <1>5
<1>7. n - 1 \in S
  BY <1>1, <1>4, <1>6
<1>8. QED
  BY <1>5, <1>6, <1>7

Doubles(f, n) == f[0] = 1 /\ \A j \in 1..n : f[j] = 2 * f[j - 1]

LEMMA DoublesExist ==
  ASSUME NEW N \in Nat
  PROVE  \E f \in [0..N -> Nat] : Doubles(f, N)
<1> USE DEF Doubles
<1>1. PICK I : I = {n \in 0..N : \E f \in [0..n -> Nat] : Doubles(f, n)}
  OBVIOUS
<1>2. 0 \in I
  <2>1. PICK f : f = [j \in 0..0 |-> 1]
    OBVIOUS
  <2>2. f \in [0..0 -> Nat] /\ f[0] = 1 /\ 1..0 = {}
    BY <2>1
  <2>3. QED
    BY <1>1, <2>2
<1>3. ASSUME NEW n \in 0..N - 1, n \in I PROVE n + 1 \in I
  <2>1. PICK f \in [0..n -> Nat] : f[0] = 1 /\ \A j \in 1..n : f[j] = 2 * f[j - 1]
    BY <1>1, <1>3
  <2>2. PICK h : h = [j \in 0..n + 1 |-> IF j = n + 1 THEN 2 * f[n] ELSE f[j]]
    OBVIOUS
  <2>3. h \in [0..n + 1 -> Nat] /\ h[n + 1] = 2 * f[n] /\ \A j \in 0..n : h[j] = f[j]
    BY <2>1, <2>2
  <2>4. ASSUME NEW j \in 1..n + 1 PROVE h[j] = 2 * h[j - 1]
    <3>1. CASE j = n + 1
      <4>1. j - 1 = n /\ n \in 0..n
        BY <3>1
      <4>2. QED
        BY <2>3, <3>1, <4>1
    <3>2. CASE j # n + 1
      <4>1. j \in 1..n /\ j \in 0..n /\ j - 1 \in 0..n
        BY <3>2
      <4>2. QED
        BY <2>1, <2>3, <4>1
    <3>3. QED
      BY <3>1, <3>2
  <2>5. h[0] = 1
    BY <2>1, <2>3
  <2>6. \E g \in [0..n + 1 -> Nat] : Doubles(g, n + 1)
    BY <2>3, <2>4, <2>5
  <2>7. n + 1 \in 0..N
    BY <1>3
  <2>8. QED
    BY <1>1, <2>6, <2>7
<1>4. \A n \in 0..N : n \in I
  BY <1>2, <1>3, Induction
<1>5. N \in 0..N
  OBVIOUS
<1>6. QED
  BY <1>1, <1>4, <1>5

LEMMA Pow2Doubles == Doubles(Pow2, WIDE)
<1>1. WIDE \in Nat
  BY AttributesAssumption
<1>2. PICK f \in [0..WIDE -> Nat] : Doubles(f, WIDE)
  BY <1>1, DoublesExist
<1>3. f = [n \in 0..WIDE |-> IF n = 0 THEN 1 ELSE 2 * f[n - 1]]
  <2>1. ASSUME NEW n \in 0..WIDE PROVE f[n] = IF n = 0 THEN 1 ELSE 2 * f[n - 1]
    BY <1>1, <1>2 DEF Doubles
  <2>2. QED
    BY <1>2, <2>1
<1>4. PICK s : s = CHOOSE h : h = [n \in 0..WIDE |-> IF n = 0 THEN 1 ELSE 2 * h[n - 1]]
  OBVIOUS
<1>5. s = [n \in 0..WIDE |-> IF n = 0 THEN 1 ELSE 2 * s[n - 1]]
  BY <1>3, <1>4
<1>6. Pow2 = s
  BY <1>4 DEF Pow2
<1>7. Doubles(s, WIDE)
  BY <1>1, <1>5 DEF Doubles
<1>8. QED
  BY <1>6, <1>7

LEMMA Pow2Facts ==
  /\ \A n \in 0..WIDE : Pow2[n] \in Nat \ {0}
  /\ \A n \in 1..WIDE : Pow2[n] = 2 * Pow2[n - 1]
  /\ \A m \in 0..WIDE : \A n \in m..WIDE : Pow2[m] <= Pow2[n]
<1>1. WIDE \in Nat
  BY AttributesAssumption
<1>2. Pow2[0] = 1 /\ \A n \in 1..WIDE : Pow2[n] = 2 * Pow2[n - 1]
  BY Pow2Doubles DEF Doubles
<1>3. \A n \in 0..WIDE : Pow2[n] \in Nat \ {0}
  <2>1. PICK S : S = {n \in 0..WIDE : Pow2[n] \in Nat \ {0}}
    OBVIOUS
  <2>2. 0 \in 0..WIDE /\ 0 \in S
    BY <1>1, <1>2, <2>1
  <2>3. ASSUME NEW n \in 0..WIDE - 1, n \in S PROVE n + 1 \in S
    <3>1. n + 1 \in 1..WIDE /\ n + 1 \in 0..WIDE /\ (n + 1) - 1 = n
      BY <1>1
    <3>2. Pow2[n + 1] = 2 * Pow2[n] /\ Pow2[n] \in Nat \ {0}
      BY <1>2, <2>1, <2>3, <3>1
    <3>3. QED
      BY <2>1, <3>1, <3>2
  <2>4. \A n \in 0..WIDE : n \in S
    BY <1>1, <2>2, <2>3, Induction
  <2>5. QED
    BY <2>1, <2>4
<1>4. ASSUME NEW m \in 0..WIDE PROVE \A n \in m..WIDE : Pow2[m] <= Pow2[n]
  <2>1. PICK S : S = {n \in m..WIDE : Pow2[m] <= Pow2[n]}
    OBVIOUS
  <2>2. m \in S
    BY <1>1, <1>3, <2>1
  <2>3. ASSUME NEW n \in m..WIDE - 1, n \in S PROVE n + 1 \in S
    <3>1. n + 1 \in 1..WIDE /\ n + 1 \in m..WIDE /\ n \in 0..WIDE /\ (n + 1) - 1 = n
      BY <1>1
    <3>2. Pow2[n + 1] = 2 * Pow2[n] /\ Pow2[m] <= Pow2[n] /\ Pow2[n] \in Nat /\ Pow2[m] \in Nat
      BY <1>2, <1>3, <2>1, <2>3, <3>1
    <3>3. QED
      BY <2>1, <3>1, <3>2
  <2>4. \A n \in m..WIDE : n \in S
    BY <1>1, <2>2, <2>3, Induction
  <2>5. QED
    BY <2>1, <2>4
<1>5. QED
  BY <1>2, <1>3, <1>4

LEMMA Modulo ==
  ASSUME NEW p \in Nat \ {0}
  PROVE  /\ \A x \in Int : 0 <= x /\ x < p => x % p = x
         /\ \A x \in Int : p <= x /\ x < 2 * p => x % p = x - p
         /\ (-1) % p = p - 1
<1>1. ASSUME NEW x \in Int, 0 <= x, x < p PROVE x % p = x
  BY <1>1
<1>2. ASSUME NEW x \in Int, p <= x, x < 2 * p PROVE x % p = x - p
  BY <1>2
<1>3. (-1) % p = p - 1
  OBVIOUS
<1>4. QED
  BY <1>1, <1>2, <1>3

\* A number of w bits is itself, as a signed one and as an unsigned one; the
\* largest unsigned number is -1 as a signed one, and comes back.
LEMMA Wraps ==
  ASSUME NEW w \in 1..WIDE
  PROVE  /\ \A x \in Int : -Pow2[w - 1] <= x /\ x < Pow2[w - 1] => Signed(x, w) = x
         /\ \A x \in Int : 0 <= x /\ x < Pow2[w] => Unsigned(x, w) = x
         /\ Signed(Pow2[w] - 1, w) = -1 /\ Unsigned(-1, w) = Pow2[w] - 1
<1>1. w \in 0..WIDE /\ w - 1 \in 0..WIDE /\ WIDE \in Nat
  BY AttributesAssumption
<1>2. PICK p, h : p = Pow2[w] /\ h = Pow2[w - 1]
  OBVIOUS
<1>3. p \in Nat \ {0} /\ h \in Nat \ {0} /\ p = 2 * h
  BY <1>1, <1>2, Pow2Facts
<1>4. ASSUME NEW x \in Int, -h <= x, x < h PROVE ((x + h) % p) - h = x
  <2>1. x + h \in Int /\ 0 <= x + h /\ x + h < p
    BY <1>3, <1>4
  <2>2. (x + h) % p = x + h
    BY <1>3, <2>1, Modulo
  <2>3. QED
    BY <1>3, <2>2
<1>5. ((p - 1 + h) % p) - h = -1
  <2>1. PICK x \in Int : x = p - 1 + h
    BY <1>3
  <2>2. p <= x /\ x < 2 * p /\ x - p = h - 1
    BY <1>3, <2>1
  <2>3. x % p = h - 1
    BY <1>3, <2>2, Modulo
  <2>4. QED
    BY <1>3, <2>1, <2>3
<1>6. \A x \in Int : 0 <= x /\ x < p => x % p = x
  BY <1>3, Modulo
<1>7. (-1) % p = p - 1
  BY <1>3, Modulo
<1>8. QED
  BY <1>2, <1>4, <1>5, <1>6, <1>7 DEF Signed, Unsigned
-----------------------------------------------------------------------------
(***************************************************************************)
(* A getter returns what was set.                                          *)
(***************************************************************************)

\* What a getter makes of what is stored, and what it should return of a value set.
Read(r, k, x) == IF r \in Perl THEN FromSv(k, x) ELSE x
Seen(r, k, v) == IF r \in Perl /\ k = "string" THEN Cut(v)
                 ELSE IF r \in Perl /\ k = "ip" THEN EmptyIp
                 ELSE v

\* What is stored reads as what was set last.
Reads(r, a, g, h) ==
  DOMAIN g = DOMAIN h /\ \A i \in DOMAIN g : Read(r, Kind[a], g[i]) = Seen(r, Kind[a], h[i])
Faithful ==
  /\ store = [r \in Res |-> [a \in Attr |-> store[r][a]]]
  /\ last = [r \in Res |-> [a \in Attr |-> last[r][a]]]
  /\ \A r \in Res, a \in Attr : Reads(r, a, store[r][a], last[r][a])

\* A call of t is about a resource t has; a setter has a value to set, and the answer
\* of a getter is the one expected.
Meant(t, f) ==
  /\ f.c.r \in Res /\ User[f.c.r] = t
  /\ f.at # "answer" /\ f.c.op \in Setting => f.c.v \in Values(Kind[f.c.a])
  /\ f.c.a # NoAttr /\ f.c.op \in Getting =>
       /\ f.c.a \in Attr /\ (f.c.op = "get" => f.c.i = NoIndex)
       /\ f.at = "answer" => f.res = Expected(f.c)
\* Only a method that runs makes another call.
Honest(t) ==
  \A k \in 1..Len(stack[t]) :
    Meant(t, stack[t][k]) /\ (k # Len(stack[t]) => stack[t][k].at = "run")
ReadInv == Faithful /\ \A t \in Thread : Honest(t)

\* What a setter stores reads as what was set: for an IpAddr nothing, for a
\* string what is before the first NUL.
LEMMA LongKeeps ==
  ASSUME NEW k \in {"int32", "int64", "uint32", "uint64"}, NEW v \in Values(k)
  PROVE  FromLong(k, ToLong(v)) = v
<1>1. /\ NARROW \in 1..WIDE /\ WIDE \in 1..WIDE /\ NARROW \in 0..WIDE /\ WIDE \in 0..WIDE
      /\ NARROW - 1 \in 0..WIDE /\ WIDE - 1 \in NARROW - 1..WIDE /\ WIDE - 1 \in 0..WIDE
      /\ NARROW # WIDE => WIDE - 1 \in NARROW..WIDE
  BY AttributesAssumption
<1>2. PICK n, w, n1, w1 : n = Pow2[NARROW] /\ w = Pow2[WIDE] /\ n1 = Pow2[NARROW - 1] /\ w1 = Pow2[WIDE - 1]
  OBVIOUS
<1>3. /\ n \in Nat \ {0} /\ w \in Nat \ {0} /\ n1 \in Nat \ {0} /\ w1 \in Nat \ {0}
      /\ n = 2 * n1 /\ w = 2 * w1 /\ n1 <= w1 /\ (NARROW # WIDE => n <= w1)
  BY <1>1, <1>2, Pow2Facts
<1>4. /\ \A x \in Int : -n1 <= x /\ x < n1 => Signed(x, NARROW) = x
      /\ \A x \in Int : 0 <= x /\ x < n => Unsigned(x, NARROW) = x
      /\ Signed(n - 1, NARROW) = -1 /\ Unsigned(-1, NARROW) = n - 1
  BY <1>1, <1>2, Wraps
<1>5. /\ \A x \in Int : -w1 <= x /\ x < w1 => Signed(x, WIDE) = x
      /\ \A x \in Int : 0 <= x /\ x < w => Unsigned(x, WIDE) = x
      /\ Signed(w - 1, WIDE) = -1 /\ Unsigned(-1, WIDE) = w - 1
  BY <1>1, <1>2, Wraps
<1>6. CASE k = "int32"
  <2>1. v = -n1
    BY <1>2, <1>6 DEF Values
  <2>2. v \in Int /\ -w1 <= v /\ v < w1 /\ -n1 <= v /\ v < n1
    BY <1>3, <2>1
  <2>3. QED
    BY <1>4, <1>5, <1>6, <2>2 DEF FromLong, ToLong
<1>7. CASE k = "int64"
  <2>1. v = -w1 \/ v = w1 - 1
    BY <1>2, <1>7 DEF Values
  <2>2. v \in Int /\ -w1 <= v /\ v < w1
    BY <1>3, <2>1
  <2>3. QED
    BY <1>5, <1>7, <2>2 DEF FromLong, ToLong
<1>8. CASE k = "uint32"
  <2>1. v = n - 1
    BY <1>2, <1>8 DEF Values
  <2>2. v \in Int /\ 0 <= v /\ v < n
    BY <1>3, <2>1
  <2>3. CASE NARROW = WIDE
    BY <1>2, <1>4, <1>8, <2>1, <2>3 DEF FromLong, ToLong
  <2>4. CASE NARROW # WIDE
    <3>1. -w1 <= v /\ v < w1
      BY <1>3, <2>2, <2>4
    <3>2. QED
      BY <1>4, <1>5, <1>8, <2>2, <3>1 DEF FromLong, ToLong
  <2>5. QED
    BY <2>3, <2>4
<1>9. CASE k = "uint64"
  <2>1. v = 1 \/ v = w - 1
    BY <1>2, <1>9 DEF Values
  <2>2. CASE v = w - 1
    BY <1>5, <1>9, <2>2 DEF FromLong, ToLong
  <2>3. CASE v # w - 1
    <3>1. v = 1 /\ v \in Int /\ -w1 <= v /\ v < w1 /\ 0 <= v /\ v < w
      BY <1>3, <2>1, <2>3
    <3>2. QED
      BY <1>5, <1>9, <3>1 DEF FromLong, ToLong
  <2>4. QED
    BY <2>2, <2>3
<1>10. QED
  BY <1>6, <1>7, <1>8, <1>9

LEMMA SvKeeps ==
  ASSUME NEW r \in Perl, NEW k \in Kinds, NEW v \in Values(k)
  PROVE  /\ k # "ip" => Read(r, k, ToSv(k, v)) = Seen(r, k, v)
         /\ k # "ip" => Read(r, k, ToSv(k, IF k = "string" THEN Cut(v) ELSE v)) = Seen(r, k, v)
         /\ k = "ip" => Read(r, k, Sv("ROK", v)) = Seen(r, k, v)
<1>1. CASE k = "string"
  <2>1. Cut(Cut(v)) = Cut(v)
    BY DEF Cut, Str
  <2>2. QED
    BY <1>1, <2>1 DEF Read, Seen, FromSv, ToSv, Sv
<1>2. CASE k = "ip"
  BY <1>2 DEF Read, Seen, FromSv, Sv, Empty
<1>3. CASE k = "double"
  BY <1>3 DEF Read, Seen, FromSv, ToSv, Sv
<1>4. CASE k \in {"int32", "int64", "uint32", "uint64"}
  <2>1. FromLong(k, ToLong(v)) = v
    BY <1>4, LongKeeps
  <2>2. k # "string" /\ k # "ip" /\ k # "double"
    BY <1>4
  <2>3. QED
    BY <2>1, <2>2 DEF Read, Seen, FromSv, ToSv, Sv
<1>5. QED
  BY <1>1, <1>2, <1>3, <1>4 DEF Kinds
\* Store and last change together, for a resource of t.
Wrote(t) ==
  \/ UNCHANGED <<store, last>>
  \/ \E r \in Res, a \in Attr :
       /\ User[r] = t
       /\ \/ \E i, x, v :
               /\ Read(r, Kind[a], x) = Seen(r, Kind[a], v)
               /\ store' = [store EXCEPT ![r][a] = Put(@, i, x)]
               /\ last' = [last EXCEPT ![r][a] = Put(@, i, v)]
          \/ \E I : /\ store' = [store EXCEPT ![r][a] = Drop(@, I)]
                    /\ last' = [last EXCEPT ![r][a] = Drop(@, I)]
          \/ /\ store' = [store EXCEPT ![r][a] = Nothing]
             /\ last' = [last EXCEPT ![r][a] = Nothing]

LEMMA WroteKeeps ==
  ASSUME Faithful, NEW t \in Thread, Wrote(t)
  PROVE  Faithful' /\ \A r \in Res : User[r] # t => last'[r] = last[r]
<1>1. CASE UNCHANGED <<store, last>>
  BY <1>1 DEF Faithful
<1>2. ASSUME NEW r \in Res, NEW a \in Attr, User[r] = t, NEW g, NEW h, Reads(r, a, g, h),
             store' = [store EXCEPT ![r][a] = g], last' = [last EXCEPT ![r][a] = h]
      PROVE  Faithful' /\ \A s \in Res : User[s] # t => last'[s] = last[s]
  <2>1. store'[r][a] = g /\ last'[r][a] = h
    BY <1>2 DEF Faithful
  <2>2. \A s \in Res, b \in Attr : s # r \/ b # a => store'[s][b] = store[s][b] /\ last'[s][b] = last[s][b]
    BY <1>2 DEF Faithful
  <2>3. store' = [s \in Res |-> [b \in Attr |-> store'[s][b]]]
    BY <1>2 DEF Faithful
  <2>4. last' = [s \in Res |-> [b \in Attr |-> last'[s][b]]]
    BY <1>2 DEF Faithful
  <2>5. ASSUME NEW s \in Res, NEW b \in Attr PROVE Reads(s, b, store'[s][b], last'[s][b])
    <3>1. CASE s = r /\ b = a
      BY <1>2, <2>1, <3>1
    <3>2. CASE ~(s = r /\ b = a)
      <4>1. store'[s][b] = store[s][b] /\ last'[s][b] = last[s][b]
        BY <2>2, <3>2
      <4>2. Reads(s, b, store[s][b], last[s][b])
        BY DEF Faithful
      <4>3. QED
        BY <4>1, <4>2
    <3>3. QED
      BY <3>1, <3>2
  <2>6. \A s \in Res : User[s] # t => last'[s] = last[s]
    BY <1>2 DEF Faithful
  <2>7. QED
    BY <2>3, <2>4, <2>5, <2>6 DEF Faithful
<1>3. ASSUME NEW r \in Res, NEW a \in Attr, User[r] = t, NEW i, NEW x, NEW v,
             Read(r, Kind[a], x) = Seen(r, Kind[a], v),
             store' = [store EXCEPT ![r][a] = Put(@, i, x)], last' = [last EXCEPT ![r][a] = Put(@, i, v)]
      PROVE  Faithful' /\ \A s \in Res : User[s] # t => last'[s] = last[s]
  <2>1. PICK g, h, g1, h1 : g = store[r][a] /\ h = last[r][a] /\ g1 = Put(g, i, x) /\ h1 = Put(h, i, v)
    OBVIOUS
  <2>2. /\ DOMAIN g1 = DOMAIN g \cup {i} /\ g1[i] = x /\ \A j \in DOMAIN g \ {i} : g1[j] = g[j]
        /\ DOMAIN h1 = DOMAIN h \cup {i} /\ h1[i] = v /\ \A j \in DOMAIN h \ {i} : h1[j] = h[j]
    BY <2>1 DEF Put
  <2>3. DOMAIN g = DOMAIN h /\ \A j \in DOMAIN g : Read(r, Kind[a], g[j]) = Seen(r, Kind[a], h[j])
    BY <2>1 DEF Faithful, Reads
  <2>4. ASSUME NEW j \in DOMAIN g1 PROVE Read(r, Kind[a], g1[j]) = Seen(r, Kind[a], h1[j])
    <3>1. CASE j = i
      BY <1>3, <2>2, <3>1
    <3>2. CASE j # i
      <4>1. j \in DOMAIN g /\ g1[j] = g[j] /\ h1[j] = h[j]
        BY <2>2, <2>3, <2>4, <3>2
      <4>2. QED
        BY <2>3, <4>1
    <3>3. QED
      BY <3>1, <3>2
  <2>5. Reads(r, a, g1, h1)
    BY <2>2, <2>3, <2>4 DEF Reads
  <2>6. store' = [store EXCEPT ![r][a] = g1] /\ last' = [last EXCEPT ![r][a] = h1]
    BY <1>3, <2>1
  <2>7. QED
    BY <1>2, <1>3, <2>5, <2>6
<1>4. ASSUME NEW r \in Res, NEW a \in Attr, User[r] = t, NEW I,
             store' = [store EXCEPT ![r][a] = Drop(@, I)], last' = [last EXCEPT ![r][a] = Drop(@, I)]
      PROVE  Faithful' /\ \A s \in Res : User[s] # t => last'[s] = last[s]
  <2>1. PICK g, h, g1, h1 : g = store[r][a] /\ h = last[r][a] /\ g1 = Drop(g, I) /\ h1 = Drop(h, I)
    OBVIOUS
  <2>2. /\ DOMAIN g1 = DOMAIN g \ I /\ \A j \in DOMAIN g \ I : g1[j] = g[j]
        /\ DOMAIN h1 = DOMAIN h \ I /\ \A j \in DOMAIN h \ I : h1[j] = h[j]
    BY <2>1 DEF Drop
  <2>3. DOMAIN g = DOMAIN h /\ \A j \in DOMAIN g : Read(r, Kind[a], g[j]) = Seen(r, Kind[a], h[j])
    BY <2>1 DEF Faithful, Reads
  <2>4. Reads(r, a, g1, h1)
    BY <2>2, <2>3 DEF Reads
  <2>5. store' = [store EXCEPT ![r][a] = g1] /\ last' = [last EXCEPT ![r][a] = h1]
    BY <1>4, <2>1
  <2>6. QED
    BY <1>2, <1>4, <2>4, <2>5
<1>5. ASSUME NEW r \in Res, NEW a \in Attr, User[r] = t,
             store' = [store EXCEPT ![r][a] = Nothing], last' = [last EXCEPT ![r][a] = Nothing]
      PROVE  Faithful' /\ \A s \in Res : User[s] # t => last'[s] = last[s]
  <2>1. Reads(r, a, Nothing, Nothing)
    BY DEF Reads, Nothing
  <2>2. QED
    BY <1>2, <1>5, <2>1
<1>6. ASSUME NEW r \in Res, NEW a \in Attr, User[r] = t,
             \/ \E i, x, v :
                  /\ Read(r, Kind[a], x) = Seen(r, Kind[a], v)
                  /\ store' = [store EXCEPT ![r][a] = Put(@, i, x)]
                  /\ last' = [last EXCEPT ![r][a] = Put(@, i, v)]
             \/ \E I : /\ store' = [store EXCEPT ![r][a] = Drop(@, I)]
                       /\ last' = [last EXCEPT ![r][a] = Drop(@, I)]
             \/ /\ store' = [store EXCEPT ![r][a] = Nothing]
                /\ last' = [last EXCEPT ![r][a] = Nothing]
      PROVE  Faithful' /\ \A s \in Res : User[s] # t => last'[s] = last[s]
  BY <1>3, <1>4, <1>5, <1>6
<1>7. QED
  BY <1>1, <1>6, Zenon DEF Wrote

\* What a getter finds, of a compiled and of a Perl resource.
LEMMA Fetched ==
  ASSUME Faithful, NEW c, c.r \in Res, c.a \in Attr
  PROVE  /\ c.r \in Compiled => Value(store[c.r][c.a], c.i, Kind[c.a]) = Expected(c)
         /\ c.r \in Perl => FromSv(Kind[c.a], Scalar(store[c.r][c.a], c.i)) = Expected(c)
<1>1. PICK r, a, k, g, h : r = c.r /\ a = c.a /\ k = Kind[a] /\ g = store[r][a] /\ h = last[r][a]
  OBVIOUS
<1>2. DOMAIN g = DOMAIN h /\ \A i \in DOMAIN g : Read(r, k, g[i]) = Seen(r, k, h[i])
  BY <1>1 DEF Faithful, Reads
<1>3. CASE c.i \in DOMAIN g
  <2>1. Read(r, k, g[c.i]) = Seen(r, k, h[c.i])
    BY <1>2, <1>3
  <2>2. Expected(c) = Seen(r, k, h[c.i])
    BY <1>1, <1>2, <1>3 DEF Expected, Seen
  <2>3. Value(g, c.i, k) = g[c.i] /\ Scalar(g, c.i) = g[c.i]
    BY <1>3 DEF Value, Scalar
  <2>4. r \in Compiled => r \notin Perl
    BY AttributesAssumption
  <2>5. (r \in Compiled => Read(r, k, g[c.i]) = g[c.i]) /\ (r \in Perl => Read(r, k, g[c.i]) = FromSv(k, g[c.i]))
    BY <2>4 DEF Read
  <2>6. QED
    BY <1>1, <2>1, <2>2, <2>3, <2>5
<1>4. CASE c.i \notin DOMAIN g
  <2>1. Expected(c) = Empty(k)
    BY <1>1, <1>2, <1>4 DEF Expected
  <2>2. Value(g, c.i, k) = Empty(k) /\ Scalar(g, c.i) = Undef
    BY <1>4 DEF Value, Scalar
  <2>3. FromSv(k, Undef) = Empty(k)
    <3>1. Undef.ok = "undef"
      BY DEF Undef, Sv
    <3>2. Undef.ok # "POK" /\ Undef.ok # "IOK" /\ Undef.ok # "NOK"
      BY <3>1
    <3>3. QED
      BY <3>2 DEF FromSv
  <2>4. QED
    BY <1>1, <2>1, <2>2, <2>3
<1>5. QED
  BY <1>3, <1>4
\* A method that runs goes on, whatever is written.
LEMMA RunsOn ==
  ASSUME NEW t \in Thread, NEW f, NEW g, Same(f, g), g.at = "run", Meant(t, g)
  PROVE  Meant(t, f)' /\ f.at = "run"
<1>1. f.c = g.c /\ f.at = "run"
  BY DEF Same
<1>2. f.at # "answer" /\ g.at # "answer"
  BY <1>1
<1>3. QED
  BY <1>1, <1>2, Zenon DEF Meant

LEMMA HonestFrames ==
  ASSUME NEW t \in Thread, Len(stack'[t]) \in Nat,
         \A k \in 1..Len(stack'[t]) :
           \E f : f = stack'[t][k] /\ Meant(t, f)' /\ (k # Len(stack'[t]) => f.at = "run")
  PROVE  Honest(t)'
<1>1. SUFFICES ASSUME NEW k \in 1..Len(stack'[t])
               PROVE  Meant(t, stack[t][k])' /\ (k # Len(stack'[t]) => stack'[t][k].at = "run")
  BY DEF Honest
<1>2. PICK f : f = stack'[t][k] /\ Meant(t, f)' /\ (k # Len(stack'[t]) => f.at = "run")
  OBVIOUS
<1>3. QED
  BY <1>2, Zenon DEF Meant, Expected

LEMMA PushHonest ==
  ASSUME NEW t \in Thread, NEW f, Pushed(t, f), Honest(t), stack[t] = <<>> \/ At(t, "run"), Meant(t, f)'
  PROVE  Honest(t)'
<1>1. PICK n \in 0..1 : n = Len(stack[t]) /\ Len(stack'[t]) = n + 1 /\ stack'[t][n + 1] = f
  BY DEF Pushed
<1>2. ASSUME NEW k \in 1..n + 1
      PROVE  \E g : g = stack'[t][k] /\ Meant(t, g)' /\ (k # n + 1 => g.at = "run")
  <2>1. CASE k = n + 1
    BY <1>1, <2>1
  <2>2. CASE k # n + 1
    <3>1. k \in 1..n /\ k = n /\ n = 1
      BY <2>2
    <3>2. PICK e, g : e = stack[t][k] /\ g = stack'[t][k]
      OBVIOUS
    <3>3. Same(g, e) /\ Meant(t, e)
      BY <1>1, <3>1, <3>2 DEF Pushed, Honest
    <3>4. e.at = "run"
      <4>1. stack[t] = <<>> => Len(stack[t]) = 0
        OBVIOUS
      <4>2. stack[t] # <<>>
        BY <1>1, <3>1, <4>1
      <4>3. QED
        BY <1>1, <3>1, <3>2, <4>2 DEF At, Top
    <3>5. Meant(t, g)' /\ g.at = "run"
      BY <3>3, <3>4, RunsOn
    <3>6. QED
      BY <3>2, <3>5
  <2>3. QED
    BY <2>1, <2>2
<1>3. QED
  BY <1>1, <1>2, HonestFrames

LEMMA EditHonest ==
  ASSUME NEW t \in Thread, NEW f, Edited(t, f), Honest(t), Meant(t, f)'
  PROVE  Honest(t)'
<1>1. PICK n \in 1..2 : n = Len(stack[t]) /\ Len(stack'[t]) = n /\ stack'[t][n] = f
  BY DEF Edited
<1>2. ASSUME NEW k \in 1..n
      PROVE  \E g : g = stack'[t][k] /\ Meant(t, g)' /\ (k # n => g.at = "run")
  <2>1. CASE k = n
    BY <1>1, <2>1
  <2>2. CASE k # n
    <3>1. k \in 1..(n - 1)
      BY <2>2
    <3>2. PICK e : e = stack[t][k] /\ e = stack'[t][k]
      BY <1>1, <3>1 DEF Edited
    <3>3. Same(e, e) /\ Meant(t, e) /\ e.at = "run"
      BY <1>1, <2>2, <3>2 DEF Same, Honest
    <3>4. Meant(t, e)' /\ e.at = "run"
      BY <3>3, RunsOn
    <3>5. QED
      BY <3>2, <3>4
  <2>3. QED
    BY <2>1, <2>2
<1>3. QED
  BY <1>1, <1>2, HonestFrames

LEMMA PopHonest ==
  ASSUME NEW t \in Thread, Popped(t), Honest(t)
  PROVE  Honest(t)'
<1>1. PICK n \in 1..2 : n = Len(stack[t]) /\ Len(stack'[t]) = n - 1
  BY DEF Popped
<1>2. ASSUME NEW k \in 1..(n - 1)
      PROVE  \E g : g = stack'[t][k] /\ Meant(t, g)' /\ (k # n - 1 => g.at = "run")
  <2>1. k \in 1..n /\ k # n
    OBVIOUS
  <2>2. PICK e : e = stack[t][k] /\ e = stack'[t][k]
    BY <1>1 DEF Popped
  <2>3. Same(e, e) /\ Meant(t, e) /\ e.at = "run"
    BY <1>1, <2>1, <2>2 DEF Same, Honest
  <2>4. Meant(t, e)' /\ e.at = "run"
    BY <2>3, RunsOn
  <2>5. QED
    BY <2>2, <2>4
<1>3. QED
  BY <1>1, <1>2, HonestFrames

\* The stack stays as it is, with the innermost method running.
LEMMA StayHonest ==
  ASSUME Stacks, NEW t \in Thread, UNCHANGED stack, Honest(t), stack[t] = <<>> \/ At(t, "run")
  PROVE  Honest(t)'
<1>1. PICK n \in 0..2 : n = Len(stack[t]) /\ Len(stack'[t]) = n
  BY StackLength
<1>2. ASSUME NEW k \in 1..n
      PROVE  \E g : g = stack'[t][k] /\ Meant(t, g)' /\ (k # n => g.at = "run")
  <2>1. PICK e : e = stack[t][k] /\ e = stack'[t][k]
    OBVIOUS
  <2>2. stack[t] # <<>>
    <3>1. n # 0
      OBVIOUS
    <3>2. QED
      BY <1>1, <3>1
  <2>3. e.at = "run"
    BY <1>1, <2>1, <2>2 DEF Honest, At, Top
  <2>4. Same(e, e) /\ Meant(t, e)
    BY <1>1, <2>1 DEF Same, Honest
  <2>5. Meant(t, e)' /\ e.at = "run"
    BY <2>3, <2>4, RunsOn
  <2>6. QED
    BY <2>1, <2>5
<1>3. QED
  BY <1>1, <1>2, HonestFrames

\* What t writes is none of the others' business.
LEMMA ReadKeeps ==
  ASSUME ReadInv, NEW t \in Thread, Wrote(t), OtherStacks(t), Honest(t)'
  PROVE  ReadInv'
<1>1. Faithful' /\ \A r \in Res : User[r] # t => last'[r] = last[r]
  BY WroteKeeps DEF ReadInv
<1>2. ASSUME NEW u \in Thread, u # t PROVE Honest(u)'
  <2>1. stack'[u] = stack[u] /\ Honest(u)
    BY <1>2 DEF OtherStacks, ReadInv
  <2>2. ASSUME NEW f, Meant(u, f) PROVE Meant(u, f)'
    <3>1. last'[f.c.r] = last[f.c.r]
      BY <1>1, <1>2, <2>2 DEF Meant
    <3>2. Expected(f.c)' = Expected(f.c)
      BY <3>1, Zenon DEF Expected
    <3>3. QED
      BY <2>2, <3>2, Zenon DEF Meant
  <2>3. ASSUME NEW k \in 1..Len(stack[u]) PROVE Meant(u, stack[u][k])'
    <3>1. PICK f : f = stack[u][k] /\ f = stack'[u][k]
      BY <2>1
    <3>2. Meant(u, f)
      BY <2>1, <3>1 DEF Honest
    <3>3. Meant(u, f)'
      BY <2>2, <3>2
    <3>4. QED
      BY <3>1, <3>3, Zenon DEF Meant, Expected
  <2>4. QED
    BY <2>1, <2>3 DEF Honest
<1>3. QED
  BY <1>1, <1>2 DEF ReadInv
LEMMA BlankReads ==
  store = NoStore /\ last = NoStore /\ stack = Idle => ReadInv
<1> SUFFICES ASSUME store = NoStore, last = NoStore, stack = Idle PROVE ReadInv
  OBVIOUS
<1>1. \A r \in Res, a \in Attr : store[r][a] = Nothing /\ last[r][a] = Nothing
  BY DEF NoStore
<1>2. DOMAIN Nothing = {}
  BY DEF Nothing
<1>3. \A r \in Res, a \in Attr : Reads(r, a, store[r][a], last[r][a])
  BY <1>1, <1>2 DEF Reads
<1>4. store = [r \in Res |-> [a \in Attr |-> store[r][a]]] /\ last = [r \in Res |-> [a \in Attr |-> last[r][a]]]
  BY DEF NoStore
<1>5. ASSUME NEW t \in Thread PROVE Honest(t)
  <2>1. stack[t] = <<>> /\ 1..Len(stack[t]) = {}
    BY DEF Idle
  <2>2. QED
    BY <2>1, Zenon DEF Honest
<1>6. QED
  BY <1>3, <1>4, <1>5 DEF ReadInv, Faithful

LEMMA CrashReads == ASSUME Crash PROVE ReadInv'
<1>1. store' = NoStore /\ last' = NoStore /\ stack' = Idle
  BY DEF Crash
<1>2. (store = NoStore /\ last = NoStore /\ stack = Idle => ReadInv)'
  BY BlankReads, PTL
<1>3. QED
  BY <1>1, <1>2

LEMMA FrameRest ==
  ASSUME NEW c, Fitting(c), NEW at, NEW res
  PROVE  Frame(c, at, res).res = res /\ Frame(c, at, res).c.v = c.v
<1>1. PICK W : c \in Request(W)
  BY DEF Fitting
<1>2. PICK d : d = [c EXCEPT !.by = "ai"]
  OBVIOUS
<1>3. d.v = c.v
  BY <1>1, <1>2 DEF Request
<1>4. Frame(c, at, res) = [c |-> d, at |-> at, old |-> NoContext, res |-> res, nested |-> FALSE]
  BY <1>2 DEF Frame
<1>5. QED
  BY <1>3, <1>4

\* A new call that is answered, waits or runs.
LEMMA FrameReads ==
  ASSUME GuardInv, ReadInv, NEW t \in Thread, Len(stack[t]) <= 1, stack[t] = <<>> \/ At(t, "run"),
         NEW c, Fitting(c), User[c.r] = t, NEW at \in {"wait", "run", "answer"}, NEW res,
         Push(t, Frame(c, at, res)), UNCHANGED <<store, last>>,
         at # "answer" => c.a # NoAttr,
         at = "answer" /\ c.a # NoAttr /\ c.op \in Getting => res = Expected(c)
  PROVE  ReadInv'
<1>1. PICK f : f = Frame(c, at, res)
  OBVIOUS
<1>2. /\ Pushed(t, f)
      /\ f.at = at /\ f.c.op = c.op /\ f.c.r = c.r /\ f.c.a = c.a /\ f.c.i = c.i
  BY <1>1, GuardParts, FramePushed
<1>3. f.res = res /\ f.c.v = c.v
  BY <1>1, FrameRest
<1>4. Expected(f.c)' = Expected(c)
  BY <1>2 DEF Expected
<1>5. c.r \in Res
  BY DEF Fitting, Request
<1>6. Meant(t, f)'
  BY <1>2, <1>3, <1>4, <1>5 DEF Meant, Fitting
<1>7. Honest(t)'
  BY <1>2, <1>6, PushHonest DEF ReadInv
<1>8. Wrote(t) /\ OtherStacks(t)
  BY <1>2 DEF Wrote, Pushed
<1>9. QED
  BY <1>7, <1>8, ReadKeeps

LEMMA OutcomeReads ==
  ASSUME GuardInv, ReadInv, NEW t \in Thread, Len(stack[t]) <= 1, stack[t] = <<>> \/ At(t, "run"),
         NEW c, Fitting(c), User[c.r] = t, Outcome(t, c)
  PROVE  ReadInv'
<1>1. c.r \in Res /\ (c.a # NoAttr => c.a \in Attr)
  BY DEF Fitting, Request
<1>2. CASE Crash
  BY <1>2, CrashReads
<1>3. ASSUME NEW res, Answer(t, c, res), Got(c, res) PROVE ReadInv'
  <2>1. Push(t, Frame(c, "answer", res)) /\ UNCHANGED <<store, last>>
    BY <1>3 DEF Answer
  <2>2. ASSUME c.a # NoAttr, c.op \in Getting PROVE res = Expected(c)
    <3>1. c.r \in Compiled /\ res = Value(store[c.r][c.a], IF c.op = "get" THEN NoIndex ELSE c.i, Kind[c.a])
      BY <1>3, <2>2 DEF Got
    <3>2. c.op = "get" => c.i = NoIndex
      BY <2>2 DEF Fitting
    <3>3. res = Value(store[c.r][c.a], c.i, Kind[c.a])
      BY <3>1, <3>2
    <3>4. QED
      BY <1>1, <2>2, <3>1, <3>3, Fetched DEF ReadInv
  <2>3. QED
    BY <2>1, <2>2, FrameReads
<1>4. ASSUME Void, Wrote(t) PROVE ReadInv'
  <2>1. UNCHANGED stack
    BY <1>4 DEF Void
  <2>2. Honest(t)'
    BY <2>1, GuardParts, StayHonest DEF ReadInv
  <2>3. OtherStacks(t)
    BY <2>1 DEF OtherStacks
  <2>4. QED
    BY <1>4, <2>2, <2>3, ReadKeeps
<1>5. CASE c.a # NoAttr /\ c.op \in Setting /\ c.r \in Compiled /\ Store(c)
  <2>1. PICK r, a, i, v : r = c.r /\ a = c.a /\ i = c.i /\ v = c.v
    OBVIOUS
  <2>2. /\ Void /\ store' = [store EXCEPT ![r][a] = Put(@, i, v)]
        /\ last' = [last EXCEPT ![r][a] = Put(@, i, v)]
    BY <1>5, <2>1 DEF Store
  <2>3. r \in Res /\ a \in Attr /\ User[r] = t /\ r \notin Perl
    BY <1>1, <1>5, <2>1, AttributesAssumption
  <2>4. Read(r, Kind[a], v) = Seen(r, Kind[a], v)
    BY <2>3 DEF Read, Seen
  <2>5. Wrote(t)
    BY <2>2, <2>3, <2>4 DEF Wrote
  <2>6. QED
    BY <1>4, <2>2, <2>5
<1>6. ASSUME c.a # NoAttr, NEW I, Remove(c, I) PROVE ReadInv'
  <2>1. PICK r, a : r = c.r /\ a = c.a
    OBVIOUS
  <2>2. /\ Void /\ store' = [store EXCEPT ![r][a] = Drop(@, I)]
        /\ last' = [last EXCEPT ![r][a] = Drop(@, I)]
    BY <1>6, <2>1 DEF Remove
  <2>3. r \in Res /\ a \in Attr /\ User[r] = t
    BY <1>1, <1>6, <2>1
  <2>4. Wrote(t)
    BY <2>2, <2>3 DEF Wrote
  <2>5. QED
    BY <1>4, <2>2, <2>4
<1>7. CASE c.a # NoAttr /\ Enter(t, c)
  <2>1. Push(t, Frame(c, "wait", 0)) /\ UNCHANGED <<store, last>>
    BY <1>7 DEF Enter
  <2>2. QED
    BY <1>7, <2>1, FrameReads
<1>8. CASE c.a # NoAttr /\ EnterUnlocked(t, c)
  <2>1. CASE Crash
    BY <2>1, CrashReads
  <2>2. CASE Push(t, Frame(c, "run", 0)) /\ UNCHANGED <<store, last>>
    BY <1>8, <2>2, FrameReads
  <2>3. QED
    BY <1>8, <2>1, <2>2 DEF EnterUnlocked
<1>9. QED
  BY <1>2, <1>3, <1>5, <1>6, <1>7, <1>8 DEF Outcome

LEMMA CallReads ==
  ASSUME GuardInv, ReadInv, NEW t \in Thread, NEW c, Fitting(c), User[c.r] = t, Call(t, c)
  PROVE  ReadInv'
<1>1. stack[t] = <<>> \/ At(t, "run")
  BY DEF Call, MayNest
<1>2. PICK d : Fitting(d) /\ d.r = c.r /\ Outcome(t, d)
  BY CallOutcome
<1>3. QED
  BY <1>1, <1>2, CallDepth, OutcomeReads
\* The innermost call of t is one it may make.
LEMMA TopMeant ==
  ASSUME GuardInv, ReadInv, NEW t \in Thread, stack[t] # <<>>
  PROVE  Meant(t, Top(t))
<1>1. PICK n \in 1..2 : n = Len(stack[t])
  BY GuardParts, StackLength
<1>2. n \in 1..n
  BY Span
<1>3. Top(t) = stack[t][n] /\ n \in 1..Len(stack[t])
  BY <1>1, <1>2 DEF Top
<1>4. Honest(t)
  BY DEF ReadInv
<1>5. QED
  BY <1>3, <1>4 DEF Honest

\* An accessor that ends answers what is expected, if it is a getter.
LEMMA LeaveReads ==
  ASSUME GuardInv, ReadInv, NEW t \in Thread, At(t, "run"), NEW res, Leave(t, res), Wrote(t),
         Top(t).c.op \in Getting => UNCHANGED last /\ res = Expected(Top(t).c)
  PROVE  ReadInv'
<1>1. stack[t] # <<>> /\ Top(t).at = "run"
  BY DEF At
<1>2. Meant(t, Top(t))
  BY <1>1, TopMeant
<1>3. CASE stack' = [stack EXCEPT ![t] = Pop(t)]
  <2>1. Popped(t)
    BY <1>1, <1>3, PopIs, GuardParts
  <2>2. Honest(t)' /\ OtherStacks(t)
    BY <2>1, PopHonest DEF ReadInv, Popped
  <2>3. QED
    BY <2>2, ReadKeeps
<1>4. CASE /\ Top(t).c.op \in {"get", "getArray", "getHash", "count"}
           /\ SetTop(t, [Top(t) EXCEPT !.at = "answer", !.res = res])
  <2>1. PICK V : Framed(V) /\ Top(t) \in Entry(V)
    BY <1>1, TopIs
  <2>2. PICK e, f : e = Top(t) /\ f = [e EXCEPT !.at = "answer", !.res = res]
    OBVIOUS
  <2>3. PICK W : W = V \cup {res}
    OBVIOUS
  <2>4. Framed(W)
    BY <2>1, <2>3, Widen
  <2>5. Request(V) \subseteq Request(W)
    BY <2>3 DEF Request
  <2>6. f \in Entry(W) /\ f.at = "answer" /\ f.res = res /\ f.c = e.c
    BY <2>1, <2>2, <2>3, <2>5 DEF Entry
  <2>7. Edited(t, f)
    BY <1>1, <1>4, <2>2, <2>4, <2>6, EditIs DEF GuardInv, Stacks
  <2>8. e.c.op \in Getting => Expected(f.c)' = res
    BY <2>2, <2>6 DEF Expected
  <2>9. Meant(t, f)'
    BY <1>2, <1>4, <2>2, <2>6, <2>8 DEF Meant
  <2>10. Honest(t)' /\ OtherStacks(t)
    BY <2>7, <2>9, EditHonest DEF ReadInv, Edited
  <2>11. QED
    BY <2>10, ReadKeeps
<1>5. QED
  BY <1>3, <1>4 DEF Leave

LEMMA ReturnReads ==
  ASSUME GuardInv, ReadInv, NEW t \in Thread, Return(t)
  PROVE  ReadInv'
<1>1. Popped(t)
  BY PopIs, GuardParts DEF Return, At
<1>2. Honest(t)' /\ OtherStacks(t)
  BY <1>1, PopHonest DEF ReadInv, Popped
<1>3. Wrote(t)
  BY DEF Return, Wrote
<1>4. QED
  BY <1>2, <1>3, ReadKeeps

LEMMA PerlLockReads ==
  ASSUME GuardInv, ReadInv, NEW t \in Thread, PerlLock(t)
  PROVE  ReadInv'
<1>1. /\ stack[t] # <<>> /\ Top(t).at = "wait"
      /\ SetTop(t, [Top(t) EXCEPT !.at = "run", !.old = ctx[t]])
      /\ UNCHANGED <<store, last>>
  BY DEF PerlLock, At
<1>2. PICK V : Framed(V) /\ Top(t) \in Entry(V)
  BY <1>1, TopIs
<1>3. PICK e, f : e = Top(t) /\ f = [e EXCEPT !.at = "run", !.old = ctx[t]]
  OBVIOUS
<1>4. PICK W : W = V \cup {ctx[t]}
  OBVIOUS
<1>5. Framed(W)
  BY <1>2, <1>4, Widen
<1>6. Request(V) \subseteq Request(W)
  BY <1>4 DEF Request
<1>7. f \in Entry(W) /\ f.at = "run" /\ f.c = e.c
  BY <1>2, <1>3, <1>4, <1>6 DEF Entry
<1>8. Edited(t, f)
  BY <1>1, <1>3, <1>5, <1>7, EditIs DEF GuardInv, Stacks
<1>9. Meant(t, e)
  BY <1>1, <1>3, TopMeant
<1>10. Meant(t, f)'
  BY <1>1, <1>3, <1>7, <1>9 DEF Meant
<1>11. Honest(t)' /\ OtherStacks(t)
  BY <1>8, <1>10, EditHonest DEF ReadInv, Edited
<1>12. Wrote(t)
  BY <1>1 DEF Wrote
<1>13. QED
  BY <1>11, <1>12, ReadKeeps

LEMMA GettersRead ==
  ASSUME GuardInv, ReadInv, NEW t \in Thread,
         \/ PerlGet(t) \/ PerlGetArray(t) \/ PerlGetHash(t)
         \/ PerlCount(t) \/ PerlKeys(t) \/ PerlValues(t)
  PROVE  ReadInv'
<1>1. At(t, "run") /\ stack[t] # <<>> /\ Top(t).at = "run"
  BY DEF PerlGet, PerlGetArray, PerlGetHash, PerlCount, PerlKeys, PerlValues, Running, At
<1>2. PICK c : c = Top(t).c
  OBVIOUS
<1>3. c.r \in Perl /\ c.a \in Attr /\ c.r \in Res
  BY <1>1, <1>2, TopIs DEF Proper, Res
<1>4. Meant(t, Top(t)) /\ c.a # NoAttr
  BY <1>1, <1>3, TopMeant, AttributesAssumption
<1>5. FromSv(Kind[c.a], Scalar(store[c.r][c.a], c.i)) = Expected(c)
  BY <1>3, Fetched DEF ReadInv
<1>6. ASSUME NEW sv, NEW res, Fetch(t, sv, res),
             c.op \in Getting => sv.ok = "NULL" \/ res = Expected(c)
      PROVE  ReadInv'
  <2>1. CASE sv.ok = "NULL"
    BY <1>6, <2>1, CrashReads DEF Fetch
  <2>2. CASE sv.ok # "NULL"
    <3>1. Leave(t, res) /\ UNCHANGED <<store, last>>
      BY <1>6, <2>2 DEF Fetch, PerlUnlock
    <3>2. Wrote(t)
      BY <3>1 DEF Wrote
    <3>3. Top(t).c.op \in Getting => UNCHANGED last /\ res = Expected(Top(t).c)
      BY <1>2, <1>6, <2>2, <3>1
    <3>4. QED
      BY <1>1, <3>1, <3>2, <3>3, LeaveReads
  <2>3. QED
    BY <2>1, <2>2
<1>7. CASE PerlGet(t)
  <2>1. PICK sv : sv = GetValue(c, "Get")
    OBVIOUS
  <2>2. c.op = "get" /\ Fetch(t, sv, FromSv(Kind[c.a], sv))
    BY <1>2, <1>7, <2>1 DEF PerlGet, Running
  <2>3. c.i = NoIndex
    BY <1>2, <1>4, <2>2 DEF Meant, Getting
  <2>4. sv.ok = "NULL" \/ sv = Scalar(store[c.r][c.a], c.i)
    BY <2>1, <2>3 DEF GetValue, NULL, Sv
  <2>5. QED
    BY <1>5, <1>6, <2>2, <2>4
<1>8. CASE PerlGetArray(t)
  <2>1. PICK sv : sv = GetArrayValue(c)
    OBVIOUS
  <2>2. Fetch(t, sv, FromSv(Kind[c.a], sv))
    BY <1>2, <1>8, <2>1 DEF PerlGetArray
  <2>3. sv.ok = "NULL" \/ sv = Scalar(store[c.r][c.a], c.i)
    BY <2>1 DEF GetArrayValue, NULL, Sv
  <2>4. QED
    BY <1>5, <1>6, <2>2, <2>3
<1>9. CASE PerlGetHash(t)
  <2>1. PICK sv : sv = GetHashValue(c)
    OBVIOUS
  <2>2. Fetch(t, sv, FromSv(Kind[c.a], sv))
    BY <1>2, <1>9, <2>1 DEF PerlGetHash
  <2>3. sv.ok = "NULL" \/ sv = Scalar(store[c.r][c.a], c.i)
    BY <2>1 DEF GetHashValue, NULL, Sv
  <2>4. QED
    BY <1>5, <1>6, <2>2, <2>3
<1>10. CASE PerlCount(t) \/ PerlKeys(t) \/ PerlValues(t)
  <2>1. c.op \notin Getting /\ \E sv, res : Fetch(t, sv, res)
    BY <1>2, <1>10 DEF PerlCount, PerlKeys, PerlValues, Running, Getting
  <2>2. QED
    BY <1>6, <2>1
<1>11. QED
  BY <1>7, <1>8, <1>9, <1>10

\* What a setter stores reads as its argument.
LEMMA SetWrites ==
  ASSUME GuardInv, ReadInv, NEW t \in Thread, At(t, "run"), Top(t).c.op \in Setting, NEW sv, SetScalar(Top(t).c, sv),
         Read(Top(t).c.r, Kind[Top(t).c.a], sv) = Seen(Top(t).c.r, Kind[Top(t).c.a], Top(t).c.v)
  PROVE  Wrote(t)
<1>1. stack[t] # <<>> /\ Top(t).at = "run"
  BY DEF At
<1>2. PICK r, a, i, v : r = Top(t).c.r /\ a = Top(t).c.a /\ i = Top(t).c.i /\ v = Top(t).c.v
  OBVIOUS
<1>3. r \in Res /\ a \in Attr /\ User[r] = t
  BY <1>1, <1>2, TopIs, TopMeant DEF Proper, Meant
<1>4. CASE /\ store' = [store EXCEPT ![r][a] = Put(@, i, sv)]
           /\ last' = [last EXCEPT ![r][a] = Put(@, i, v)]
  BY <1>2, <1>3, <1>4 DEF Wrote
<1>5. CASE UNCHANGED <<store, last>>
  BY <1>5 DEF Wrote
<1>6. QED
  BY <1>2, <1>4, <1>5 DEF SetScalar

LEMMA SettersRead ==
  ASSUME GuardInv, ReadInv, NEW t \in Thread,
         PerlSet(t) \/ PerlSetArray(t) \/ PerlSetHash(t) \/ PerlSetIpAddr(t)
  PROVE  ReadInv'
<1>1. At(t, "run") /\ Top(t).c.op \in Setting
  BY DEF PerlSet, PerlSetArray, PerlSetHash, PerlSetIpAddr, Running, Setting
<1>2. stack[t] # <<>> /\ Top(t).at = "run" /\ Top(t).c.op \notin Getting
  BY <1>1 DEF At, Setting, Getting
<1>3. PICK c : c = Top(t).c
  OBVIOUS
<1>4. c.r \in Perl /\ c.a \in Attr /\ c.v \in Values(Kind[c.a])
  BY <1>1, <1>2, <1>3, TopIs, TopMeant DEF Proper, Meant
<1>5. PICK k \in Kinds : k = Kind[c.a]
  BY <1>4, AttributesAssumption
<1>6. ASSUME NEW sv, SetScalar(c, sv), Leave(t, 0), Read(c.r, k, sv) = Seen(c.r, k, c.v)
      PROVE  ReadInv'
  <2>1. Wrote(t)
    BY <1>1, <1>3, <1>5, <1>6, SetWrites
  <2>2. QED
    BY <1>1, <1>2, <1>6, <2>1, LeaveReads
<1>7. CASE PerlSet(t)
  <2>1. PICK sv : sv = ToSv(k, IF k = "string" THEN Cut(c.v) ELSE c.v)
    OBVIOUS
  <2>2. k # "ip" /\ SetScalar(c, sv) /\ Leave(t, 0)
    BY <1>3, <1>5, <1>7, <2>1 DEF PerlSet, SetValue, PerlUnlock
  <2>3. Read(c.r, k, sv) = Seen(c.r, k, c.v)
    BY <1>4, <1>5, <2>1, <2>2, SvKeeps
  <2>4. QED
    BY <1>6, <2>2, <2>3
<1>8. CASE PerlSetArray(t) \/ PerlSetHash(t)
  <2>1. PICK sv : sv = ToSv(k, c.v)
    OBVIOUS
  <2>2. k # "ip" /\ SetScalar(c, sv) /\ Leave(t, 0)
    BY <1>3, <1>5, <1>8, <2>1 DEF PerlSetArray, PerlSetHash, SetArrayValue, SetHashValue, PerlUnlock
  <2>3. Read(c.r, k, sv) = Seen(c.r, k, c.v)
    BY <1>4, <1>5, <2>1, <2>2, SvKeeps
  <2>4. QED
    BY <1>6, <2>2, <2>3
<1>9. CASE PerlSetIpAddr(t)
  <2>1. k = "ip"
    BY <1>3, <1>5, <1>9 DEF PerlSetIpAddr
  <2>2. CASE SetScalar(c, Sv("ROK", c.v)) /\ PerlUnlock(t, 0)
    <3>1. Read(c.r, k, Sv("ROK", c.v)) = Seen(c.r, k, c.v)
      BY <1>4, <1>5, <2>1, SvKeeps
    <3>2. QED
      BY <1>6, <2>2, <3>1 DEF PerlUnlock
  <2>3. CASE Leave(t, 0) /\ UNCHANGED <<store, last>>
    <3>1. Wrote(t)
      BY <2>3 DEF Wrote
    <3>2. QED
      BY <1>1, <1>2, <2>3, <3>1, LeaveReads
  <2>4. QED
    BY <1>3, <1>9, <2>2, <2>3 DEF PerlSetIpAddr
<1>10. QED
  BY <1>7, <1>8, <1>9

LEMMA ClearReads ==
  ASSUME GuardInv, ReadInv, NEW t \in Thread, PerlClear(t) \/ PerlDeleteItem(t)
  PROVE  ReadInv'
<1>1. /\ stack[t] # <<>> /\ Top(t).at = "run" /\ At(t, "run") /\ Top(t).c.op \in {"clear", "delete"}
  BY DEF PerlClear, PerlDeleteItem, Running, At
<1>2. Top(t).c.op \notin Getting
  BY <1>1 DEF Getting
<1>3. CASE Crash
  BY <1>3, CrashReads
<1>4. PICK r, a : r = Top(t).c.r /\ a = Top(t).c.a
  OBVIOUS
<1>5. r \in Res /\ a \in Attr /\ User[r] = t
  BY <1>1, <1>4, TopIs, TopMeant DEF Proper, Meant
<1>6. ASSUME Leave(t, 0),
             \/ store' = [store EXCEPT ![r][a] = Nothing] /\ last' = [last EXCEPT ![r][a] = Nothing]
             \/ UNCHANGED <<store, last>>
      PROVE  ReadInv'
  <2>1. Wrote(t)
    BY <1>5, <1>6 DEF Wrote
  <2>2. QED
    BY <1>1, <1>2, <1>6, <2>1, LeaveReads
<1>7. CASE PerlClear(t)
  BY <1>3, <1>4, <1>6, <1>7 DEF PerlClear
<1>8. CASE PerlDeleteItem(t)
  BY <1>3, <1>6, <1>8 DEF PerlDeleteItem
<1>9. QED
  BY <1>7, <1>8

LEMMA ReadNext == GuardInv /\ ReadInv /\ [Next]_vars => ReadInv'
<1> SUFFICES ASSUME GuardInv, ReadInv, [Next]_vars PROVE ReadInv'
  OBVIOUS
<1>1. CASE UNCHANGED vars
  <2>1. UNCHANGED <<store, last, stack>>
    BY <1>1 DEF vars
  <2>2. Faithful'
    BY <2>1 DEF ReadInv, Faithful
  <2>3. ASSUME NEW u \in Thread PROVE Honest(u)'
    <3>1. ASSUME NEW k \in 1..Len(stack[u]) PROVE Meant(u, stack[u][k])'
      <4>1. PICK f : f = stack[u][k] /\ f = stack'[u][k]
        BY <2>1
      <4>2. Meant(u, f)
        BY <4>1 DEF ReadInv, Honest
      <4>3. Expected(f.c)' = Expected(f.c)
        BY <2>1, Zenon DEF Expected
      <4>4. Meant(u, f)'
        BY <4>2, <4>3, Zenon DEF Meant
      <4>5. QED
        BY <4>1, <4>4, Zenon DEF Meant, Expected
    <3>2. QED
      BY <2>1, <3>1 DEF ReadInv, Honest
  <2>4. QED
    BY <2>2, <2>3 DEF ReadInv
<1>2. ASSUME NEW t \in Thread, NEW r \in Res, User[r] = t, NEW c \in Calls(r), Call(t, c)
      PROVE  ReadInv'
  <2>1. Fitting(c) /\ c.r = r
    BY CallsFit, GuardParts
  <2>2. QED
    BY <1>2, <2>1, CallReads
<1>3. ASSUME NEW t \in Thread, MethodStep(t)
      PROVE  ReadInv'
  BY <1>3, SettersRead, ClearReads, GettersRead DEF MethodStep
<1>4. ASSUME NEW t \in Thread, PerlLock(t) \/ Return(t)
      PROVE  ReadInv'
  BY <1>4, PerlLockReads, ReturnReads
<1>5. QED
  BY <1>1, <1>2, <1>3, <1>4 DEF Next, Step

LEMMA ReadMeans == GuardInv /\ ReadInv => ReadYourWrites
<1> SUFFICES ASSUME GuardInv, ReadInv, NEW t \in Thread, At(t, "answer"), Top(t).c.a # NoAttr,
                    Top(t).c.op \in {"get", "getArray", "getHash"}
             PROVE  Top(t).res = Expected(Top(t).c)
  BY DEF ReadYourWrites
<1>1. stack[t] # <<>> /\ Top(t).at = "answer"
  BY DEF At
<1>2. QED
  BY <1>1, TopMeant DEF Meant, Getting

(***************************************************************************)
(* A getter returns what the last setter for the same resource, attribute  *)
(* and index was given, whichever thread or method asks and whatever other *)
(* calls are in progress: through the slots of the tables, the conversion  *)
(* to long and back at any two widths, the Perl scalar and nested calls.   *)
(* A Perl resource cuts a string at its first NUL and never gives an       *)
(* IpAddr back.                                                            *)
(***************************************************************************)
THEOREM Written == Spec => []ReadYourWrites
<1>1. Init => GuardInv /\ ReadInv
  BY BlankIsGuarded, BlankReads DEF Init
<1>2. QED
  BY <1>1, GuardNext, ReadNext, ReadMeans, PTL DEF Spec
=============================================================================
