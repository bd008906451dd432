------------------------- MODULE ScriptModulesProofs -------------------------
(***************************************************************************)
(* Proofs about the modules written in Perl and in Python, for any number  *)
(* of threads, modules and resources, calls nested to any depth and any    *)
(* configuration.                                                          *)
(***************************************************************************)
EXTENDS ScriptModules, FiniteSetTheorems, TLAPS

(***************************************************************************)
(* The calls a thread is in.                                               *)
(***************************************************************************)
Op == MayRead \cup {"SetProperty", "Notify"} \cup Kind
Pc == {"lock", "upgrade", "relock", "enter", "script", "yield"}
Stuff == Resource \cup {NoOne}
Call == [m : Module, op : Op, pc : Pc, nested : BOOLEAN, args : SUBSET Stuff]

ObjectLock == [w : Thread \cup {NoOne}, r : SUBSET Thread]

Framed ==
  /\ scene \in Scenes
  /\ stack \in [Thread -> Seq(Call)]
  /\ lock \in [Module -> ObjectLock]

\* Only the stack of t changes.
OtherStacks(t) == stack' \in [Thread -> Seq(Call)] /\ \A u \in Thread \ {t} : stack'[u] = stack[u]

\* A call f begins, ...
Pushed(t, f) ==
  /\ OtherStacks(t) /\ f \in Call
  /\ Len(stack'[t]) = Len(stack[t]) + 1
  /\ stack'[t][1] = f
  /\ \A i \in 1..Len(stack[t]) : stack'[t][i + 1] = stack[t][i]

\* ... goes on as f, ...
Edited(t, f) ==
  /\ OtherStacks(t) /\ f \in Call
  /\ stack[t] # <<>> /\ Len(stack'[t]) = Len(stack[t])
  /\ stack'[t][1] = f /\ f.m = stack[t][1].m /\ f.op = stack[t][1].op
  /\ \A i \in 2..Len(stack[t]) : stack'[t][i] = stack[t][i]

\* ... and ends.
Popped(t) ==
  /\ OtherStacks(t)
  /\ stack[t] # <<>> /\ Len(stack'[t]) = Len(stack[t]) - 1
  /\ \A i \in 1..Len(stack[t]) - 1 : stack'[t][i] = stack[t][i + 1]

LEMMA TopCall ==
  ASSUME Framed, NEW t \in Thread, Busy(t)
  PROVE  /\ Top(t) = stack[t][1] /\ Top(t) \in Call /\ Top(t).m \in Module /\ Top(t).op \in Op
         /\ Len(stack[t]) \in Nat \ {0} /\ 1 \in 1..Len(stack[t])
<1>1. stack[t] \in Seq(Call) /\ stack[t] # <<>>
  BY DEF Framed, Busy
<1>2. Top(t) = stack[t][1] /\ Top(t) \in Call /\ Len(stack[t]) \in Nat \ {0}
  BY <1>1 DEF Top
<1>3. QED
  BY <1>2 DEF Call

LEMMA Push ==
  ASSUME Framed, NEW t \in Thread, NEW f \in Call,
         \/ stack' = [stack EXCEPT ![t] = <<f>> \o @]
         \/ stack[t] = <<>> /\ stack' = [stack EXCEPT ![t] = <<f>>]
  PROVE  Pushed(t, f)
<1>1. stack[t] \in Seq(Call) /\ stack \in [Thread -> Seq(Call)] /\ Len(stack[t]) \in Nat
  BY DEF Framed
<1>2. PICK s \in Seq(Call) : s = stack[t]
  BY <1>1
<1>3. PICK z \in Seq(Call) : /\ stack' = [stack EXCEPT ![t] = z]
                             /\ Len(z) = Len(s) + 1 /\ z[1] = f
                             /\ \A i \in 1..Len(s) : z[i + 1] = s[i]
  <2>1. CASE stack' = [stack EXCEPT ![t] = <<f>> \o @]
    <3>1. <<f>> \o s \in Seq(Call) /\ Len(<<f>> \o s) = Len(s) + 1 /\ (<<f>> \o s)[1] = f
      BY <1>2
    <3>2. \A i \in 1..Len(s) : (<<f>> \o s)[i + 1] = s[i]
      BY <1>2
    <3>3. QED
      BY <1>2, <2>1, <3>1, <3>2
  <2>2. CASE stack[t] = <<>> /\ stack' = [stack EXCEPT ![t] = <<f>>]
    <3>1. <<f>> \in Seq(Call) /\ Len(<<f>>) = Len(s) + 1 /\ <<f>>[1] = f /\ Len(s) = 0
      BY <1>2, <2>2
    <3>2. \A i \in 1..Len(s) : <<f>>[i + 1] = s[i]
      <4>1. 1..Len(s) = {}
        BY <3>1
      <4>2. QED
        BY <4>1, Zenon
    <3>3. WITNESS <<f>> \in Seq(Call)
    <3>4. QED
      BY <2>2, <3>1, <3>2
  <2>3. QED
    BY <2>1, <2>2
<1>4. stack' \in [Thread -> Seq(Call)] /\ stack'[t] = z /\ \A u \in Thread \ {t} : stack'[u] = stack[u]
  BY <1>1, <1>3
<1>5. QED
  BY <1>2, <1>3, <1>4 DEF Pushed, OtherStacks

LEMMA Edit ==
  ASSUME Framed, NEW t \in Thread, Busy(t), NEW f \in Call, f.m = Top(t).m, f.op = Top(t).op,
         stack' = [stack EXCEPT ![t] = [stack[t] EXCEPT ![1] = f]]
  PROVE  Edited(t, f)
<1>1. stack[t] \in Seq(Call) /\ stack \in [Thread -> Seq(Call)] /\ stack[t] # <<>>
  BY DEF Framed, Busy
<1>2. PICK s \in Seq(Call) : s = stack[t]
  BY <1>1
<1>3. PICK z \in Seq(Call) : /\ stack' = [stack EXCEPT ![t] = z]
                             /\ Len(z) = Len(s) /\ z[1] = f
                             /\ \A i \in 2..Len(s) : z[i] = s[i]
  <2>1. [s EXCEPT ![1] = f] \in Seq(Call) /\ Len([s EXCEPT ![1] = f]) = Len(s)
        /\ [s EXCEPT ![1] = f][1] = f
    BY <1>1, <1>2
  <2>2. \A i \in 2..Len(s) : [s EXCEPT ![1] = f][i] = s[i]
    BY <1>2
  <2>3. QED
    BY <1>2, <2>1, <2>2
<1>4. stack' \in [Thread -> Seq(Call)] /\ stack'[t] = z /\ \A u \in Thread \ {t} : stack'[u] = stack[u]
  BY <1>1, <1>3
<1>5. QED
  BY <1>1, <1>2, <1>3, <1>4, TopCall DEF Edited, OtherStacks

LEMMA EditPc ==
  ASSUME Framed, NEW t \in Thread, Busy(t), NEW pc \in Pc, SetPc(t, pc)
  PROVE  \E f \in Call : Edited(t, f) /\ f.pc = pc /\ f.args = Top(t).args
<1>1. PICK k \in Call : k = Top(t) /\ k = stack[t][1]
  BY TopCall
<1>2. PICK f \in Call : /\ f = [k EXCEPT !.pc = pc]
                        /\ f.m = k.m /\ f.op = k.op /\ f.pc = pc /\ f.args = k.args
  <2>1. [k EXCEPT !.pc = pc] \in Call
    BY DEF Call
  <2>2. QED
    BY <2>1 DEF Call
<1>3. stack \in [Thread -> Seq(Call)] /\ 1 \in DOMAIN stack[t]
  BY TopCall DEF Framed
<1>4. stack' = [stack EXCEPT ![t] = [stack[t] EXCEPT ![1] = f]]
  BY <1>1, <1>2, <1>3 DEF SetPc
<1>5. QED
  BY <1>1, <1>2, <1>4, Edit

LEMMA EditWrap ==
  ASSUME Framed, NEW t \in Thread, Busy(t), NEW res \in SUBSET Stuff, Wrap(t, res)
  PROVE  \E f \in Call : Edited(t, f) /\ f.pc = "script" /\ f.args = res
<1>1. PICK k \in Call : k = Top(t) /\ k = stack[t][1]
  BY TopCall
<1>2. PICK f \in Call : /\ f = [k EXCEPT !.pc = "script", !.args = res]
                        /\ f.m = k.m /\ f.op = k.op /\ f.pc = "script" /\ f.args = res
  <2>1. [k EXCEPT !.pc = "script", !.args = res] \in Call
    BY DEF Call, Pc
  <2>2. QED
    BY <2>1 DEF Call
<1>3. stack \in [Thread -> Seq(Call)] /\ 1 \in DOMAIN stack[t]
  BY TopCall DEF Framed
<1>4. stack' = [stack EXCEPT ![t] = [stack[t] EXCEPT ![1] = f]]
  BY <1>1, <1>2, <1>3 DEF Wrap
<1>5. QED
  BY <1>1, <1>2, <1>4, Edit

WrapPython(t, res, b) ==
  stack' = [stack EXCEPT ![t][1].pc = "script", ![t][1].args = res, ![t][1].nested = b]

LEMMA EditPython ==
  ASSUME Framed, NEW t \in Thread, Busy(t), NEW res \in SUBSET Stuff, NEW b \in BOOLEAN,
         WrapPython(t, res, b)
  PROVE  \E f \in Call : Edited(t, f) /\ f.pc = "script" /\ f.args = res
<1>1. PICK k \in Call : k = Top(t) /\ k = stack[t][1]
  BY TopCall
<1>2. PICK f \in Call : /\ f = [k EXCEPT !.pc = "script", !.args = res, !.nested = b]
                        /\ f.m = k.m /\ f.op = k.op /\ f.pc = "script" /\ f.args = res
  <2>1. [k EXCEPT !.pc = "script", !.args = res, !.nested = b] \in Call
    BY DEF Call, Pc
  <2>2. QED
    BY <2>1 DEF Call
<1>3. stack \in [Thread -> Seq(Call)] /\ 1 \in DOMAIN stack[t]
  BY TopCall DEF Framed
<1>4. stack' = [stack EXCEPT ![t] = [stack[t] EXCEPT ![1] = f]]
  BY <1>1, <1>2, <1>3 DEF WrapPython
<1>5. QED
  BY <1>1, <1>2, <1>4, Edit

LEMMA Pop ==
  ASSUME Framed, NEW t \in Thread, Busy(t), stack' = [stack EXCEPT ![t] = Tail(@)]
  PROVE  Popped(t)
<1>1. stack[t] \in Seq(Call) /\ stack \in [Thread -> Seq(Call)] /\ stack[t] # <<>>
  BY DEF Framed, Busy
<1>2. PICK s \in Seq(Call) : s = stack[t]
  BY <1>1
<1>3. Tail(s) \in Seq(Call) /\ Len(Tail(s)) = Len(s) - 1
  BY <1>1, <1>2
<1>4. \A i \in 1..Len(s) - 1 : Tail(s)[i] = s[i + 1]
  BY <1>1, <1>2
<1>5. stack' \in [Thread -> Seq(Call)] /\ stack'[t] = Tail(s) /\ \A u \in Thread \ {t} : stack'[u] = stack[u]
  BY <1>1, <1>2, <1>3
<1>6. QED
  BY <1>1, <1>2, <1>3, <1>4, <1>5 DEF Popped, OtherStacks

(***************************************************************************)
(* Who is in a script: a thread past the lock of a call holds it, for      *)
(* writing unless a Python module is only read; its calls are of different *)
(* modules; and when no script reads a property of a Perl module, a call of*)
(* a Perl module is the outermost one of its thread and nothing changes the*)
(* context under it.                                                       *)
(***************************************************************************)
Inside == {"enter", "script", "yield"}
Running == {"script", "yield"}
Trading == {"upgrade", "relock"}
PerlNotRead == \A e \in scene.reads : e[2] \notin Perl

Holds(t, f) == IF f.op \in MayRead /\ f.m \in Python THEN t \in lock[f.m].r ELSE lock[f.m].w = t

LockOK == \A m \in Module : lock[m].w # NoOne => lock[m].r = {}

CallsOf(t) ==
  /\ \A i, j \in 1..Len(stack[t]) : stack[t][i].m = stack[t][j].m => i = j
  /\ \A i \in 1..Len(stack[t]) : stack[t][i].pc \in Inside => Holds(t, stack[t][i])
  /\ \A i \in 1..Len(stack[t]) : stack[t][i].pc \in Trading => stack[t][i].m \in Perl
  /\ PerlNotRead => \A i \in 1..Len(stack[t]) : stack[t][i].m \in Perl =>
       i = Len(stack[t]) /\ (stack[t][i].pc \in Running => context[t] = stack[t][i].m)

GuardInv ==
  /\ Framed /\ LockOK
  /\ context \in [Thread -> Module \cup {NoOne}]
  /\ \A t \in Thread : CallsOf(t)

\* A step of t takes, trades or releases the lock of m.
LocksOnly(t, m) ==
  /\ lock' \in [Module -> ObjectLock] /\ LockOK'
  /\ \A n \in Module \ {m} : lock'[n] = lock[n]
  /\ \A u \in Thread \ {t} : /\ lock[m].w = u => lock'[m].w = u
                             /\ u \in lock[m].r => u \in lock'[m].r

\* A step of t leaves the contexts of the others.
ContextOnly(t) ==
  /\ context' \in [Thread -> Module \cup {NoOne}]
  /\ \A u \in Thread \ {t} : context'[u] = context[u]

LEMMA TakeRead ==
  ASSUME GuardInv, NEW t \in Thread, NEW m \in Module, LockRead(t, m)
  PROVE  LocksOnly(t, m) /\ t \in lock'[m].r
<1>1. lock \in [Module -> ObjectLock] /\ LockOK /\ lock[m].w = NoOne
  BY DEF GuardInv, Framed, LockRead
<1>2. PICK k \in ObjectLock : k = lock[m]
  BY <1>1
<1>3. PICK z \in ObjectLock : lock' = [lock EXCEPT ![m] = z] /\ z.w = k.w /\ z.r = k.r \cup {t}
  <2>1. [k EXCEPT !.r = @ \cup {t}] \in ObjectLock
    BY <1>2 DEF ObjectLock
  <2>2. lock' = [lock EXCEPT ![m] = [k EXCEPT !.r = @ \cup {t}]]
    BY <1>1, <1>2 DEF LockRead
  <2>3. QED
    BY <2>1, <2>2 DEF ObjectLock
<1>4. lock' \in [Module -> ObjectLock] /\ lock'[m] = z /\ \A n \in Module \ {m} : lock'[n] = lock[n]
  BY <1>1, <1>3
<1>5. QED
  BY <1>1, <1>2, <1>3, <1>4 DEF LocksOnly, LockOK

LEMMA TakeWrite ==
  ASSUME GuardInv, NEW t \in Thread, NEW m \in Module, LockWrite(t, m)
  PROVE  LocksOnly(t, m) /\ lock'[m].w = t
<1>0. NoOne \notin Thread
  BY ScriptAssumption
<1>1. lock \in [Module -> ObjectLock] /\ LockOK /\ lock[m] = Free
  BY DEF GuardInv, Framed, LockWrite
<1>2. PICK z \in ObjectLock : lock' = [lock EXCEPT ![m] = z] /\ z.w = t /\ z.r = {}
  <2>1. [Free EXCEPT !.w = t] \in ObjectLock
    BY DEF ObjectLock, Free
  <2>2. lock' = [lock EXCEPT ![m] = [Free EXCEPT !.w = t]]
    BY <1>1 DEF LockWrite
  <2>3. QED
    BY <2>1, <2>2 DEF ObjectLock, Free
<1>3. lock' \in [Module -> ObjectLock] /\ lock'[m] = z /\ \A n \in Module \ {m} : lock'[n] = lock[n]
  BY <1>1, <1>2
<1>4. lock[m].w = NoOne /\ lock[m].r = {}
  BY <1>1 DEF Free
<1>5. QED
  BY <1>0, <1>1, <1>2, <1>3, <1>4 DEF LocksOnly, LockOK

LEMMA Release ==
  ASSUME GuardInv, NEW t \in Thread, NEW m \in Module, lock' = Unlocked(t, m)
  PROVE  LocksOnly(t, m)
<1>1. lock \in [Module -> ObjectLock] /\ LockOK
  BY DEF GuardInv, Framed
<1>2. PICK k \in ObjectLock : k = lock[m]
  BY <1>1
<1>3. PICK z \in ObjectLock : /\ lock' = [lock EXCEPT ![m] = z]
                              /\ z.w = (IF k.w = t THEN NoOne ELSE k.w) /\ z.r = k.r \ {t}
  <2> DEFINE z == [w |-> IF k.w = t THEN NoOne ELSE k.w, r |-> k.r \ {t}]
  <2>1. z \in ObjectLock
    BY <1>2 DEF ObjectLock
  <2>2. lock' = [lock EXCEPT ![m] = z]
    BY <1>1, <1>2 DEF Unlocked
  <2>3. z.w = (IF k.w = t THEN NoOne ELSE k.w) /\ z.r = k.r \ {t}
    OBVIOUS
  <2>4. QED
    BY <2>1, <2>2, <2>3
<1>4. lock' \in [Module -> ObjectLock] /\ lock'[m] = z /\ \A n \in Module \ {m} : lock'[n] = lock[n]
  BY <1>1, <1>3
<1>5. QED
  BY <1>1, <1>2, <1>3, <1>4 DEF LocksOnly, LockOK

\* The locks another thread relies on are still there.
LEMMA Others ==
  ASSUME GuardInv, NEW t \in Thread, NEW m \in Module, scene' = scene,
         OtherStacks(t), LocksOnly(t, m), ContextOnly(t)
  PROVE  /\ \A u \in Thread \ {t} : CallsOf(u)'
         /\ Framed' /\ LockOK' /\ context' \in [Thread -> Module \cup {NoOne}]
<1>1. ASSUME NEW u \in Thread \ {t}
      PROVE  CallsOf(u)'
  <2>1. CallsOf(u) /\ stack'[u] = stack[u] /\ context'[u] = context[u]
    BY DEF GuardInv, OtherStacks, ContextOnly
  <2>2. PICK s \in Seq(Call) : s = stack[u]
    BY DEF GuardInv, Framed
  <2>3. ASSUME NEW i \in 1..Len(s), Holds(u, s[i])
        PROVE  Holds(u, s[i])'
    <3>0. s[i] \in Call
      BY <2>2
    <3>1. s[i].m \in Module
      BY <3>0 DEF Call
    <3>2. CASE s[i].m = m
      BY <2>3, <3>2 DEF Holds, LocksOnly
    <3>3. CASE s[i].m # m
      BY <2>3, <3>1, <3>3 DEF Holds, LocksOnly
    <3>4. QED
      BY <3>2, <3>3
  <2>4. QED
    BY <2>1, <2>2, <2>3 DEF CallsOf, PerlNotRead
<1>2. QED
  BY <1>1 DEF GuardInv, Framed, OtherStacks, LocksOnly, ContextOnly

LEMMA HoldsKept ==
  ASSUME NEW t \in Thread, NEW m \in Module, LocksOnly(t, m), NEW f \in Call, f.m # m, Holds(t, f)
  PROVE  Holds(t, f)'
<1>1. f.m \in Module \ {m}
  BY DEF Call
<1>2. QED
  BY <1>1 DEF Holds, LocksOnly

\* A call goes on: it holds its lock when it is past it, and has set the
\* context when it runs a Perl script.
LEMMA GoesOn ==
  ASSUME GuardInv, NEW t \in Thread, NEW f, Edited(t, f), scene' = scene,
         LocksOnly(t, f.m), ContextOnly(t),
         f.pc \in Inside => Holds(t, f)', f.pc \in Trading => f.m \in Perl,
         context'[t] = context[t] \/ (f.m \in Perl /\ context'[t] = f.m),
         f.m \in Perl /\ f.pc \in Running => stack[t][1].pc \in Running \/ context'[t] = f.m
  PROVE  GuardInv'
<1>1. f \in Call /\ f.m \in Module /\ OtherStacks(t)
  BY DEF Edited, Call
<1>2. PICK s \in Seq(Call) : s = stack[t]
  BY DEF GuardInv, Framed
<1>3. PICK z \in Seq(Call) : z = stack'[t]
  BY <1>1 DEF OtherStacks
<1>4. /\ s # <<>> /\ Len(z) = Len(s) /\ Len(s) \in Nat \ {0}
      /\ z[1] = f /\ f.m = s[1].m /\ f.op = s[1].op
      /\ \A i \in 2..Len(s) : z[i] = s[i]
  BY <1>2, <1>3 DEF Edited
<1>5. CallsOf(t)
  BY DEF GuardInv
<1>6. \A i \in 1..Len(s) : z[i].m = s[i].m /\ s[i] \in Call /\ (i # 1 => i \in 2..Len(s) /\ z[i] = s[i])
  <2>1. \A i \in 1..Len(s) : i = 1 \/ i \in 2..Len(s)
    BY <1>4
  <2>2. QED
    BY <1>2, <1>4, <2>1
<1>7. \A i, j \in 1..Len(z) : z[i].m = z[j].m => i = j
  BY <1>2, <1>4, <1>5, <1>6 DEF CallsOf
<1>8. ASSUME NEW i \in 1..Len(z), z[i].pc \in Inside
      PROVE  Holds(t, z[i])'
  <2>1. CASE i = 1
    BY <1>4, <1>8, <2>1
  <2>2. CASE i # 1
    <3>1. i \in 1..Len(s) /\ z[i] = s[i] /\ s[i] \in Call /\ s[i].m # f.m /\ 1 \in 1..Len(s)
      BY <1>2, <1>4, <1>5, <1>6, <2>2 DEF CallsOf
    <3>2. Holds(t, s[i])
      BY <1>2, <1>5, <1>8, <3>1 DEF CallsOf
    <3>3. QED
      BY <1>1, <3>1, <3>2, HoldsKept
  <2>3. QED
    BY <2>1, <2>2
<1>9. ASSUME PerlNotRead', NEW i \in 1..Len(z), z[i].m \in Perl
      PROVE  i = Len(z) /\ (z[i].pc \in Running => context'[t] = z[i].m)
  <2>1. /\ PerlNotRead /\ i \in 1..Len(s) /\ s[i].m \in Perl /\ i = Len(s)
        /\ s[i].pc \in Running => context[t] = s[i].m
    BY <1>2, <1>4, <1>5, <1>6, <1>9 DEF CallsOf, PerlNotRead
  <2>2. CASE i = 1
    BY <1>4, <1>2, <1>9, <2>1, <2>2
  <2>3. CASE i # 1
    <3>1. f.m \notin Perl
      <4>1. 1 \in 1..Len(s)
        BY <1>4
      <4>2. QED
        BY <1>2, <1>4, <1>5, <2>1, <2>3, <4>1 DEF CallsOf
    <3>2. QED
      BY <1>4, <1>6, <2>1, <2>3, <3>1
  <2>4. QED
    BY <2>2, <2>3
<1>10. \A i \in 1..Len(z) : z[i].pc \in Trading => z[i].m \in Perl
  BY <1>2, <1>4, <1>5, <1>6 DEF CallsOf
<1>11. CallsOf(t)'
  BY <1>3, <1>7, <1>8, <1>9, <1>10 DEF CallsOf
<1>12. QED
  BY <1>1, <1>11, Others DEF GuardInv

\* A call begins.
LEMMA Begins ==
  ASSUME GuardInv, NEW t \in Thread, NEW f, Pushed(t, f), scene' = scene,
         UNCHANGED <<lock, context>>, f.pc = "lock",
         \A i \in 1..Len(stack[t]) : stack[t][i].m # f.m,
         stack[t] # <<>> /\ PerlNotRead => f.m \notin Perl
  PROVE  GuardInv'
<1>1. f \in Call /\ f.m \in Module /\ OtherStacks(t)
  BY DEF Pushed, Call
<1>0. LocksOnly(t, f.m) /\ ContextOnly(t)
  BY DEF GuardInv, Framed, LocksOnly, LockOK, ContextOnly
<1>2. PICK s \in Seq(Call) : s = stack[t]
  BY DEF GuardInv, Framed
<1>3. PICK z \in Seq(Call) : z = stack'[t]
  BY <1>1 DEF OtherStacks
<1>4. /\ Len(z) = Len(s) + 1 /\ Len(s) \in Nat
      /\ z[1] = f
      /\ \A i \in 1..Len(s) : z[i + 1] = s[i]
  BY <1>2, <1>3 DEF Pushed
<1>5. CallsOf(t)
  BY DEF GuardInv
<1>6. \A i \in 1..Len(z) : i # 1 => i - 1 \in 1..Len(s) /\ z[i] = s[i - 1]
  <2>1. SUFFICES ASSUME NEW i \in 1..Len(z), i # 1
                 PROVE  i - 1 \in 1..Len(s) /\ z[i] = s[i - 1]
    OBVIOUS
  <2>2. PICK k \in 1..Len(s) : i = k + 1
    BY <1>4, <2>1
  <2>3. QED
    BY <1>4, <2>2
<1>7. \A i, j \in 1..Len(z) : z[i].m = z[j].m => i = j
  <2>1. SUFFICES ASSUME NEW i \in 1..Len(z), NEW j \in 1..Len(z), z[i].m = z[j].m, i # j
                 PROVE  FALSE
    OBVIOUS
  <2>2. CASE i # 1 /\ j # 1
    <3>1. PICK a \in 1..Len(s) : a = i - 1 /\ z[i] = s[a]
      BY <1>6, <2>2
    <3>2. PICK b \in 1..Len(s) : b = j - 1 /\ z[j] = s[b]
      BY <1>6, <2>2
    <3>3. s[a].m = s[b].m
      BY <2>1, <3>1, <3>2
    <3>4. a = b
      BY <1>2, <1>5, <3>3 DEF CallsOf
    <3>5. QED
      BY <1>4, <2>1, <3>1, <3>2, <3>4
  <2>3. CASE i = 1
    <3>1. PICK b \in 1..Len(s) : z[j] = s[b]
      BY <1>6, <2>1, <2>3
    <3>2. QED
      BY <1>2, <1>4, <2>1, <2>3, <3>1
  <2>4. CASE j = 1
    <3>1. PICK b \in 1..Len(s) : z[i] = s[b]
      BY <1>6, <2>1, <2>4
    <3>2. QED
      BY <1>2, <1>4, <2>1, <2>4, <3>1
  <2>5. QED
    BY <2>2, <2>3, <2>4
<1>8. ASSUME NEW i \in 1..Len(z), z[i].pc \in Inside
      PROVE  Holds(t, z[i])'
  <2>1. i # 1
    BY <1>4, <1>8 DEF Inside
  <2>2. Holds(t, s[i - 1]) /\ z[i] = s[i - 1]
    BY <1>2, <1>5, <1>6, <1>8, <2>1 DEF CallsOf
  <2>3. QED
    BY <2>2 DEF Holds
<1>9. ASSUME PerlNotRead', NEW i \in 1..Len(z), z[i].m \in Perl
      PROVE  i = Len(z) /\ (z[i].pc \in Running => context'[t] = z[i].m)
  <2>0. PerlNotRead
    BY <1>9 DEF PerlNotRead
  <2>1. CASE i = 1
    <3>1. s = <<>>
      BY <1>2, <1>4, <1>9, <2>0, <2>1
    <3>2. Len(s) = 0 /\ "lock" \notin Running
      BY <3>1 DEF Running
    <3>3. QED
      BY <1>4, <2>1, <3>2
  <2>2. CASE i # 1
    <3>1. i - 1 \in 1..Len(s) /\ z[i] = s[i - 1]
      BY <1>6, <2>2
    <3>2. i - 1 = Len(s) /\ (s[i - 1].pc \in Running => context[t] = s[i - 1].m)
      BY <1>2, <1>5, <1>9, <2>0, <3>1 DEF CallsOf
    <3>3. QED
      BY <1>4, <3>1, <3>2
  <2>3. QED
    BY <2>1, <2>2
<1>10. \A i \in 1..Len(z) : z[i].pc \in Trading => z[i].m \in Perl
  <2>1. "lock" \notin Trading
    BY DEF Trading
  <2>2. ASSUME NEW i \in 1..Len(z), i # 1
        PROVE  z[i].pc \in Trading => z[i].m \in Perl
    <3>1. PICK b \in 1..Len(s) : z[i] = s[b]
      BY <1>6, <2>2
    <3>2. QED
      BY <1>2, <1>5, <3>1 DEF CallsOf
  <2>3. QED
    BY <1>4, <2>1, <2>2
<1>11. CallsOf(t)'
  BY <1>3, <1>7, <1>8, <1>9, <1>10 DEF CallsOf
<1>12. QED
  BY <1>0, <1>1, <1>11, Others DEF GuardInv

\* A call ends, which leaves the context to a caller that is not Perl.
LEMMA Ends ==
  ASSUME GuardInv, NEW t \in Thread, Popped(t), scene' = scene,
         LocksOnly(t, stack[t][1].m), ContextOnly(t),
         context'[t] = context[t] \/ stack[t][1].m \in Perl
  PROVE  GuardInv'
<1>1. OtherStacks(t)
  BY DEF Popped
<1>2. PICK s \in Seq(Call) : s = stack[t]
  BY DEF GuardInv, Framed
<1>3. PICK z \in Seq(Call) : z = stack'[t]
  BY <1>1 DEF OtherStacks
<1>4. /\ Len(z) = Len(s) - 1 /\ Len(s) \in Nat \ {0} /\ 1 \in 1..Len(s)
      /\ \A i \in 1..Len(s) - 1 : z[i] = s[i + 1]
  BY <1>2, <1>3 DEF Popped
<1>5. CallsOf(t) /\ s[1] \in Call /\ s[1].m \in Module
  <2>1. s[1] \in Call
    BY <1>2, <1>4
  <2>2. QED
    BY <2>1 DEF GuardInv, Call
<1>6. \A i \in 1..Len(z) : i + 1 \in 1..Len(s) /\ z[i] = s[i + 1] /\ s[i + 1].m # s[1].m
  <2>1. \A i \in 1..Len(z) : i + 1 \in 1..Len(s) /\ z[i] = s[i + 1] /\ i + 1 # 1
    BY <1>4
  <2>2. QED
    BY <1>2, <1>4, <1>5, <2>1 DEF CallsOf
<1>7. \A i, j \in 1..Len(z) : z[i].m = z[j].m => i = j
  <2>1. SUFFICES ASSUME NEW i \in 1..Len(z), NEW j \in 1..Len(z), z[i].m = z[j].m
                 PROVE  i = j
    OBVIOUS
  <2>2. PICK a \in 1..Len(s) : a = i + 1 /\ z[i] = s[a]
    BY <1>6
  <2>3. PICK b \in 1..Len(s) : b = j + 1 /\ z[j] = s[b]
    BY <1>6
  <2>4. s[a].m = s[b].m
    BY <2>1, <2>2, <2>3
  <2>5. a = b
    BY <1>2, <1>5, <2>4 DEF CallsOf
  <2>6. QED
    BY <1>4, <2>2, <2>3, <2>5
<1>8. ASSUME NEW i \in 1..Len(z), z[i].pc \in Inside
      PROVE  Holds(t, z[i])'
  <2>1. Holds(t, s[i + 1]) /\ z[i] = s[i + 1] /\ s[i + 1].m # s[1].m /\ i + 1 \in 1..Len(s)
    BY <1>2, <1>5, <1>6, <1>8 DEF CallsOf
  <2>2. s[i + 1] \in Call
    BY <1>2, <2>1
  <2>3. QED
    BY <1>2, <1>5, <2>1, <2>2, HoldsKept
<1>9. ASSUME PerlNotRead', NEW i \in 1..Len(z), z[i].m \in Perl
      PROVE  i = Len(z) /\ (z[i].pc \in Running => context'[t] = z[i].m)
  <2>1. /\ i + 1 = Len(s) /\ (s[i + 1].pc \in Running => context[t] = s[i + 1].m)
        /\ s[1].m \in Perl => 1 = Len(s)
    BY <1>2, <1>4, <1>5, <1>6, <1>9 DEF CallsOf, PerlNotRead
  <2>2. i = Len(z) /\ Len(s) # 1
    BY <1>4, <2>1
  <2>3. QED
    BY <1>2, <1>6, <2>1, <2>2
<1>10. \A i \in 1..Len(z) : z[i].pc \in Trading => z[i].m \in Perl
  <2>1. SUFFICES ASSUME NEW i \in 1..Len(z)
                 PROVE  z[i].pc \in Trading => z[i].m \in Perl
    OBVIOUS
  <2>2. PICK b \in 1..Len(s) : z[i] = s[b]
    BY <1>6
  <2>3. QED
    BY <1>2, <1>5, <2>2 DEF CallsOf
<1>11. CallsOf(t)'
  BY <1>3, <1>7, <1>8, <1>9, <1>10 DEF CallsOf
<1>12. QED
  BY <1>1, <1>2, <1>5, <1>11, Others DEF GuardInv

(***************************************************************************)
(* What scripts and queues hold are resources, or at worst NULL.           *)
(***************************************************************************)
Stuffed ==
  /\ hand \in [Thread -> Stuff]
  /\ inq \in [Module -> SUBSET Stuff] /\ outq \in [Module -> SUBSET Stuff]
  /\ kept \in [Module -> SUBSET Stuff] /\ pool \subseteq Stuff

LEMMA HasStuff ==
  ASSUME Framed, Stuffed, NEW t \in Thread, Busy(t)
  PROVE  Has(t) \subseteq Stuff /\ kept[Top(t).m] \subseteq Stuff /\ Top(t).m \in Module
<1>1. Top(t) \in Call
  BY TopCall
<1>2. Top(t).args \subseteq Stuff /\ Top(t).m \in Module
  BY <1>1 DEF Call
<1>3. QED
  BY <1>2 DEF Has, Stuffed

LEMMA SettleStuff ==
  ASSUME Framed, Stuffed, NEW t \in Thread, Busy(t), NEW back, NEW keep,
         Settle(t, back, keep), keep \subseteq Stuff
  PROVE  kept' \in [Module -> SUBSET Stuff] /\ pool' \subseteq Stuff
<1>1. Has(t) \subseteq Stuff /\ Top(t).m \in Module
  BY HasStuff
<1>2. QED
  BY <1>1 DEF Settle, Stuffed

LEMMA StuffedStep ==
  ASSUME Framed, Stuffed, [Next]_vars
  PROVE  Stuffed'
<1>0. /\ hand \in [Thread -> Stuff] /\ inq \in [Module -> SUBSET Stuff]
      /\ outq \in [Module -> SUBSET Stuff] /\ kept \in [Module -> SUBSET Stuff]
      /\ pool \subseteq Stuff /\ NoOne \in Stuff
  BY DEF Stuffed, Stuff
<1>1. ASSUME UNCHANGED <<hand, inq, outq, kept, pool>>
      PROVE  Stuffed'
  BY <1>0, <1>1 DEF Stuffed
<1>2. ASSUME NEW m \in Present, DropAll(m)
      PROVE  Stuffed'
  <2>1. Present \subseteq Module
    BY ScriptAssumption DEF Framed, SceneOK, Present
  <2>2. QED
    BY <1>0, <1>2, <2>1 DEF DropAll, Stuffed
<1>3. ASSUME Lifecycle
      PROVE  Stuffed'
  BY <1>1, <1>2, <1>3 DEF Lifecycle, PerlNew, PythonNew, PerlInit, PythonInit, GetType,
                          PerlDelete, PythonDelete, Ready, Shutdown, resVars
<1>4. ASSUME NEW t \in Thread, NEW m \in Present,
             \/ PropertyCall(t, m) \/ ControlCall(t, m) \/ ProcessCall(t, m) \/ ScriptReads(t, m)
      PROVE  Stuffed'
  BY <1>1, <1>4 DEF PropertyCall, ControlCall, ProcessCall, ScriptReads, resVars
<1>5. ASSUME NEW t \in Thread, NEW m \in Present, Fetch(t, m)
      PROVE  Stuffed'
  <2>1. PICK r \in pool :
          /\ pool' = pool \ {r}
          /\ \/ hand' = [hand EXCEPT ![t] = r] /\ UNCHANGED inq
             \/ inq' = [inq EXCEPT ![m] = @ \cup {r}] /\ UNCHANGED hand
    BY <1>5 DEF Fetch
  <2>2. hand' \in [Thread -> Stuff] /\ inq' \in [Module -> SUBSET Stuff] /\ pool' \subseteq Stuff
    BY <1>0, <2>1
  <2>3. outq' = outq /\ kept' = kept
    BY <1>5 DEF Fetch
  <2>4. QED
    BY <1>0, <2>2, <2>3 DEF Stuffed
<1>6. ASSUME NEW t \in Thread, NEW m \in Present, PassOn(t, m)
      PROVE  Stuffed'
  <2>0. m \in Module
    BY ScriptAssumption DEF Framed, SceneOK, Present
  <2>1. hand' \in [Thread -> Stuff] /\ outq' \in [Module -> SUBSET Stuff] /\ pool' \subseteq Stuff
    BY <1>0, <1>6, <2>0 DEF PassOn
  <2>2. inq' = inq /\ kept' = kept
    BY <1>6 DEF PassOn
  <2>3. QED
    BY <1>0, <2>1, <2>2 DEF Stuffed
<1>7. ASSUME NEW t \in Thread,
             \/ Acquire(t) \/ PerlUpgrade(t) \/ PerlRelock(t) \/ PerlEnter(t) \/ Unyield(t)
             \/ Yield(t) \/ PerlLost(t) \/ PerlPlain(t) \/ PerlList(t) \/ PythonPlain(t) \/ PythonRead(t)
      PROVE  Stuffed'
  BY <1>1, <1>7 DEF Acquire, PerlUpgrade, PerlRelock, PerlEnter, Unyield, Yield, PerlLost, Crash,
                    PerlPlain, PerlList, PythonPlain, PythonRead, resVars
<1>8. ASSUME NEW t \in Thread, PerlEnterSimple(t)
      PROVE  Stuffed'
  BY <1>0, <1>8 DEF PerlEnterSimple, Stuffed
<1>9. ASSUME NEW t \in Thread, PerlEnterMulti(t)
      PROVE  Stuffed'
  <2>1. inq' \in [Module -> SUBSET Stuff]
    BY <1>0, <1>9 DEF PerlEnterMulti
  <2>2. UNCHANGED <<hand, outq, kept, pool>>
    BY <1>9 DEF PerlEnterMulti
  <2>3. QED
    BY <1>0, <2>1, <2>2 DEF Stuffed
<1>10. ASSUME NEW t \in Thread, PythonEnter(t)
       PROVE  Stuffed'
  <2>1. /\ hand' \in {hand, [hand EXCEPT ![t] = NoOne]}
        /\ inq' \in {inq, [inq EXCEPT ![Top(t).m] = {}]}
        /\ outq' \in {outq, [outq EXCEPT ![Top(t).m] = {}]}
    BY <1>10, Zenon DEF PythonEnter
  <2>2. /\ hand' \in [Thread -> Stuff]
        /\ inq' \in [Module -> SUBSET Stuff] /\ outq' \in [Module -> SUBSET Stuff]
    BY <1>0, <2>1
  <2>3. UNCHANGED <<kept, pool>>
    BY <1>10 DEF PythonEnter
  <2>4. QED
    BY <1>0, <2>2, <2>3 DEF Stuffed
<1>11. ASSUME NEW t \in Thread, PerlInput(t) \/ PythonInput(t)
       PROVE  Stuffed'
  <2>1. Busy(t)
    BY <1>11 DEF PerlInput, PythonInput, At
  <2>2. PICK r \in pool \cup kept[Top(t).m] \cup {NoOne} :
          /\ hand' = [hand EXCEPT ![t] = r]
          /\ Settle(t, {r} \ {NoOne}, kept[Top(t).m] \ {r})
    BY <1>11 DEF PerlInput, PythonInput
  <2>3. r \in Stuff /\ kept[Top(t).m] \ {r} \subseteq Stuff
    BY <1>0, <2>1, HasStuff
  <2>4. hand' \in [Thread -> Stuff]
    BY <1>0, <2>2, <2>3
  <2>5. kept' \in [Module -> SUBSET Stuff] /\ pool' \subseteq Stuff
    BY <2>1, <2>2, <2>3, SettleStuff
  <2>6. inq' = inq /\ outq' = outq
    BY <1>11 DEF PerlInput, PythonInput
  <2>7. QED
    BY <1>0, <2>4, <2>5, <2>6 DEF Stuffed
<1>12. ASSUME NEW t \in Thread, PerlSimple(t) \/ PythonSimple(t)
       PROVE  Stuffed'
  <2>1. Busy(t)
    BY <1>12 DEF PerlSimple, PythonSimple, At
  <2>2. PICK r \in Has(t) \cup {NoOne} : \E keep \in SUBSET (Has(t) \ {r}) :
          /\ hand' = [hand EXCEPT ![t] = r]
          /\ Settle(t, {r} \ {NoOne}, keep)
    BY <1>12 DEF PerlSimple, PythonSimple
  <2>3. PICK keep \in SUBSET (Has(t) \ {r}) : hand' = [hand EXCEPT ![t] = r] /\ Settle(t, {r} \ {NoOne}, keep)
    BY <2>2
  <2>4. r \in Stuff /\ keep \subseteq Stuff
    BY <1>0, <2>1, HasStuff
  <2>5. hand' \in [Thread -> Stuff]
    BY <1>0, <2>3, <2>4
  <2>6. kept' \in [Module -> SUBSET Stuff] /\ pool' \subseteq Stuff
    BY <2>1, <2>3, <2>4, SettleStuff
  <2>7. inq' = inq /\ outq' = outq
    BY <1>12 DEF PerlSimple, PythonSimple
  <2>8. QED
    BY <1>0, <2>5, <2>6, <2>7 DEF Stuffed
<1>13. ASSUME NEW t \in Thread, PerlMulti(t) \/ PythonMulti(t)
       PROVE  Stuffed'
  <2>1. CASE UNCHANGED <<hand, inq, outq, kept, pool>>
    BY <1>1, <2>1
  <2>2. CASE \E in, out \in SUBSET Has(t) : \E keep \in SUBSET (Has(t) \ (in \cup out)) :
               /\ inq' \in {[inq EXCEPT ![Top(t).m] = in], [inq EXCEPT ![Top(t).m] = @ \cup in]}
               /\ outq' \in {[outq EXCEPT ![Top(t).m] = out], [outq EXCEPT ![Top(t).m] = @ \cup out]}
               /\ Settle(t, in \cup out, keep)
               /\ hand' = hand
    <3>1. Busy(t)
      BY <1>13 DEF PerlMulti, PythonMulti, At
    <3>2. PICK in \in SUBSET Has(t), out \in SUBSET Has(t) : \E keep \in SUBSET (Has(t) \ (in \cup out)) :
               /\ inq' \in {[inq EXCEPT ![Top(t).m] = in], [inq EXCEPT ![Top(t).m] = @ \cup in]}
               /\ outq' \in {[outq EXCEPT ![Top(t).m] = out], [outq EXCEPT ![Top(t).m] = @ \cup out]}
               /\ Settle(t, in \cup out, keep)
               /\ hand' = hand
      BY <2>2
    <3>3. PICK keep \in SUBSET (Has(t) \ (in \cup out)) : Settle(t, in \cup out, keep)
      BY <3>2
    <3>4. in \subseteq Stuff /\ out \subseteq Stuff /\ keep \subseteq Stuff
      BY <3>1, HasStuff
    <3>5. inq' \in [Module -> SUBSET Stuff] /\ outq' \in [Module -> SUBSET Stuff]
      BY <1>0, <3>2, <3>4
    <3>6. kept' \in [Module -> SUBSET Stuff] /\ pool' \subseteq Stuff
      BY <3>1, <3>3, <3>4, SettleStuff
    <3>7. QED
      BY <1>0, <3>2, <3>5, <3>6 DEF Stuffed
  <2>3. QED
    <3>1. CASE PerlMulti(t)
      BY <2>2, <3>1 DEF PerlMulti
    <3>2. CASE PythonMulti(t)
      BY <2>1, <2>2, <3>2 DEF PythonMulti, Crash, resVars
    <3>3. QED
      BY <1>13, <3>1, <3>2
<1>14. ASSUME NEW t \in Thread, PerlMultiFails(t)
       PROVE  Stuffed'
  <2>1. Busy(t)
    BY <1>14 DEF PerlMultiFails, At
  <2>2. Has(t) \subseteq Stuff
    BY <2>1, HasStuff
  <2>3. PICK left \in SUBSET Has(t) : \E keep \in SUBSET (Has(t) \ left) :
          /\ kept' = [kept EXCEPT ![Top(t).m] = keep]
          /\ pool' = pool \cup ((Has(t) \ (left \cup keep)) \cap own)
    BY <1>14 DEF PerlMultiFails
  <2>6. PICK keep \in SUBSET Has(t) :
          /\ kept' = [kept EXCEPT ![Top(t).m] = keep]
          /\ pool' = pool \cup ((Has(t) \ (left \cup keep)) \cap own)
    BY <2>3
  <2>7. kept' \in [Module -> SUBSET Stuff] /\ pool' \subseteq Stuff
    BY <1>0, <2>2, <2>6
  <2>4. UNCHANGED <<hand, inq, outq>>
    BY <1>14 DEF PerlMultiFails
  <2>5. QED
    BY <1>0, <2>4, <2>7 DEF Stuffed
<1>15. ASSUME UNCHANGED vars
       PROVE  Stuffed'
  BY <1>1, <1>15 DEF vars, resVars
<1>16. QED
  BY <1>3, <1>4, <1>5, <1>6, <1>7, <1>8, <1>9, <1>10, <1>11, <1>12, <1>13, <1>14, <1>15
     DEF Next, Proceeds, Enters, PerlReturns, PythonReturns

(***************************************************************************)
(* Every step keeps GuardInv.                                              *)
(***************************************************************************)
LEMMA PresentModules ==
  ASSUME Framed
  PROVE  /\ Present \subseteq Module /\ NoOne \notin Thread
         /\ \A m \in Present : scene.kind[m] \in Kind
         /\ \A e \in scene.reads : e[2] \in Module
  BY ScriptAssumption DEF Framed, SceneOK, Present

LEMMA FrameIsCall ==
  ASSUME NEW m \in Module, NEW op \in Op
  PROVE  Frame(m, op) \in Call /\ Frame(m, op).m = m /\ Frame(m, op).pc = "lock"
  BY DEF Frame, Call, Pc, Stuff

\* A call of a thread that is in none.
LEMMA FirstCall ==
  ASSUME GuardInv, NEW t \in Thread, ~Busy(t), NEW m \in Module, NEW op \in Op,
         stack' = [stack EXCEPT ![t] = <<Frame(m, op)>>], UNCHANGED <<scene, lock, context>>
  PROVE  GuardInv'
<1>1. Frame(m, op) \in Call /\ Frame(m, op).m = m /\ Frame(m, op).pc = "lock"
  BY FrameIsCall
<1>2. stack[t] = <<>> /\ Framed
  BY DEF Busy, GuardInv
<1>3. Pushed(t, Frame(m, op))
  BY <1>1, <1>2, Push
<1>4. \A i \in 1..Len(stack[t]) : stack[t][i].m # Frame(m, op).m
  <2>1. 1..Len(stack[t]) = {}
    BY <1>2
  <2>2. QED
    BY <2>1, Zenon
<1>5. QED
  BY <1>1, <1>2, <1>3, <1>4, Begins

\* A call returns.
LEMMA LastStep ==
  ASSUME GuardInv, NEW t \in Thread, Busy(t), Return(t), scene' = scene, ContextOnly(t),
         context'[t] = context[t] \/ Top(t).m \in Perl
  PROVE  GuardInv'
<1>1. Top(t) = stack[t][1] /\ Top(t).m \in Module /\ Framed
  BY TopCall DEF GuardInv
<1>2. LocksOnly(t, Top(t).m)
  BY <1>1, Release DEF Return
<1>3. Popped(t)
  BY <1>1, Pop DEF Return
<1>4. QED
  BY <1>1, <1>2, <1>3, Ends

LEMMA SameContext ==
  ASSUME GuardInv, NEW t \in Thread, context' = context
  PROVE  ContextOnly(t)
  BY DEF GuardInv, ContextOnly

LEMMA OwnContext ==
  ASSUME GuardInv, NEW t \in Thread, Busy(t), SetContext(t)
  PROVE  ContextOnly(t) /\ context'[t] = Top(t).m
<1>1. Top(t).m \in Module
  BY TopCall DEF GuardInv
<1>2. QED
  BY <1>1 DEF GuardInv, ContextOnly, SetContext

LEMMA SameLocks ==
  ASSUME GuardInv, NEW t \in Thread, NEW m \in Module, lock' = lock
  PROVE  LocksOnly(t, m)
  BY DEF GuardInv, Framed, LocksOnly, LockOK

\* A call gets past its lock.
LEMMA GuardAcquire ==
  ASSUME GuardInv, NEW t \in Thread, Acquire(t)
  PROVE  GuardInv'
<1>1. /\ Framed /\ Busy(t) /\ Top(t) = stack[t][1] /\ Top(t).m \in Module /\ ContextOnly(t)
      /\ context' = context /\ scene' = scene
  BY TopCall, SameContext DEF GuardInv, Acquire, At, lifeVars
<1>2. CASE ReadOp(t) /\ Top(t).m \in Perl
  <2>1. SetPc(t, "upgrade") /\ LockRead(t, Top(t).m) /\ "upgrade" \in Pc \ Inside
    BY <1>2 DEF Acquire, Pc, Inside
  <2>2. PICK f \in Call : Edited(t, f) /\ f.pc = "upgrade"
    BY <1>1, <2>1, EditPc
  <2>3. f.m = Top(t).m
    BY <1>1, <2>2 DEF Edited
  <2>4. LocksOnly(t, f.m)
    BY <1>1, <2>1, <2>3, TakeRead
  <2>5. "upgrade" \notin Running
    BY DEF Running
  <2>6. QED
    BY <1>1, <1>2, <2>1, <2>2, <2>3, <2>4, <2>5, GoesOn
<1>3. CASE ReadOp(t) /\ Top(t).m \notin Perl
  <2>1. SetPc(t, "enter") /\ LockRead(t, Top(t).m) /\ "enter" \in Pc
    BY <1>3 DEF Acquire, Pc
  <2>2. PICK f \in Call : Edited(t, f) /\ f.pc = "enter"
    BY <1>1, <2>1, EditPc
  <2>3. f.m = Top(t).m /\ f.op = Top(t).op
    BY <1>1, <2>2 DEF Edited
  <2>4. LocksOnly(t, f.m) /\ t \in lock'[f.m].r
    BY <1>1, <2>1, <2>3, TakeRead
  <2>5. f.m \in Python /\ f.op \in MayRead /\ f.m \notin Perl /\ "enter" \notin Trading
    BY <1>1, <1>3, <2>3 DEF Module, ReadOp, Trading
  <2>6. Holds(t, f)'
    BY <2>4, <2>5 DEF Holds
  <2>7. QED
    BY <1>1, <2>2, <2>4, <2>5, <2>6, GoesOn
<1>4. CASE ~ReadOp(t)
  <2>1. SetPc(t, "enter") /\ LockWrite(t, Top(t).m) /\ "enter" \in Pc
    BY <1>4 DEF Acquire, Pc
  <2>2. PICK f \in Call : Edited(t, f) /\ f.pc = "enter"
    BY <1>1, <2>1, EditPc
  <2>3. f.m = Top(t).m /\ f.op = Top(t).op
    BY <1>1, <2>2 DEF Edited
  <2>4. LocksOnly(t, f.m) /\ lock'[f.m].w = t
    BY <1>1, <2>1, <2>3, TakeWrite
  <2>5. Holds(t, f)' /\ "enter" \notin Running \cup Trading
    BY <1>4, <2>3, <2>4 DEF Holds, ReadOp, Running, Trading
  <2>6. QED
    BY <1>1, <2>2, <2>4, <2>5, GoesOn
<1>5. QED
  BY <1>2, <1>3, <1>4

\* The reading calls of a Perl module trade their lock.
LEMMA TradesPerl ==
  ASSUME GuardInv, NEW t \in Thread, Busy(t), Top(t).pc \in Trading
  PROVE  Top(t).m \in Perl
<1>1. Top(t) = stack[t][1] /\ 1 \in 1..Len(stack[t])
  BY TopCall DEF GuardInv
<1>2. QED
  BY <1>1 DEF GuardInv, CallsOf

LEMMA GuardUpgrade ==
  ASSUME GuardInv, NEW t \in Thread, PerlUpgrade(t)
  PROVE  GuardInv'
<1>1. /\ Framed /\ Busy(t) /\ Top(t) = stack[t][1] /\ Top(t).m \in Module /\ ContextOnly(t)
      /\ context' = context /\ scene' = scene
  BY TopCall, SameContext DEF GuardInv, PerlUpgrade, At, lifeVars
<1>2. SetPc(t, "relock") /\ lock' = Unlocked(t, Top(t).m) /\ "relock" \in (Pc \ Inside) \ Running
  BY DEF PerlUpgrade, Pc, Inside, Running
<1>3. PICK f \in Call : Edited(t, f) /\ f.pc = "relock"
  BY <1>1, <1>2, EditPc
<1>4. f.m = Top(t).m
  BY <1>1, <1>3 DEF Edited
<1>5. LocksOnly(t, f.m)
  BY <1>1, <1>2, <1>4, Release
<1>6. f.m \in Perl
  BY <1>1, <1>4, TradesPerl DEF PerlUpgrade, At, Trading
<1>7. QED
  BY <1>1, <1>2, <1>3, <1>5, <1>6, GoesOn

LEMMA GuardRelock ==
  ASSUME GuardInv, NEW t \in Thread, PerlRelock(t)
  PROVE  GuardInv'
<1>1. /\ Framed /\ Busy(t) /\ Top(t) = stack[t][1] /\ Top(t).m \in Module /\ ContextOnly(t)
      /\ context' = context /\ scene' = scene
  BY TopCall, SameContext DEF GuardInv, PerlRelock, At, lifeVars
<1>2. SetPc(t, "enter") /\ LockWrite(t, Top(t).m) /\ "enter" \in (Pc \ Running) \ Trading
  BY DEF PerlRelock, Pc, Running, Trading
<1>3. PICK f \in Call : Edited(t, f) /\ f.pc = "enter"
  BY <1>1, <1>2, EditPc
<1>4. f.m = Top(t).m
  BY <1>1, <1>3 DEF Edited
<1>5. LocksOnly(t, f.m) /\ lock'[f.m].w = t
  BY <1>1, <1>2, <1>4, TakeWrite
<1>6. f.m \in Perl /\ f.m \notin Python
  BY <1>1, <1>4, TradesPerl, ScriptAssumption DEF PerlRelock, At, Trading
<1>7. Holds(t, f)'
  BY <1>5, <1>6 DEF Holds
<1>8. QED
  BY <1>1, <1>2, <1>3, <1>5, <1>7, GoesOn

\* A call starts its script, stops for another thread, or goes on: it keeps
\* its lock, and sets the context if it is a call of a Perl module.
LEMMA GuardScript ==
  ASSUME GuardInv, NEW t \in Thread, Busy(t), Top(t).pc \in Inside, scene' = scene, lock' = lock,
         NEW f \in Call, Edited(t, f), f.pc \in Running,
         \/ context' = context /\ (Top(t).m \in Python \/ Top(t).pc \in Running)
         \/ SetContext(t) /\ Top(t).m \in Perl
  PROVE  GuardInv'
<1>1. Framed /\ Top(t) = stack[t][1] /\ Top(t).m \in Module /\ 1 \in 1..Len(stack[t])
  BY TopCall DEF GuardInv
<1>2. f.m = Top(t).m /\ f.op = Top(t).op /\ f.pc \notin Trading
  BY <1>1 DEF Edited, Running, Trading
<1>3. LocksOnly(t, f.m)
  BY <1>1, <1>2, SameLocks
<1>4. Holds(t, Top(t))
  BY <1>1 DEF GuardInv, CallsOf
<1>5. Holds(t, f)'
  BY <1>2, <1>4 DEF Holds
<1>6. CASE context' = context /\ (Top(t).m \in Python \/ Top(t).pc \in Running)
  <2>1. ContextOnly(t)
    BY <1>6, SameContext
  <2>2. Top(t).m \notin Perl \/ Top(t).pc \in Running
    BY <1>6, ScriptAssumption
  <2>3. QED
    BY <1>1, <1>2, <1>3, <1>5, <1>6, <2>1, <2>2, GoesOn
<1>7. CASE SetContext(t) /\ Top(t).m \in Perl
  <2>1. ContextOnly(t) /\ context'[t] = Top(t).m
    BY <1>7, OwnContext
  <2>2. QED
    BY <1>1, <1>2, <1>3, <1>5, <1>7, <2>1, GoesOn
<1>8. QED
  BY <1>6, <1>7

LEMMA GuardYield ==
  ASSUME GuardInv, NEW t \in Thread, Yield(t) \/ Unyield(t)
  PROVE  GuardInv'
<1>1. Framed /\ Busy(t) /\ context' = context /\ scene' = scene /\ lock' = lock
  BY DEF GuardInv, Yield, Unyield, At, lifeVars
<1>2. Top(t).pc \in Inside \cap Running
  BY DEF Yield, Unyield, At, Inside, Running
<1>3. PICK pc \in Pc \cap Running : SetPc(t, pc)
  BY DEF Yield, Unyield, Pc, Running
<1>4. PICK f \in Call : Edited(t, f) /\ f.pc = pc
  BY <1>1, <1>3, EditPc
<1>5. QED
  BY <1>1, <1>2, <1>3, <1>4, GuardScript

LEMMA GuardEnter ==
  ASSUME GuardInv, Stuffed, NEW t \in Thread, Enters(t)
  PROVE  GuardInv'
<1>1. /\ Framed /\ Busy(t) /\ scene' = scene /\ Top(t).pc \in Inside /\ Top(t).m \in Module
      /\ "script" \in Running
  <2>1. Framed /\ Busy(t) /\ scene' = scene /\ Top(t).pc = "enter"
    BY DEF GuardInv, Enters, PerlEnter, PerlEnterSimple, PerlEnterMulti, PythonEnter, At, lifeVars
  <2>2. QED
    BY <2>1, TopCall DEF Inside, Running
<1>2. ASSUME NEW res \in SUBSET Stuff, Wrap(t, res), lock' = lock, SetContext(t), Top(t).m \in Perl
      PROVE  GuardInv'
  <2>1. PICK f \in Call : Edited(t, f) /\ f.pc = "script"
    BY <1>1, <1>2, EditWrap
  <2>2. QED
    BY <1>1, <1>2, <2>1, GuardScript
<1>3. ASSUME Return(t), SetContext(t), Top(t).m \in Perl
      PROVE  GuardInv'
  <2>1. ContextOnly(t)
    BY <1>1, <1>3, OwnContext
  <2>2. QED
    BY <1>1, <1>3, <2>1, LastStep
<1>4. CASE PerlEnter(t)
  <2>1. Wrap(t, {}) /\ lock' = lock /\ SetContext(t) /\ Top(t).m \in Perl
    BY <1>4 DEF PerlEnter, lockVars
  <2>2. QED
    BY <1>2, <2>1
<1>5. CASE PerlEnterSimple(t)
  <2>1. SetContext(t) /\ Top(t).m \in Perl /\ {hand[t]} \subseteq Stuff
    BY <1>5 DEF PerlEnterSimple, Stuffed
  <2>2. Return(t) \/ (Wrap(t, {hand[t]}) /\ lock' = lock)
    BY <1>5 DEF PerlEnterSimple
  <2>3. QED
    BY <1>2, <1>3, <2>1, <2>2
<1>6. CASE PerlEnterMulti(t)
  <2>1. SetContext(t) /\ Top(t).m \in Perl /\ inq[Top(t).m] \subseteq Stuff
    BY <1>1, <1>6 DEF PerlEnterMulti, Stuffed
  <2>2. Return(t) \/ (Wrap(t, inq[Top(t).m]) /\ lock' = lock)
    BY <1>6 DEF PerlEnterMulti
  <2>3. QED
    BY <1>2, <1>3, <2>1, <2>2
<1>7. CASE PythonEnter(t)
  <2> DEFINE b == gil = t
             res == CASE Top(t).op = "SIMPLE" -> {hand[t]}
                      [] Top(t).op = "MULTI" -> inq[Top(t).m] \cup outq[Top(t).m]
                      [] OTHER -> {}
  <2>1. Top(t).m \in Python /\ context' = context /\ lock' = lock /\ b \in BOOLEAN
    BY <1>7 DEF PythonEnter
  <2>2. WrapPython(t, res, b)
    BY <1>7 DEF PythonEnter, WrapPython
  <2>3. hand[t] \in Stuff /\ inq[Top(t).m] \cup outq[Top(t).m] \subseteq Stuff
    BY <1>1 DEF Stuffed
  <2>4. res \in SUBSET Stuff
    <3>1. CASE Top(t).op = "SIMPLE"
      BY <2>3, <3>1
    <3>2. CASE Top(t).op = "MULTI"
      BY <2>3, <3>2
    <3>3. CASE Top(t).op \notin {"SIMPLE", "MULTI"}
      BY <3>3
    <3>4. QED
      BY <3>1, <3>2, <3>3
  <2> HIDE DEF res, b
  <2>5. PICK f \in Call : Edited(t, f) /\ f.pc = "script"
    BY <1>1, <2>1, <2>2, <2>4, EditPython
  <2>6. QED
    BY <1>1, <2>1, <2>5, GuardScript
<1>8. QED
  BY <1>4, <1>5, <1>6, <1>7 DEF Enters

\* A script ends, or takes the process with it.
LEMMA GuardReturns ==
  ASSUME GuardInv, NEW t \in Thread, PerlReturns(t) \/ PythonReturns(t) \/ PerlLost(t)
  PROVE  GuardInv'
<1>1. Busy(t) /\ scene' = scene /\ context' = context
  BY DEF PerlReturns, PerlPlain, PerlList, PerlInput, PerlSimple, PerlMulti, PerlMultiFails,
         PythonReturns, PythonPlain, PythonRead, PythonInput, PythonSimple, PythonMulti,
         PerlLost, Crash, At, lifeVars
<1>2. Return(t) \/ (lock' = lock /\ stack' = stack)
  BY DEF PerlReturns, PerlPlain, PerlList, PerlInput, PerlSimple, PerlMulti, PerlMultiFails,
         PythonReturns, PythonPlain, PythonRead, PythonInput, PythonSimple, PythonMulti,
         PythonReturn, PerlLost, Crash, lockVars
<1>3. CASE Return(t)
  BY <1>1, <1>3, SameContext, LastStep
<1>4. CASE lock' = lock /\ stack' = stack
  BY <1>1, <1>4 DEF GuardInv, Framed, LockOK, CallsOf, Holds, PerlNotRead
<1>5. QED
  BY <1>2, <1>3, <1>4

LEMMA GuardNext ==
  ASSUME GuardInv, Stuffed, [Next]_vars
  PROVE  GuardInv'
<1>0. Framed /\ Present \subseteq Module
  BY PresentModules DEF GuardInv
<1>1. ASSUME UNCHANGED <<scene, lock, context, stack>>
      PROVE  GuardInv'
  BY <1>1 DEF GuardInv, Framed, LockOK, CallsOf, Holds, PerlNotRead
<1>2. ASSUME Lifecycle
      PROVE  GuardInv'
  BY <1>1, <1>2 DEF Lifecycle, PerlNew, PythonNew, PerlInit, PythonInit, GetType, PerlDelete,
                    PythonDelete, Ready, Shutdown, lockVars
<1>3. ASSUME NEW t \in Thread, NEW m \in Present, Fetch(t, m) \/ PassOn(t, m)
      PROVE  GuardInv'
  BY <1>1, <1>3 DEF Fetch, PassOn, lockVars, lifeVars
<1>4. ASSUME NEW t \in Thread, NEW m \in Present,
             PropertyCall(t, m) \/ ControlCall(t, m) \/ ProcessCall(t, m)
      PROVE  GuardInv'
  <2>1. m \in Module /\ UNCHANGED <<scene, lock, context>> /\ ~Busy(t)
    BY <1>0, <1>4 DEF PropertyCall, ControlCall, ProcessCall, lockVars, lifeVars
  <2>2. PICK op \in Op : stack' = [stack EXCEPT ![t] = <<Frame(m, op)>>]
    BY <1>0, <1>4, PresentModules DEF PropertyCall, ControlCall, ProcessCall, Op
  <2>3. QED
    BY <2>1, <2>2, FirstCall
<1>5. ASSUME NEW t \in Thread, NEW n \in Present, ScriptReads(t, n)
      PROVE  GuardInv'
  <2>1. /\ stack' = [stack EXCEPT ![t] = <<Frame(n, "GetProperty")>> \o @]
        /\ UNCHANGED <<scene, lock, context>> /\ <<Top(t).m, n>> \in scene.reads
    BY <1>5 DEF ScriptReads, lifeVars, lockVars
  <2>2. n \in Module /\ "GetProperty" \in Op
    BY <1>0 DEF Op, MayRead
  <2>3. Frame(n, "GetProperty") \in Call /\ Frame(n, "GetProperty").m = n
        /\ Frame(n, "GetProperty").pc = "lock"
    BY <2>2, FrameIsCall
  <2>4. Pushed(t, Frame(n, "GetProperty"))
    BY <1>0, <2>1, <2>3, Push
  <2>5. \A i \in 1..Len(stack[t]) : stack[t][i].m # Frame(n, "GetProperty").m
    <3>1. stack[t] \in Seq(Call)
      BY <1>0 DEF Framed
    <3>2. DOMAIN stack[t] = 1..Len(stack[t])
      BY <3>1
    <3>3. QED
      BY <1>5, <2>3, <3>2 DEF ScriptReads
  <2>6. PerlNotRead => n \notin Perl
    BY <2>1 DEF PerlNotRead
  <2>7. QED
    BY <2>1, <2>3, <2>4, <2>5, <2>6, Begins
<1>6. ASSUME NEW t \in Thread, Proceeds(t) \/ Yield(t)
      PROVE  GuardInv'
  BY <1>6, GuardAcquire, GuardUpgrade, GuardRelock, GuardEnter, GuardYield DEF Proceeds
<1>7. ASSUME NEW t \in Thread, PerlReturns(t) \/ PythonReturns(t) \/ PerlLost(t)
      PROVE  GuardInv'
  BY <1>7, GuardReturns
<1>8. ASSUME UNCHANGED vars
      PROVE  GuardInv'
  BY <1>1, <1>8 DEF vars, lifeVars, lockVars
<1>9. QED
  BY <1>2, <1>3, <1>4, <1>5, <1>6, <1>7, <1>8 DEF Next

\* What the locks and the context are for.
LEMMA GuardMeans ==
  ASSUME GuardInv
  PROVE  ScriptGuarded
<1>1. ScriptExclusive
  <2>1. SUFFICES ASSUME NEW t \in Thread, NEW u \in Thread, NEW m \in Module, t # u,
                        NEW i \in InScript(t, m), NEW j \in InScript(u, m)
                 PROVE  m \in Python /\ {stack[t][i].op, stack[u][j].op} \subseteq MayRead
    BY DEF ScriptExclusive
  <2>2. PICK f : f = stack[t][i] /\ f.m = m /\ Holds(t, f)
    <3>1. stack[t] \in Seq(Call)
      BY DEF GuardInv, Framed
    <3>2. DOMAIN stack[t] = 1..Len(stack[t])
      BY <3>1
    <3>3. QED
      BY <2>1, <3>2 DEF GuardInv, CallsOf, InScript, Inside
  <2>3. PICK g : g = stack[u][j] /\ g.m = m /\ Holds(u, g)
    <3>1. stack[u] \in Seq(Call)
      BY DEF GuardInv, Framed
    <3>2. DOMAIN stack[u] = 1..Len(stack[u])
      BY <3>1
    <3>3. QED
      BY <2>1, <3>2 DEF GuardInv, CallsOf, InScript, Inside
  <2>4. (lock[m].w # NoOne => lock[m].r = {}) /\ NoOne \notin Thread
    BY PresentModules DEF GuardInv, LockOK
  <2>5. m \in Python /\ f.op \in MayRead /\ g.op \in MayRead
    BY <2>1, <2>2, <2>3, <2>4 DEF Holds
  <2>6. QED
    BY <2>2, <2>3, <2>5
<1>2. ContextIsMine
  <2>1. SUFFICES ASSUME PerlNotRead, NEW t \in Thread, At(t, "script"), Top(t).m \in Perl
                 PROVE  context[t] = Top(t).m
    BY DEF ContextIsMine, PerlNotRead
  <2>2. Top(t) = stack[t][1] /\ 1 \in 1..Len(stack[t]) /\ Top(t).pc \in Running
    BY <2>1, TopCall DEF GuardInv, At, Running
  <2>3. QED
    BY <2>1, <2>2 DEF GuardInv, CallsOf
<1>3. QED
  BY <1>1, <1>2 DEF ScriptGuarded

LEMMA GuardInit == Init => GuardInv /\ Stuffed
<1> SUFFICES ASSUME Init PROVE GuardInv /\ Stuffed
  OBVIOUS
<1>2. Framed
  <2>1. stack \in [Thread -> Seq(Call)] /\ scene \in Scenes
    BY DEF Init
  <2>2. Free \in ObjectLock
    BY DEF Free, ObjectLock
  <2>3. lock \in [Module -> ObjectLock]
    BY <2>2 DEF Init
  <2>4. QED
    BY <2>1, <2>3 DEF Framed
<1>3. LockOK
  BY DEF Init, LockOK, Free
<1>4. context \in [Thread -> Module \cup {NoOne}] /\ Stuffed
  BY DEF Init, Stuffed, Stuff
<1>5. ASSUME NEW t \in Thread
      PROVE  CallsOf(t)
  <2>1. stack[t] = <<>>
    BY DEF Init
  <2>2. 1..Len(stack[t]) = {}
    BY <2>1
  <2>3. QED
    BY <2>2, Zenon DEF CallsOf
<1>6. QED
  BY <1>2, <1>3, <1>4, <1>5 DEF GuardInv

(***************************************************************************)
(* One thread at a time runs the script of a module, apart from readers in *)
(* a Python module, through the trade of a read lock for a write lock in   *)
(* PerlModule::GetPropertySync, the release of the GIL in the middle of a  *)
(* Python script and calls that nest to any depth; and a Perl script runs  *)
(* in the interpreter of its module, as long as no script reads a property *)
(* of a Perl module (PERL_SET_CONTEXT is never undone).                    *)
(***************************************************************************)
THEOREM Guarded == Spec => []ScriptGuarded
<1>1. Init => GuardInv /\ Stuffed
  BY GuardInit
<1>2. (GuardInv /\ Stuffed) /\ [Next]_vars => (GuardInv /\ Stuffed)'
  <2>1. GuardInv => Framed
    BY DEF GuardInv
  <2>2. QED
    BY <2>1, GuardNext, StuffedStep
<1>3. GuardInv => ScriptGuarded
  BY GuardMeans
<1>4. QED
  BY <1>1, <1>2, <1>3, PTL DEF Spec

(***************************************************************************)
(* Whose a resource is.  A processing call is the outermost one of its     *)
(* thread, which is the one its module belongs to; the resource of a SIMPLE*)
(* call is in the thread's hand until the script has it, and the queues of *)
(* a Python MULTI module are empty while its script has what was in them.  *)
(***************************************************************************)
FrameOK(t, f) ==
  /\ f.op \in Kind => f.m \in Present /\ scene.owner[f.m] = t
  /\ f.op \notin {"SIMPLE", "MULTI"} \/ f.pc \notin Running => f.args = {}
  /\ f.op = "SIMPLE" => (hand[t] = NoOne <=> f.pc \in Running)
  /\ f.op \in {"INPUT", "MULTI"} => hand[t] = NoOne
  /\ f.op = "MULTI" /\ f.m \in Python /\ f.pc \in Running => inq[f.m] = {} /\ outq[f.m] = {}

Tidy(t) ==
  \A i \in 1..Len(stack[t]) :
    FrameOK(t, stack[t][i]) /\ (stack[t][i].op \in Kind => i = Len(stack[t]))

\* The places a resource can be in: the hand of a thread, the objects its
\* script got, what the script of a module keeps, the queues of a module, an
\* array that nothing refers to, and the rest of the engine.
Given(t) == IF stack[t] = <<>> THEN {} ELSE stack[t][Len(stack[t])].args

Place ==
  ({"hand", "given"} \X Thread) \cup ({"kept", "inq", "outq"} \X Module)
  \cup {<<"pool", NoOne>>, <<"stuck", NoOne>>}

Content(p) ==
  CASE p[1] = "hand" -> {hand[p[2]]} \ {NoOne}
    [] p[1] = "given" -> Given(p[2])
    [] p[1] = "kept" -> kept[p[2]]
    [] p[1] = "inq" -> inq[p[2]]
    [] p[1] = "outq" -> outq[p[2]]
    [] p[1] = "pool" -> pool
    [] OTHER -> stuck

Scripted == {"given", "kept", "stuck"}

OwnedInv ==
  /\ \A p, q \in Place : \A r \in Content(p) \cap Content(q) : p = q
  /\ \A r \in own : \E p \in Place : p[1] \in Scripted /\ r \in Content(p)
  /\ \A p \in Place : p[1] \in Scripted => Content(p) \subseteq own
  /\ \A r \in Resource \ Unbound : \E p \in Place : r \in Content(p)
  /\ \A p \in Place : Content(p) \subseteq Resource

LEMMA ContentIs ==
  /\ \A t : Content(<<"hand", t>>) = {hand[t]} \ {NoOne} /\ Content(<<"given", t>>) = Given(t)
  /\ \A m : /\ Content(<<"kept", m>>) = kept[m]
            /\ Content(<<"inq", m>>) = inq[m] /\ Content(<<"outq", m>>) = outq[m]
  /\ Content(<<"pool", NoOne>>) = pool /\ Content(<<"stuck", NoOne>>) = stuck
  BY DEF Content

LEMMA ContentBecomes ==
  /\ \A t : Content(<<"hand", t>>)' = {hand'[t]} \ {NoOne} /\ Content(<<"given", t>>)' = Given(t)'
  /\ \A m : /\ Content(<<"kept", m>>)' = kept'[m]
            /\ Content(<<"inq", m>>)' = inq'[m] /\ Content(<<"outq", m>>)' = outq'[m]
  /\ Content(<<"pool", NoOne>>)' = pool' /\ Content(<<"stuck", NoOne>>)' = stuck'
  BY DEF Content

\* Resources move between the places of L only.
LEMMA Moves ==
  ASSUME OwnedInv, NEW L \in SUBSET Place,
         \A p \in Place \ L : Content(p)' = Content(p),
         \A p, q \in L : \A r \in Content(p)' \cap Content(q)' : p = q,
         \A p \in L : \A r \in Content(p)' : \E q \in L : r \in Content(q),
         \A p \in L : \A r \in Content(p) : r \in Unbound \/ \E q \in L : r \in Content(q)',
         \A p \in L : p[1] \in Scripted => Content(p)' \subseteq own',
         \A r \in own' : \/ \E p \in L : p[1] \in Scripted /\ r \in Content(p)'
                         \/ r \in own /\ \A p \in L : p[1] \in Scripted => r \notin Content(p),
         \A r \in own : r \notin own' => \E p \in L : r \in Content(p)
  PROVE  OwnedInv'
<1>1. /\ \A p, q \in Place : \A r \in Content(p) \cap Content(q) : p = q
      /\ \A r \in own : \E p \in Place : p[1] \in Scripted /\ r \in Content(p)
      /\ \A p \in Place : p[1] \in Scripted => Content(p) \subseteq own
      /\ \A r \in Resource \ Unbound : \E p \in Place : r \in Content(p)
      /\ \A p \in Place : Content(p) \subseteq Resource
  BY DEF OwnedInv
<1>2. ASSUME NEW p \in Place, NEW q \in Place, NEW r \in Content(p)' \cap Content(q)'
      PROVE  p = q
  <2>1. CASE p \in L /\ q \in L
    BY <2>1
  <2>2. CASE p \in L /\ q \notin L
    <3>1. PICK p1 \in L : r \in Content(p1)
      BY <2>2
    <3>2. r \in Content(q)
      BY <2>2
    <3>3. QED
      BY <1>1, <2>2, <3>1, <3>2
  <2>3. CASE p \notin L /\ q \in L
    <3>1. PICK p1 \in L : r \in Content(p1)
      BY <2>3
    <3>2. r \in Content(p)
      BY <2>3
    <3>3. QED
      BY <1>1, <2>3, <3>1, <3>2
  <2>4. CASE p \notin L /\ q \notin L
    BY <1>1, <2>4
  <2>5. QED
    BY <2>1, <2>2, <2>3, <2>4
<1>3. ASSUME NEW r \in own'
      PROVE  \E p \in Place : p[1] \in Scripted /\ r \in Content(p)'
  BY <1>1
<1>4. ASSUME NEW p \in Place, p[1] \in Scripted
      PROVE  Content(p)' \subseteq own'
  BY <1>1, <1>4
<1>5. ASSUME NEW r \in Resource \ Unbound
      PROVE  \E p \in Place : r \in Content(p)'
  BY <1>1
<1>6. ASSUME NEW p \in Place
      PROVE  Content(p)' \subseteq Resource
  BY <1>1
<1>7. QED
  BY <1>2, <1>3, <1>4, <1>5, <1>6 DEF OwnedInv

LEMMA NoneMoves ==
  ASSUME OwnedInv, UNCHANGED resVars, \A t \in Thread : Given(t)' = Given(t)
  PROVE  OwnedInv'
<1>1. ASSUME NEW p \in Place
      PROVE  Content(p)' = Content(p)
  <2>1. CASE p[1] = "given"
    <3>1. p[2] \in Thread
      BY <2>1 DEF Place
    <3>2. QED
      BY <2>1, <3>1 DEF Content
  <2>2. CASE p[1] # "given"
    BY <2>2 DEF Content, resVars
  <2>3. QED
    BY <2>1, <2>2
<1>2. own' = own
  BY DEF resVars
<1>3. QED
  <2> DEFINE L == {}
  <2>1. L \in SUBSET Place /\ \A p : p \notin L
    OBVIOUS
  <2> HIDE DEF L
  <2>2. QED
    BY <1>1, <1>2, <2>1, Moves

\* The places that a step of t in a call of module m can reach.
Apart7(h, a, k, i, o, p, s) ==
  /\ h \cap (a \cup k \cup i \cup o \cup p \cup s) = {}
  /\ a \cap (k \cup i \cup o \cup p \cup s) = {}
  /\ k \cap (i \cup o \cup p \cup s) = {}
  /\ i \cap (o \cup p \cup s) = {}
  /\ o \cap (p \cup s) = {}
  /\ p \cap s = {}

Reach(t, m) ==
  {<<"hand", t>>, <<"given", t>>, <<"kept", m>>, <<"inq", m>>, <<"outq", m>>,
   <<"pool", NoOne>>, <<"stuck", NoOne>>}

LEMMA ReachIsPlace ==
  ASSUME NEW t \in Thread, NEW m \in Module
  PROVE  /\ Reach(t, m) \subseteq Place
         /\ \A p \in Reach(t, m) : p[1] \in Scripted <=> p \in {<<"given", t>>, <<"kept", m>>, <<"stuck", NoOne>>}
  BY DEF Reach, Place, Scripted

LEMMA View ==
  ASSUME OwnedInv, NEW t \in Thread, NEW m \in Module
  PROVE  /\ Apart7({hand[t]} \ {NoOne}, Given(t), kept[m], inq[m], outq[m], pool, stuck)
         /\ Given(t) \cup kept[m] \cup stuck \subseteq own
         /\ own \cap (({hand[t]} \ {NoOne}) \cup inq[m] \cup outq[m] \cup pool) = {}
         /\ Given(t) \cup kept[m] \cup inq[m] \cup outq[m] \cup pool \cup stuck \subseteq Resource
<1>1. /\ \A p, q \in Place : \A r \in Content(p) \cap Content(q) : p = q
      /\ \A r \in own : \E p \in Place : p[1] \in Scripted /\ r \in Content(p)
      /\ \A p \in Place : p[1] \in Scripted => Content(p) \subseteq own
      /\ \A p \in Place : Content(p) \subseteq Resource
  BY DEF OwnedInv
<1>2. Reach(t, m) \subseteq Place
  BY ReachIsPlace
<1>3. \A p, q \in Reach(t, m) : p # q => Content(p) \cap Content(q) = {}
  BY <1>1, <1>2
<1>4. Apart7({hand[t]} \ {NoOne}, Given(t), kept[m], inq[m], outq[m], pool, stuck)
  <2>1. /\ <<"hand", t>> \in Reach(t, m) /\ <<"given", t>> \in Reach(t, m) /\ <<"kept", m>> \in Reach(t, m)
        /\ <<"inq", m>> \in Reach(t, m) /\ <<"outq", m>> \in Reach(t, m)
        /\ <<"pool", NoOne>> \in Reach(t, m) /\ <<"stuck", NoOne>> \in Reach(t, m)
    BY DEF Reach
  <2>2. /\ <<"hand", t>> \notin {<<"given", t>>, <<"kept", m>>, <<"inq", m>>, <<"outq", m>>, <<"pool", NoOne>>, <<"stuck", NoOne>>}
        /\ <<"given", t>> \notin {<<"kept", m>>, <<"inq", m>>, <<"outq", m>>, <<"pool", NoOne>>, <<"stuck", NoOne>>}
        /\ <<"kept", m>> \notin {<<"inq", m>>, <<"outq", m>>, <<"pool", NoOne>>, <<"stuck", NoOne>>}
        /\ <<"inq", m>> \notin {<<"outq", m>>, <<"pool", NoOne>>, <<"stuck", NoOne>>}
        /\ <<"outq", m>> \notin {<<"pool", NoOne>>, <<"stuck", NoOne>>}
        /\ <<"pool", NoOne>> # <<"stuck", NoOne>>
    OBVIOUS
  <2> DEFINE H == <<"hand", t>>
             A == <<"given", t>>
             K == <<"kept", m>>
             I == <<"inq", m>>
             O == <<"outq", m>>
             P == <<"pool", NoOne>>
             S == <<"stuck", NoOne>>
  <2>3. /\ Content(H) = {hand[t]} \ {NoOne} /\ Content(A) = Given(t) /\ Content(K) = kept[m]
        /\ Content(I) = inq[m] /\ Content(O) = outq[m] /\ Content(P) = pool /\ Content(S) = stuck
    BY ContentIs
  <2>4. /\ H \in Reach(t, m) /\ A \in Reach(t, m) /\ K \in Reach(t, m) /\ I \in Reach(t, m)
        /\ O \in Reach(t, m) /\ P \in Reach(t, m) /\ S \in Reach(t, m)
        /\ H \notin {A, K, I, O, P, S} /\ A \notin {K, I, O, P, S} /\ K \notin {I, O, P, S}
        /\ I \notin {O, P, S} /\ O \notin {P, S} /\ P # S
    BY <2>1, <2>2
  <2> HIDE DEF H, A, K, I, O, P, S
  <2>5. Apart7(Content(H), Content(A), Content(K), Content(I), Content(O), Content(P), Content(S))
    BY <1>3, <2>4 DEF Apart7
  <2>6. QED
    BY <2>3, <2>5
<1>5. /\ \A p \in Reach(t, m) : p[1] \in Scripted => Content(p) \subseteq own
      /\ \A p \in Reach(t, m) : p[1] \notin Scripted => Content(p) \cap own = {}
      /\ \A p \in Reach(t, m) : Content(p) \subseteq Resource
  BY <1>1, <1>2
<1>6. Given(t) \cup kept[m] \cup stuck \subseteq own
  <2>1. /\ <<"given", t>> \in Reach(t, m) /\ <<"kept", m>> \in Reach(t, m) /\ <<"stuck", NoOne>> \in Reach(t, m)
        /\ <<"given", t>>[1] \in Scripted /\ <<"kept", m>>[1] \in Scripted /\ <<"stuck", NoOne>>[1] \in Scripted
    BY DEF Reach, Scripted
  <2>2. QED
    BY <1>5, <2>1, ContentIs
<1>7. own \cap (({hand[t]} \ {NoOne}) \cup inq[m] \cup outq[m] \cup pool) = {}
  <2>1. /\ <<"hand", t>> \in Reach(t, m) /\ <<"inq", m>> \in Reach(t, m)
        /\ <<"outq", m>> \in Reach(t, m) /\ <<"pool", NoOne>> \in Reach(t, m)
        /\ <<"hand", t>>[1] \notin Scripted /\ <<"inq", m>>[1] \notin Scripted
        /\ <<"outq", m>>[1] \notin Scripted /\ <<"pool", NoOne>>[1] \notin Scripted
    BY DEF Reach, Scripted
  <2>2. QED
    BY <1>5, <2>1, ContentIs
<1>8. Given(t) \cup kept[m] \cup inq[m] \cup outq[m] \cup pool \cup stuck \subseteq Resource
  <2>1. /\ <<"given", t>> \in Reach(t, m) /\ <<"kept", m>> \in Reach(t, m) /\ <<"inq", m>> \in Reach(t, m)
        /\ <<"outq", m>> \in Reach(t, m) /\ <<"pool", NoOne>> \in Reach(t, m) /\ <<"stuck", NoOne>> \in Reach(t, m)
    BY DEF Reach
  <2>2. QED
    BY <1>5, <2>1, ContentIs
<1>9. QED
  BY <1>4, <1>6, <1>7, <1>8

\* Resources move between the places within reach.
LEMMA Shift ==
  ASSUME OwnedInv, NEW t \in Thread, NEW m \in Module,
         NEW h, NEW a, NEW k, NEW i, NEW o, NEW p, NEW s,
         h = {hand'[t]} \ {NoOne}, a = Given(t)', k = kept'[m],
         i = inq'[m], o = outq'[m], p = pool', s = stuck',
         \A u \in Thread \ {t} : hand'[u] = hand[u] /\ Given(u)' = Given(u),
         \A n \in Module \ {m} : kept'[n] = kept[n] /\ inq'[n] = inq[n] /\ outq'[n] = outq[n],
         Apart7(h, a, k, i, o, p, s),
         h \cup a \cup k \cup i \cup o \cup p \cup s \subseteq
           ({hand[t]} \ {NoOne}) \cup Given(t) \cup kept[m] \cup inq[m] \cup outq[m] \cup pool \cup stuck,
         ({hand[t]} \ {NoOne}) \cup Given(t) \cup kept[m] \cup inq[m] \cup outq[m] \cup pool \cup stuck
           \subseteq h \cup a \cup k \cup i \cup o \cup p \cup s \cup Unbound,
         own' = (own \ (Given(t) \cup kept[m] \cup stuck)) \cup a \cup k \cup s
  PROVE  OwnedInv'
<1> DEFINE L == Reach(t, m)
<1>1. L \in SUBSET Place
  BY ReachIsPlace
<1>2. /\ \A q \in L : q[1] \in Scripted <=> q \in {<<"given", t>>, <<"kept", m>>, <<"stuck", NoOne>>}
      /\ \A q : q \in L <=> q \in {<<"hand", t>>, <<"given", t>>, <<"kept", m>>, <<"inq", m>>, <<"outq", m>>,
                                   <<"pool", NoOne>>, <<"stuck", NoOne>>}
  BY ReachIsPlace DEF Reach
<1>3. ASSUME NEW q \in Place \ L
      PROVE  Content(q)' = Content(q)
  <2>1. CASE q \in {"hand", "given"} \X Thread
    <3>1. PICK u \in Thread : q = <<"hand", u>> \/ q = <<"given", u>>
      BY <2>1
    <3>2. u # t
      BY <1>2, <3>1
    <3>3. QED
      BY <3>1, <3>2, ContentIs, ContentBecomes
  <2>2. CASE q \in {"kept", "inq", "outq"} \X Module
    <3>1. PICK n \in Module : q = <<"kept", n>> \/ q = <<"inq", n>> \/ q = <<"outq", n>>
      BY <2>2
    <3>2. n # m
      BY <1>2, <3>1
    <3>3. QED
      BY <3>1, <3>2, ContentIs, ContentBecomes
  <2>3. QED
    BY <1>2, <2>1, <2>2 DEF Place
<1> DEFINE H == <<"hand", t>>
           A == <<"given", t>>
           K == <<"kept", m>>
           I == <<"inq", m>>
           O == <<"outq", m>>
           P == <<"pool", NoOne>>
           S == <<"stuck", NoOne>>
<1>4. /\ Content(H) = {hand[t]} \ {NoOne} /\ Content(A) = Given(t) /\ Content(K) = kept[m]
      /\ Content(I) = inq[m] /\ Content(O) = outq[m] /\ Content(P) = pool /\ Content(S) = stuck
  BY ContentIs
<1>5. /\ Content(H)' = h /\ Content(A)' = a /\ Content(K)' = k
      /\ Content(I)' = i /\ Content(O)' = o /\ Content(P)' = p /\ Content(S)' = s
  BY ContentBecomes
<1>6. /\ \A q : q \in L <=> q \in {H, A, K, I, O, P, S}
      /\ \A q \in L : q[1] \in Scripted <=> q \in {A, K, S}
  BY <1>2
<1>20. own' = (own \ (Content(A) \cup Content(K) \cup Content(S))) \cup a \cup k \cup s
  BY <1>4
<1> HIDE DEF L, H, A, K, I, O, P, S
<1>7. \A q, x \in L : \A r \in Content(q)' \cap Content(x)' : q = x
  BY <1>5, <1>6 DEF Apart7
<1>8. \A q \in L : \A r \in Content(q)' : \E x \in L : r \in Content(x)
  <2>1. \A q \in L : \A r \in Content(q)' : r \in h \cup a \cup k \cup i \cup o \cup p \cup s
    BY <1>5, <1>6
  <2>2. \A r \in Content(H) \cup Content(A) \cup Content(K) \cup Content(I) \cup Content(O) \cup Content(P) \cup Content(S) :
          \E x \in L : r \in Content(x)
    BY <1>6
  <2>3. QED
    BY <1>4, <2>1, <2>2
<1>9. \A q \in L : \A r \in Content(q) : r \in Unbound \/ \E x \in L : r \in Content(x)'
  <2>1. \A q \in L : \A r \in Content(q) :
          r \in ({hand[t]} \ {NoOne}) \cup Given(t) \cup kept[m] \cup inq[m] \cup outq[m] \cup pool \cup stuck
    BY <1>4, <1>6
  <2>2. \A r \in h \cup a \cup k \cup i \cup o \cup p \cup s : \E x \in L : r \in Content(x)'
    BY <1>5, <1>6
  <2>3. QED
    BY <2>1, <2>2
<1>10. \A q \in L : q[1] \in Scripted => Content(q)' \subseteq own'
  BY <1>5, <1>6
<1>11. \A r \in own' : \/ \E q \in L : q[1] \in Scripted /\ r \in Content(q)'
                       \/ r \in own /\ \A q \in L : q[1] \in Scripted => r \notin Content(q)
  <2>1. SUFFICES ASSUME NEW r \in own'
                 PROVE  \/ \E q \in L : q[1] \in Scripted /\ r \in Content(q)'
                        \/ r \in own /\ \A q \in L : q[1] \in Scripted => r \notin Content(q)
    OBVIOUS
  <2>2. CASE r \in a \cup k \cup s
    BY <1>5, <1>6, <2>2
  <2>3. CASE r \notin a \cup k \cup s
    <3>1. r \in own /\ r \notin Content(A) /\ r \notin Content(K) /\ r \notin Content(S)
      BY <1>20, <2>3
    <3>2. \A q \in L : q[1] \in Scripted => r \notin Content(q)
      BY <1>6, <3>1
    <3>3. QED
      BY <3>1, <3>2
  <2>4. QED
    BY <2>2, <2>3
<1>12. \A r \in own : r \notin own' => \E q \in L : r \in Content(q)
  <2>1. \A r \in own : r \notin own' => r \in Content(A) \cup Content(K) \cup Content(S)
    BY <1>20
  <2>2. QED
    BY <1>6, <2>1
<1>13. QED
  BY <1>1, <1>3, <1>7, <1>8, <1>9, <1>10, <1>11, <1>12, Moves

\* A step of t in a module of its own leaves the other threads as they are.
LEMMA OthersTidy ==
  ASSUME Framed, \A u \in Thread : Tidy(u), NEW t \in Thread, OtherStacks(t), scene' = scene,
         \A u \in Thread \ {t} : hand'[u] = hand[u],
         \A n \in Module : \/ inq'[n] = inq[n] /\ outq'[n] = outq[n]
                           \/ n \in Present /\ scene.owner[n] = t
  PROVE  \A u \in Thread \ {t} : Tidy(u)' /\ Given(u)' = Given(u)
<1> SUFFICES ASSUME NEW u \in Thread \ {t}
             PROVE  Tidy(u)' /\ Given(u)' = Given(u)
  OBVIOUS
<1>1. stack'[u] = stack[u] /\ hand'[u] = hand[u] /\ Tidy(u)
  BY DEF OtherStacks
<1>2. PICK s \in Seq(Call) : s = stack[u]
  BY DEF Framed
<1>3. ASSUME NEW f \in Call, FrameOK(u, f)
      PROVE  FrameOK(u, f)'
  <2>1. f.m \in Module
    BY DEF Call
  <2>2. f.op = "MULTI" => inq'[f.m] = inq[f.m] /\ outq'[f.m] = outq[f.m]
    BY <1>3, <2>1 DEF FrameOK, Kind
  <2>3. QED
    BY <1>1, <1>3, <2>2 DEF FrameOK, Present
<1>4. \A i \in 1..Len(s) : s[i] \in Call
  BY <1>2
<1>5. Tidy(u)'
  BY <1>1, <1>2, <1>3, <1>4 DEF Tidy
<1>6. QED
  BY <1>1, <1>5 DEF Given

\* A processing call is the only call its thread is in.
LEMMA Single ==
  ASSUME Framed, NEW t \in Thread, Busy(t), Tidy(t)
  PROVE  /\ FrameOK(t, Top(t))
         /\ Top(t).op \in Kind => Len(stack[t]) = 1 /\ Given(t) = Top(t).args
<1>1. Top(t) = stack[t][1] /\ 1 \in 1..Len(stack[t]) /\ stack[t] # <<>>
  BY TopCall DEF Busy
<1>2. FrameOK(t, Top(t)) /\ (Top(t).op \in Kind => 1 = Len(stack[t]))
  BY <1>1 DEF Tidy
<1>3. QED
  BY <1>1, <1>2 DEF Given

LEMMA SinglePop ==
  ASSUME Framed, NEW t \in Thread, Busy(t), Len(stack[t]) = 1, Popped(t)
  PROVE  Given(t)' = {} /\ Tidy(t)'
<1>1. PICK z \in Seq(Call) : z = stack'[t] /\ Len(z) = 0
  BY DEF Popped, OtherStacks
<1>2. z = <<>> /\ 1..Len(z) = {}
  BY <1>1
<1>3. Given(t)' = {}
  BY <1>1, <1>2 DEF Given
<1>4. Tidy(t)'
  BY <1>1, <1>2, Zenon DEF Tidy
<1>5. QED
  BY <1>3, <1>4

LEMMA SingleEdit ==
  ASSUME Framed, NEW t \in Thread, Busy(t), Len(stack[t]) = 1, NEW f \in Call, Edited(t, f), FrameOK(t, f)'
  PROVE  Given(t)' = f.args /\ Tidy(t)'
<1>1. PICK z \in Seq(Call) : z = stack'[t] /\ Len(z) = 1 /\ z[1] = f
  BY DEF Edited, OtherStacks
<1>2. z # <<>> /\ 1..Len(z) = {1}
  BY <1>1
<1>3. Given(t)' = f.args
  BY <1>1, <1>2 DEF Given
<1>4. Tidy(t)'
  BY <1>1, <1>2 DEF Tidy
<1>5. QED
  BY <1>3, <1>4

(***************************************************************************)
(* Steps that move no resource.                                            *)
(***************************************************************************)
OwnInv == (\A t \in Thread : Tidy(t)) /\ OwnedInv

LEMMA QuietEdit ==
  ASSUME Framed, OwnInv, NEW t \in Thread, Busy(t), NEW f \in Call, Edited(t, f),
         UNCHANGED <<scene, resVars>>, f.args = Top(t).args,
         f.op \in {"SIMPLE", "MULTI"} => (f.pc \in Running <=> Top(t).pc \in Running)
  PROVE  OwnInv'
<1>0. /\ \A u \in Thread : Tidy(u)
      /\ OwnedInv /\ scene' = scene /\ UNCHANGED resVars
      /\ hand' = hand /\ inq' = inq /\ outq' = outq
  BY DEF OwnInv, resVars
<1>1. OtherStacks(t)
  BY DEF Edited
<1>2. \A u \in Thread \ {t} : Tidy(u)' /\ Given(u)' = Given(u)
  BY <1>0, <1>1, OthersTidy
<1>3. PICK s \in Seq(Call) : s = stack[t]
  BY DEF Framed
<1>4. PICK z \in Seq(Call) : z = stack'[t]
  BY <1>1 DEF OtherStacks
<1>5. /\ s # <<>> /\ Len(z) = Len(s) /\ Len(s) \in Nat \ {0} /\ Top(t) = s[1]
      /\ z[1] = f /\ f.m = s[1].m /\ f.op = s[1].op
      /\ \A i \in 2..Len(s) : z[i] = s[i]
  BY <1>3, <1>4, TopCall DEF Edited
<1>6. FrameOK(t, Top(t)) /\ Tidy(t)
  BY <1>0, Single
<1>7. FrameOK(t, f)'
  BY <1>0, <1>5, <1>6 DEF FrameOK, Present
<1>8. ASSUME NEW i \in 1..Len(z)
      PROVE  FrameOK(t, z[i])' /\ (z[i].op \in Kind => i = Len(z)) /\ z[i].args = s[i].args
  <2>1. CASE i = 1
    <3>1. 1 \in 1..Len(s)
      BY <1>5
    <3>2. QED
      BY <1>3, <1>5, <1>6, <1>7, <2>1, <3>1 DEF Tidy
  <2>2. CASE i # 1
    <3>1. i \in 2..Len(s) /\ i \in 1..Len(s)
      BY <1>5, <2>2
    <3>2. z[i] = s[i] /\ FrameOK(t, s[i]) /\ (s[i].op \in Kind => i = Len(s))
      BY <1>3, <1>5, <1>6, <3>1 DEF Tidy
    <3>3. FrameOK(t, s[i])'
      BY <1>0, <3>2 DEF FrameOK, Present
    <3>4. QED
      BY <1>5, <3>2, <3>3
  <2>3. QED
    BY <2>1, <2>2
<1>9. Tidy(t)'
  BY <1>4, <1>8 DEF Tidy
<1>10. Given(t)' = Given(t)
  <2>1. Len(z) \in 1..Len(z) /\ z # <<>>
    BY <1>5
  <2>2. QED
    BY <1>3, <1>4, <1>5, <1>8, <2>1 DEF Given
<1>11. OwnedInv'
  BY <1>0, <1>2, <1>10, NoneMoves
<1>12. QED
  BY <1>2, <1>9, <1>11 DEF OwnInv

LEMMA QuietPush ==
  ASSUME Framed, OwnInv, NEW t \in Thread, NEW f \in Call, Pushed(t, f),
         UNCHANGED <<scene, resVars>>, FrameOK(t, f), f.args = {},
         f.op \in Kind => stack[t] = <<>>
  PROVE  OwnInv'
<1>0. /\ \A u \in Thread : Tidy(u)
      /\ OwnedInv /\ scene' = scene /\ UNCHANGED resVars
      /\ hand' = hand /\ inq' = inq /\ outq' = outq
  BY DEF OwnInv, resVars
<1>1. OtherStacks(t)
  BY DEF Pushed
<1>2. \A u \in Thread \ {t} : Tidy(u)' /\ Given(u)' = Given(u)
  BY <1>0, <1>1, OthersTidy
<1>3. PICK s \in Seq(Call) : s = stack[t]
  BY DEF Framed
<1>4. PICK z \in Seq(Call) : z = stack'[t]
  BY <1>1 DEF OtherStacks
<1>5. /\ Len(z) = Len(s) + 1 /\ Len(s) \in Nat
      /\ z[1] = f
      /\ \A i \in 1..Len(s) : z[i + 1] = s[i]
  BY <1>3, <1>4 DEF Pushed
<1>6. ASSUME NEW g, FrameOK(t, g)
      PROVE  FrameOK(t, g)'
  BY <1>0, <1>6 DEF FrameOK, Present
<1>7. ASSUME NEW i \in 1..Len(z)
      PROVE  FrameOK(t, z[i])' /\ (z[i].op \in Kind => i = Len(z))
  <2>1. CASE i = 1
    <3>1. s = <<>> => Len(s) = 0
      OBVIOUS
    <3>2. QED
      BY <1>3, <1>5, <1>6, <2>1, <3>1
  <2>2. CASE i # 1
    <3>1. PICK j \in 1..Len(s) : i = j + 1
      BY <1>5, <2>2
    <3>2. z[i] = s[j] /\ FrameOK(t, s[j]) /\ (s[j].op \in Kind => j = Len(s))
      BY <1>0, <1>3, <1>5, <3>1 DEF Tidy
    <3>3. QED
      BY <1>5, <1>6, <3>1, <3>2
  <2>3. QED
    BY <2>1, <2>2
<1>8. Tidy(t)'
  BY <1>4, <1>7 DEF Tidy
<1>9. Given(t)' = Given(t)
  <2>1. z # <<>>
    BY <1>5
  <2>2. CASE s = <<>>
    <3>1. Len(z) = 1
      BY <1>5, <2>2
    <3>2. QED
      BY <1>3, <1>4, <1>5, <2>1, <2>2, <3>1 DEF Given
  <2>3. CASE s # <<>>
    <3>1. Len(s) \in 1..Len(s)
      BY <1>3, <1>5, <2>3
    <3>2. z[Len(z)] = s[Len(s)]
      BY <1>5, <3>1
    <3>3. QED
      BY <1>3, <1>4, <2>1, <2>3, <3>2 DEF Given
  <2>4. QED
    BY <2>2, <2>3
<1>10. OwnedInv'
  BY <1>0, <1>2, <1>9, NoneMoves
<1>11. QED
  BY <1>2, <1>8, <1>10 DEF OwnInv

LEMMA QuietPop ==
  ASSUME Framed, OwnInv, NEW t \in Thread, Busy(t), Popped(t), Top(t).op \notin Kind,
         UNCHANGED <<scene, resVars>>
  PROVE  OwnInv'
<1>0. /\ \A u \in Thread : Tidy(u)
      /\ OwnedInv /\ scene' = scene /\ UNCHANGED resVars
      /\ hand' = hand /\ inq' = inq /\ outq' = outq
  BY DEF OwnInv, resVars
<1>1. OtherStacks(t)
  BY DEF Popped
<1>2. \A u \in Thread \ {t} : Tidy(u)' /\ Given(u)' = Given(u)
  BY <1>0, <1>1, OthersTidy
<1>3. PICK s \in Seq(Call) : s = stack[t]
  BY DEF Framed
<1>4. PICK z \in Seq(Call) : z = stack'[t]
  BY <1>1 DEF OtherStacks
<1>5. /\ Len(z) = Len(s) - 1 /\ Len(s) \in Nat \ {0} /\ s # <<>> /\ Top(t) = s[1]
      /\ \A i \in 1..Len(s) - 1 : z[i] = s[i + 1]
  BY <1>3, <1>4, TopCall DEF Popped
<1>6. ASSUME NEW g, FrameOK(t, g)
      PROVE  FrameOK(t, g)'
  BY <1>0, <1>6 DEF FrameOK, Present
<1>7. ASSUME NEW i \in 1..Len(z)
      PROVE  FrameOK(t, z[i])' /\ (z[i].op \in Kind => i = Len(z))
  <2>1. PICK j \in 1..Len(s) : j = i + 1
    BY <1>5
  <2>2. z[i] = s[j] /\ FrameOK(t, s[j]) /\ (s[j].op \in Kind => j = Len(s))
    BY <1>0, <1>3, <1>5, <2>1 DEF Tidy
  <2>3. QED
    BY <1>5, <1>6, <2>1, <2>2
<1>8. Tidy(t)'
  BY <1>4, <1>7 DEF Tidy
<1>9. Given(t)' = Given(t)
  <2>1. CASE Len(s) = 1
    <3>1. FrameOK(t, Top(t))
      BY <1>0, Single
    <3>2. Top(t).args = {}
      BY <3>1 DEF FrameOK, Kind
    <3>3. z = <<>>
      BY <1>5, <2>1
    <3>4. QED
      BY <1>3, <1>4, <1>5, <2>1, <3>2, <3>3 DEF Given
  <2>2. CASE Len(s) # 1
    <3>1. z # <<>> /\ Len(s) - 1 \in 1..Len(s) - 1 /\ Len(z) = Len(s) - 1 /\ (Len(s) - 1) + 1 = Len(s)
      BY <1>5, <2>2
    <3>2. z[Len(z)] = s[Len(s)]
      BY <1>5, <3>1
    <3>3. QED
      BY <1>3, <1>4, <1>5, <3>1, <3>2 DEF Given
  <2>3. QED
    BY <2>1, <2>2
<1>10. OwnedInv'
  BY <1>0, <1>2, <1>9, NoneMoves
<1>11. QED
  BY <1>2, <1>8, <1>10 DEF OwnInv

(***************************************************************************)
(* Steps that move resources: a thread with no call or in a processing call*)
(* of a module that belongs to it.                                         *)
(***************************************************************************)
\* Only t's hand and what belongs to m change.
OnlyOf(t, m) ==
  /\ \A u \in Thread \ {t} : hand'[u] = hand[u]
  /\ \A n \in Module \ {m} : kept'[n] = kept[n] /\ inq'[n] = inq[n] /\ outq'[n] = outq[n]

\* The places within reach before and after: each resource is still in one
\* place, none is new, only one whose class is unknown is lost, and the owner
\* marks (w) follow.
Moved(h, a, k, i, o, p, s, w, h1, a1, k1, i1, o1, p1, s1, w1) ==
  /\ Apart7(h1, a1, k1, i1, o1, p1, s1)
  /\ h1 \cup a1 \cup k1 \cup i1 \cup o1 \cup p1 \cup s1 \subseteq h \cup a \cup k \cup i \cup o \cup p \cup s
  /\ h \cup a \cup k \cup i \cup o \cup p \cup s
       \subseteq h1 \cup a1 \cup k1 \cup i1 \cup o1 \cup p1 \cup s1 \cup Unbound
  /\ w1 = (w \ (a \cup k \cup s)) \cup a1 \cup k1 \cup s1

LEMMA Loud ==
  ASSUME Framed, OwnInv, NEW t \in Thread, NEW m \in Present, scene.owner[m] = t, scene' = scene,
         OtherStacks(t), Tidy(t)', OnlyOf(t, m),
         Moved({hand[t]} \ {NoOne}, Given(t), kept[m], inq[m], outq[m], pool, stuck, own,
               {hand'[t]} \ {NoOne}, Given(t)', kept'[m], inq'[m], outq'[m], pool', stuck', own')
  PROVE  OwnInv'
<1>1. m \in Module
  BY PresentModules
<1>2. \A u \in Thread \ {t} : Tidy(u)' /\ Given(u)' = Given(u)
  <2>1. \A n \in Module : \/ inq'[n] = inq[n] /\ outq'[n] = outq[n]
                          \/ n \in Present /\ scene.owner[n] = t
    BY DEF OnlyOf
  <2>2. QED
    BY <2>1, OthersTidy DEF OwnInv, OnlyOf
<1>3. PICK h, a, k, i, o, p, s :
        /\ h = {hand'[t]} \ {NoOne} /\ a = Given(t)' /\ k = kept'[m]
        /\ i = inq'[m] /\ o = outq'[m] /\ p = pool' /\ s = stuck'
  OBVIOUS
<1>4. Moved({hand[t]} \ {NoOne}, Given(t), kept[m], inq[m], outq[m], pool, stuck, own,
            h, a, k, i, o, p, s, own')
  BY <1>3, Zenon
<1>5. OwnedInv'
  BY <1>1, <1>2, <1>3, <1>4, Shift DEF OwnInv, OnlyOf, Moved
<1>6. QED
  BY <1>2, <1>5 DEF OwnInv

\* A script that has a and k gives back bh, bi and bo, keeps keep and lets go
\* of gone; w is what scripts own.
Parts(h, a, k, i, o, p, s, w, keep, gone, bh, bi, bo) ==
  /\ Apart7(h, a, k, i, o, p, s) /\ a \cup k \cup s \subseteq w /\ w \cap (h \cup i \cup o \cup p) = {}
  /\ keep \subseteq a \cup k /\ (bh \cup bi \cup bo) \cap keep = {} /\ bh \cup bi \cup bo \subseteq a \cup k \cup p
  /\ bh \cap bi = {} /\ bh \cap bo = {} /\ bi \cap bo = {}
  /\ gone = (a \cup k) \ (bh \cup bi \cup bo \cup keep)

LEMMA SettleSets ==
  ASSUME NEW h, NEW a, NEW k, NEW i, NEW o, NEW p, NEW s, NEW w, NEW keep, NEW gone,
         NEW bh, NEW bi, NEW bo, NEW back, back = bh \cup bi \cup bo,
         Parts(h, a, k, i, o, p, s, w, keep, gone, bh, bi, bo)
  PROVE  Moved(h, a, k, i, o, p, s, w,
               h \cup bh, {}, keep, i \cup bi, o \cup bo, (p \ back) \cup (gone \cap w), s, w \ (back \cup gone))
<1> DEFINE q == (p \ back) \cup (gone \cap w)
<1>1. \A r : r \in q <=> (r \in p /\ r \notin back) \/ r \in gone
  BY DEF Parts
<1>2. \A r : r \in gone <=> (r \in a \/ r \in k) /\ r \notin back /\ r \notin keep
  BY DEF Parts
<1>3. \A r : r \in back <=> r \in bh \/ r \in bi \/ r \in bo
  OBVIOUS
<1>4. \A r : /\ r \in h => ~(r \in a \/ r \in k \/ r \in i \/ r \in o \/ r \in p \/ r \in s)
             /\ r \in a => ~(r \in k \/ r \in i \/ r \in o \/ r \in p \/ r \in s)
             /\ r \in k => ~(r \in i \/ r \in o \/ r \in p \/ r \in s)
             /\ r \in i => ~(r \in o \/ r \in p \/ r \in s)
             /\ r \in o => ~(r \in p \/ r \in s)
             /\ r \in p => ~(r \in s)
  BY DEF Parts, Apart7
<1>5. \A r : /\ r \in keep => (r \in a \/ r \in k) /\ r \notin back
             /\ r \in back => r \in a \/ r \in k \/ r \in p
             /\ ~(r \in bh /\ r \in bi) /\ ~(r \in bh /\ r \in bo) /\ ~(r \in bi /\ r \in bo)
             /\ r \in a \/ r \in k \/ r \in s => r \in w
             /\ r \in w => ~(r \in h \/ r \in i \/ r \in o \/ r \in p)
  BY DEF Parts
<1> HIDE DEF q
<1>6. Apart7(h \cup bh, {}, keep, i \cup bi, o \cup bo, q, s)
  BY <1>1, <1>2, <1>3, <1>4, <1>5 DEF Apart7
<1>7. (h \cup bh) \cup {} \cup keep \cup (i \cup bi) \cup (o \cup bo) \cup q \cup s
        \subseteq h \cup a \cup k \cup i \cup o \cup p \cup s
  BY <1>1, <1>2, <1>3, <1>5
<1>8. h \cup a \cup k \cup i \cup o \cup p \cup s
        \subseteq (h \cup bh) \cup {} \cup keep \cup (i \cup bi) \cup (o \cup bo) \cup q \cup s
  BY <1>1, <1>2, <1>3, <1>5
<1>9. w \ (back \cup gone) = (w \ (a \cup k \cup s)) \cup {} \cup keep \cup s
  BY <1>2, <1>3, <1>4, <1>5
<1>10. QED
  <2>1. Moved(h, a, k, i, o, p, s, w, h \cup bh, {}, keep, i \cup bi, o \cup bo, q, s, w \ (back \cup gone))
    BY <1>6, <1>7, <1>8, <1>9 DEF Moved
  <2>2. QED
    BY <2>1 DEF q

\* A processing call ends: back is handed back to the C++ side, to the hand of
\* the thread (bh) and the queues of the module (bi, bo), keep stays with the
\* script and the rest is let go.
HandsBack(t, back, keep, bh, bi, bo) ==
  /\ Settle(t, back, keep)
  /\ keep \subseteq Has(t) /\ back \cap keep = {} /\ back \subseteq Has(t) \cup pool
  /\ back = bh \cup bi \cup bo /\ bh \cap bi = {} /\ bh \cap bo = {} /\ bi \cap bo = {}
  /\ {hand'[t]} \ {NoOne} = ({hand[t]} \ {NoOne}) \cup bh
  /\ \A u \in Thread \ {t} : hand'[u] = hand[u]
  /\ inq'[Top(t).m] = inq[Top(t).m] \cup bi /\ outq'[Top(t).m] = outq[Top(t).m] \cup bo
  /\ \A n \in Module \ {Top(t).m} : inq'[n] = inq[n] /\ outq'[n] = outq[n]

LEMMA SettleMoves ==
  ASSUME Framed, OwnInv, NEW t \in Thread, Busy(t), Top(t).op \in Kind, Popped(t), scene' = scene,
         stuck' = stuck, kept \in [Module -> SUBSET Stuff],
         NEW back, NEW keep, NEW bh, NEW bi, NEW bo, HandsBack(t, back, keep, bh, bi, bo)
  PROVE  OwnInv'
<1>0. OwnedInv /\ Tidy(t)
  BY DEF OwnInv
<1>1. /\ FrameOK(t, Top(t)) /\ Len(stack[t]) = 1 /\ Given(t) = Top(t).args
  BY <1>0, Single
<1>2. PICK m \in Present : m = Top(t).m /\ scene.owner[m] = t /\ m \in Module
  BY <1>1, PresentModules DEF FrameOK
<1>3. Given(t)' = {} /\ Tidy(t)' /\ OtherStacks(t)
  BY <1>1, SinglePop DEF Popped
<1>4. PICK gone : gone = Has(t) \ (back \cup keep)
  OBVIOUS
<1>5. /\ kept' = [kept EXCEPT ![m] = keep]
      /\ own' = own \ (back \cup gone)
      /\ pool' = (pool \ back) \cup (gone \cap own)
  BY <1>2, <1>4 DEF Settle, HandsBack
<1>6. kept'[m] = keep /\ \A n \in Module \ {m} : kept'[n] = kept[n]
  BY <1>2, <1>5
<1>7. OnlyOf(t, m)
  BY <1>2, <1>6 DEF OnlyOf, HandsBack
<1>8. Has(t) = Given(t) \cup kept[m]
  BY <1>1, <1>2 DEF Has
<1>9. PICK h : h = {hand[t]} \ {NoOne}
  OBVIOUS
<1>10. /\ Apart7(h, Given(t), kept[m], inq[m], outq[m], pool, stuck)
       /\ Given(t) \cup kept[m] \cup stuck \subseteq own
       /\ own \cap (h \cup inq[m] \cup outq[m] \cup pool) = {}
  BY <1>0, <1>2, <1>9, View
<1>11. /\ keep \subseteq Given(t) \cup kept[m] /\ back \subseteq Given(t) \cup kept[m] \cup pool
       /\ gone = (Given(t) \cup kept[m]) \ (back \cup keep)
  BY <1>4, <1>8 DEF HandsBack
<1>12. Parts(h, Given(t), kept[m], inq[m], outq[m], pool, stuck, own, keep, gone, bh, bi, bo)
  BY <1>10, <1>11 DEF Parts, HandsBack
<1>13. Moved(h, Given(t), kept[m], inq[m], outq[m], pool, stuck, own, h \cup bh, {}, keep,
             inq[m] \cup bi, outq[m] \cup bo, (pool \ back) \cup (gone \cap own), stuck, own \ (back \cup gone))
  BY <1>12, SettleSets, Zenon DEF HandsBack
<1>14. Moved({hand[t]} \ {NoOne}, Given(t), kept[m], inq[m], outq[m], pool, stuck, own,
             {hand'[t]} \ {NoOne}, Given(t)', kept'[m], inq'[m], outq'[m], pool', stuck', own')
  <2>1. /\ h = {hand[t]} \ {NoOne} /\ h \cup bh = {hand'[t]} \ {NoOne} /\ {} = Given(t)' /\ keep = kept'[m]
        /\ inq[m] \cup bi = inq'[m] /\ outq[m] \cup bo = outq'[m] /\ stuck' = stuck
    BY <1>2, <1>3, <1>6, <1>9 DEF HandsBack
  <2>2. (pool \ back) \cup (gone \cap own) = pool' /\ own \ (back \cup gone) = own'
    BY <1>5
  <2>3. QED
    BY <1>13, <2>1, <2>2, Zenon
<1>15. QED
  BY <1>2, <1>3, <1>7, <1>14, Loud

\* What a script holds is its own, and what it makes comes from the pool.
LEMMA OwnInput ==
  ASSUME Framed, Stuffed, OwnInv, NEW t \in Thread, PerlInput(t) \/ PythonInput(t)
  PROVE  OwnInv'
<1>1. /\ Busy(t) /\ Top(t).op = "INPUT" /\ scene' = scene /\ inq' = inq /\ outq' = outq /\ stuck' = stuck
      /\ Return(t) /\ "INPUT" \in Kind
  BY DEF PerlInput, PythonInput, PythonReturn, At, lifeVars, Kind
<1>2. PICK r \in pool \cup kept[Top(t).m] \cup {NoOne} :
        /\ hand' = [hand EXCEPT ![t] = r]
        /\ Settle(t, {r} \ {NoOne}, kept[Top(t).m] \ {r})
  BY DEF PerlInput, PythonInput
<1>3. Popped(t)
  BY <1>1, Pop DEF Return
<1>4. hand[t] = NoOne
  BY <1>1, Single DEF OwnInv, FrameOK
<1>5. hand \in [Thread -> Stuff] /\ kept \in [Module -> SUBSET Stuff] /\ Top(t).m \in Module
  BY <1>1, HasStuff DEF Stuffed
<1> DEFINE back == {r} \ {NoOne}
           keep == kept[Top(t).m] \ {r}
<1>6. /\ {hand'[t]} \ {NoOne} = ({hand[t]} \ {NoOne}) \cup back
      /\ \A u \in Thread \ {t} : hand'[u] = hand[u]
  BY <1>2, <1>4, <1>5
<1>7. /\ keep \subseteq Has(t) /\ back \cap keep = {} /\ back \subseteq Has(t) \cup pool
  BY DEF Has
<1>8. /\ Settle(t, back, keep) /\ back = back \cup {} \cup {} /\ back \cap {} = {} /\ {} \cap {} = {}
      /\ inq'[Top(t).m] = inq[Top(t).m] \cup {} /\ outq'[Top(t).m] = outq[Top(t).m] \cup {}
      /\ \A n \in Module \ {Top(t).m} : inq'[n] = inq[n] /\ outq'[n] = outq[n]
  BY <1>1, <1>2
<1> HIDE DEF back, keep
<1>9. HandsBack(t, back, keep, back, {}, {})
  BY <1>6, <1>7, <1>8 DEF HandsBack
<1>10. QED
  BY <1>1, <1>3, <1>5, <1>9, SettleMoves

LEMMA OwnSimple ==
  ASSUME Framed, Stuffed, OwnInv, NEW t \in Thread, PerlSimple(t) \/ PythonSimple(t)
  PROVE  OwnInv'
<1>1. /\ Busy(t) /\ Top(t).op = "SIMPLE" /\ scene' = scene /\ inq' = inq /\ outq' = outq /\ stuck' = stuck
      /\ Return(t) /\ "SIMPLE" \in Kind /\ Top(t).pc \in Running
  BY DEF PerlSimple, PythonSimple, PythonReturn, At, lifeVars, Kind, Running
<1>2. PICK r \in Has(t) \cup {NoOne} : \E keep \in SUBSET (Has(t) \ {r}) :
        /\ hand' = [hand EXCEPT ![t] = r]
        /\ Settle(t, {r} \ {NoOne}, keep)
  BY DEF PerlSimple, PythonSimple
<1>3. PICK keep \in SUBSET (Has(t) \ {r}) :
        /\ hand' = [hand EXCEPT ![t] = r]
        /\ Settle(t, {r} \ {NoOne}, keep)
  BY <1>2
<1>4. Popped(t)
  BY <1>1, Pop DEF Return
<1>5. hand[t] = NoOne
  BY <1>1, Single DEF OwnInv, FrameOK
<1>6. hand \in [Thread -> Stuff] /\ kept \in [Module -> SUBSET Stuff] /\ Top(t).m \in Module
  BY <1>1, HasStuff DEF Stuffed
<1> DEFINE back == {r} \ {NoOne}
<1>7. /\ {hand'[t]} \ {NoOne} = ({hand[t]} \ {NoOne}) \cup back
      /\ \A u \in Thread \ {t} : hand'[u] = hand[u]
  BY <1>3, <1>5, <1>6
<1>8. /\ keep \subseteq Has(t) /\ back \cap keep = {} /\ back \subseteq Has(t) \cup pool
  OBVIOUS
<1>9. /\ Settle(t, back, keep) /\ back = back \cup {} \cup {} /\ back \cap {} = {} /\ {} \cap {} = {}
      /\ inq'[Top(t).m] = inq[Top(t).m] \cup {} /\ outq'[Top(t).m] = outq[Top(t).m] \cup {}
      /\ \A n \in Module \ {Top(t).m} : inq'[n] = inq[n] /\ outq'[n] = outq[n]
  BY <1>1, <1>3
<1> HIDE DEF back
<1>10. HandsBack(t, back, keep, back, {}, {})
  BY <1>7, <1>8, <1>9 DEF HandsBack
<1>11. QED
  BY <1>1, <1>4, <1>6, <1>10, SettleMoves

LEMMA OwnMulti ==
  ASSUME Framed, Stuffed, OwnInv, NEW t \in Thread, Busy(t), Top(t).op = "MULTI", Return(t),
         scene' = scene, hand' = hand, stuck' = stuck,
         NEW in \in SUBSET Has(t), NEW out \in SUBSET Has(t), NEW keep \in SUBSET (Has(t) \ (in \cup out)),
         in \cap out = {}, Settle(t, in \cup out, keep),
         inq' = [inq EXCEPT ![Top(t).m] = @ \cup in], outq' = [outq EXCEPT ![Top(t).m] = @ \cup out]
  PROVE  OwnInv'
<1>1. Popped(t) /\ Top(t).op \in Kind
  BY Pop DEF Return, Kind
<1>2. /\ hand \in [Thread -> Stuff] /\ inq \in [Module -> SUBSET Stuff] /\ outq \in [Module -> SUBSET Stuff]
      /\ kept \in [Module -> SUBSET Stuff] /\ Top(t).m \in Module
  BY HasStuff DEF Stuffed
<1> DEFINE back == in \cup out
           none == {}
<1>3. /\ {hand'[t]} \ {NoOne} = ({hand[t]} \ {NoOne}) \cup none
      /\ \A u \in Thread \ {t} : hand'[u] = hand[u]
  OBVIOUS
<1>4. /\ keep \subseteq Has(t) /\ back \cap keep = {} /\ back \subseteq Has(t) \cup pool
  OBVIOUS
<1>5. /\ Settle(t, back, keep) /\ back = none \cup in \cup out /\ none \cap in = {} /\ none \cap out = {}
      /\ inq'[Top(t).m] = inq[Top(t).m] \cup in /\ outq'[Top(t).m] = outq[Top(t).m] \cup out
      /\ \A n \in Module \ {Top(t).m} : inq'[n] = inq[n] /\ outq'[n] = outq[n]
  BY <1>2
<1> HIDE DEF back, none
<1>6. HandsBack(t, back, keep, none, in, out)
  BY <1>3, <1>4, <1>5 DEF HandsBack
<1>7. QED
  BY <1>1, <1>2, <1>6, SettleMoves

LEMMA OwnPerlMulti ==
  ASSUME Framed, Stuffed, OwnInv, NEW t \in Thread, PerlMulti(t)
  PROVE  OwnInv'
<1>1. /\ Busy(t) /\ Top(t).op = "MULTI" /\ scene' = scene /\ hand' = hand /\ stuck' = stuck /\ Return(t)
  BY DEF PerlMulti, At, lifeVars
<1>2. PICK in \in SUBSET Has(t), out \in SUBSET Has(t) : \E keep \in SUBSET (Has(t) \ (in \cup out)) :
        /\ in \cap out = {}
        /\ inq' = [inq EXCEPT ![Top(t).m] = @ \cup in]
        /\ outq' = [outq EXCEPT ![Top(t).m] = @ \cup out]
        /\ Settle(t, in \cup out, keep)
  BY DEF PerlMulti
<1>3. QED
  BY <1>1, <1>2, OwnMulti

LEMMA OwnPythonMulti ==
  ASSUME Framed, Stuffed, OwnInv, NEW t \in Thread, PythonMulti(t), ~Crash(t)
  PROVE  OwnInv'
<1>1. /\ Busy(t) /\ Top(t).op = "MULTI" /\ scene' = scene /\ hand' = hand /\ stuck' = stuck /\ Return(t)
      /\ Top(t).m \in Python /\ Top(t).pc \in Running
  BY DEF PythonMulti, PythonReturn, At, lifeVars, Running
<1>2. PICK in \in SUBSET Has(t), out \in SUBSET Has(t) : \E keep \in SUBSET (Has(t) \ (in \cup out)) :
        /\ in \cap out = {}
        /\ inq' = [inq EXCEPT ![Top(t).m] = in]
        /\ outq' = [outq EXCEPT ![Top(t).m] = out]
        /\ Settle(t, in \cup out, keep)
  BY DEF PythonMulti
<1>3. inq[Top(t).m] = {} /\ outq[Top(t).m] = {}
  BY <1>1, Single DEF OwnInv, FrameOK
<1>4. /\ inq' = [inq EXCEPT ![Top(t).m] = @ \cup in]
      /\ outq' = [outq EXCEPT ![Top(t).m] = @ \cup out]
  <2>1. in = inq[Top(t).m] \cup in /\ out = outq[Top(t).m] \cup out
    BY <1>3
  <2>2. QED
    BY <1>2, <2>1
<1>5. QED
  BY <1>1, <1>2, <1>4, OwnMulti

\* What scripts hold is theirs (w), and what is elsewhere is not.
Marked(h, a, k, i, o, p, s, w) ==
  Apart7(h, a, k, i, o, p, s) /\ a \cup k \cup s \subseteq w /\ w \cap (h \cup i \cup o \cup p) = {}

\* A script is given mh, mi and mo, ...
LEMMA GiveSets ==
  ASSUME NEW h, NEW k, NEW i, NEW o, NEW p, NEW s, NEW w, Marked(h, {}, k, i, o, p, s, w),
         NEW mh \in SUBSET h, NEW mi \in SUBSET i, NEW mo \in SUBSET o
  PROVE  Moved(h, {}, k, i, o, p, s, w,
               h \ mh, mh \cup mi \cup mo, k, i \ mi, o \ mo, p, s, w \cup (mh \cup mi \cup mo))
<1>1. w \cup (mh \cup mi \cup mo) = (w \ ({} \cup k \cup s)) \cup (mh \cup mi \cup mo) \cup k \cup s
  BY DEF Marked
<1>2. Apart7(h \ mh, mh \cup mi \cup mo, k, i \ mi, o \ mo, p, s)
  BY DEF Marked, Apart7
<1>3. QED
  BY <1>1, <1>2 DEF Moved

\* ... or its input (mi) is left in an array when the call fails, ...
LEMMA LeaveSets ==
  ASSUME NEW h, NEW k, NEW i, NEW o, NEW p, NEW s, NEW w, Marked(h, {}, k, i, o, p, s, w),
         NEW mi \in SUBSET i
  PROVE  Moved(h, {}, k, i, o, p, s, w, h, {}, k, i \ mi, o, p, s \cup mi, w \cup mi)
<1>1. w \cup mi = (w \ ({} \cup k \cup s)) \cup {} \cup k \cup (s \cup mi)
  BY DEF Marked
<1>2. Apart7(h, {}, k, i \ mi, o, p, s \cup mi)
  BY DEF Marked, Apart7
<1>3. QED
  BY <1>1, <1>2 DEF Moved

\* ... or a resource of a class that the bindings do not know is lost, ...
LEMMA LoseSets ==
  ASSUME NEW h, NEW k, NEW i, NEW o, NEW p, NEW s, NEW w, Marked(h, {}, k, i, o, p, s, w),
         h \subseteq Unbound
  PROVE  Moved(h, {}, k, i, o, p, s, w, {}, {}, k, i, o, p, s, w)
<1>1. w = (w \ ({} \cup k \cup s)) \cup {} \cup k \cup s
  BY DEF Marked
<1>2. Apart7({}, {}, k, i, o, p, s)
  BY DEF Marked, Apart7
<1>3. QED
  BY <1>1, <1>2 DEF Moved

\* ... or the processor moves the resources of a thread that is in no call.
LEMMA EngineSets ==
  ASSUME NEW h, NEW k, NEW i, NEW o, NEW p, NEW s, NEW w, Marked(h, {}, k, i, o, p, s, w),
         NEW h1, NEW i1, NEW o1, NEW p1, h1 \cup i1 \cup o1 \cup p1 = h \cup i \cup o \cup p,
         h1 \cap (i1 \cup o1 \cup p1) = {}, i1 \cap (o1 \cup p1) = {}, o1 \cap p1 = {}
  PROVE  Moved(h, {}, k, i, o, p, s, w, h1, {}, k, i1, o1, p1, s, w)
<1>1. w = (w \ ({} \cup k \cup s)) \cup {} \cup k \cup s
  BY DEF Marked
<1>2. Apart7(h1, {}, k, i1, o1, p1, s)
  BY DEF Marked, Apart7
<1>3. QED
  BY <1>1, <1>2 DEF Moved

\* A script that fails leaves some resources in an array.
LEMMA FailSets ==
  ASSUME NEW h, NEW a, NEW k, NEW i, NEW o, NEW p, NEW s, NEW w, Marked(h, a, k, i, o, p, s, w),
         NEW left, left \subseteq a \cup k, NEW keep, keep \subseteq (a \cup k) \ left,
         NEW gone, gone = (a \cup k) \ (left \cup keep)
  PROVE  Moved(h, a, k, i, o, p, s, w, h, {}, keep, i, o, p \cup (gone \cap w), s \cup left, w \ gone)
<1>1. w \ gone = (w \ (a \cup k \cup s)) \cup {} \cup keep \cup (s \cup left)
  BY DEF Marked, Apart7
<1>2. Apart7(h, {}, keep, i, o, p \cup (gone \cap w), s \cup left)
  BY DEF Marked, Apart7
<1>3. gone \cap w = gone
  BY DEF Marked
<1>4. QED
  BY <1>1, <1>2, <1>3 DEF Moved

LEMMA MarkedView ==
  ASSUME OwnedInv, NEW t \in Thread, NEW m \in Module
  PROVE  Marked({hand[t]} \ {NoOne}, Given(t), kept[m], inq[m], outq[m], pool, stuck, own)
  BY View DEF Marked

\* A processing call is in a module of its thread, and has been given nothing
\* before its script runs.
LEMMA Processing ==
  ASSUME Framed, Stuffed, OwnInv, NEW t \in Thread, Busy(t), Top(t).op \in Kind
  PROVE  /\ Top(t).m \in Present /\ Top(t).m \in Module /\ scene.owner[Top(t).m] = t
         /\ FrameOK(t, Top(t)) /\ Len(stack[t]) = 1 /\ Given(t) = Top(t).args
         /\ Top(t).pc = "enter" => Given(t) = {}
         /\ Marked({hand[t]} \ {NoOne}, Given(t), kept[Top(t).m], inq[Top(t).m], outq[Top(t).m], pool, stuck, own)
<1>1. FrameOK(t, Top(t)) /\ Len(stack[t]) = 1 /\ Given(t) = Top(t).args
  BY Single DEF OwnInv
<1>2. Top(t).m \in Present /\ scene.owner[Top(t).m] = t /\ Top(t).m \in Module
  BY <1>1, PresentModules DEF FrameOK
<1>3. Top(t).pc = "enter" => Given(t) = {}
  BY <1>1 DEF FrameOK, Running
<1>4. QED
  BY <1>1, <1>2, <1>3, MarkedView DEF OwnInv

LEMMA OwnMultiFails ==
  ASSUME Framed, Stuffed, OwnInv, NEW t \in Thread, PerlMultiFails(t)
  PROVE  OwnInv'
<1>1. /\ Busy(t) /\ Top(t).op \in Kind /\ scene' = scene /\ Return(t)
      /\ hand' = hand /\ inq' = inq /\ outq' = outq
  BY DEF PerlMultiFails, At, lifeVars, Kind
<1>2. PICK left \in SUBSET Has(t) : \E keep \in SUBSET (Has(t) \ left) :
        /\ stuck' = stuck \cup left
        /\ kept' = [kept EXCEPT ![Top(t).m] = keep]
        /\ own' = own \ (Has(t) \ (left \cup keep))
        /\ pool' = pool \cup ((Has(t) \ (left \cup keep)) \cap own)
  BY DEF PerlMultiFails
<1>3. PICK keep \in SUBSET (Has(t) \ left) :
        /\ stuck' = stuck \cup left
        /\ kept' = [kept EXCEPT ![Top(t).m] = keep]
        /\ own' = own \ (Has(t) \ (left \cup keep))
        /\ pool' = pool \cup ((Has(t) \ (left \cup keep)) \cap own)
  BY <1>2
<1>4. PICK m \in Present : m = Top(t).m
  BY <1>1, Processing
<1>5. /\ m \in Module /\ scene.owner[m] = t /\ Len(stack[t]) = 1 /\ Given(t) = Top(t).args
      /\ Marked({hand[t]} \ {NoOne}, Given(t), kept[m], inq[m], outq[m], pool, stuck, own)
  BY <1>1, <1>4, Processing
<1>6. Has(t) = Given(t) \cup kept[m]
  BY <1>4, <1>5 DEF Has
<1>7. PICK gone : gone = (Given(t) \cup kept[m]) \ (left \cup keep)
  OBVIOUS
<1>8. kept'[m] = keep /\ OnlyOf(t, m)
  BY <1>1, <1>3, <1>4, <1>5 DEF Stuffed, OnlyOf
<1>9. Popped(t)
  BY <1>1, Pop DEF Return
<1>10. Given(t)' = {} /\ Tidy(t)' /\ OtherStacks(t)
  BY <1>1, <1>5, <1>9, SinglePop DEF Popped
<1>11. left \subseteq Given(t) \cup kept[m] /\ keep \subseteq (Given(t) \cup kept[m]) \ left
  BY <1>6
<1>12. Moved({hand[t]} \ {NoOne}, Given(t), kept[m], inq[m], outq[m], pool, stuck, own,
             {hand[t]} \ {NoOne}, {}, keep, inq[m], outq[m], pool \cup (gone \cap own), stuck \cup left, own \ gone)
  BY <1>5, <1>7, <1>11, FailSets
<1>13. Moved({hand[t]} \ {NoOne}, Given(t), kept[m], inq[m], outq[m], pool, stuck, own,
             {hand'[t]} \ {NoOne}, Given(t)', kept'[m], inq'[m], outq'[m], pool', stuck', own')
  <2>1. pool' = pool \cup (gone \cap own) /\ own' = own \ gone
    BY <1>3, <1>6, <1>7
  <2>2. QED
    BY <1>1, <1>3, <1>8, <1>10, <1>12, <2>1, Zenon
<1>14. QED
  BY <1>1, <1>5, <1>8, <1>10, <1>13, Loud

\* A script is given the hand of its thread (mh) and of the queues of its
\* module (mi, mo).
HandsOver(t, f, mh, mi, mo) ==
  /\ mh \subseteq {hand[t]} \ {NoOne} /\ mi \subseteq inq[Top(t).m] /\ mo \subseteq outq[Top(t).m]
  /\ f.args = mh \cup mi \cup mo /\ own' = own \cup f.args
  /\ {hand'[t]} \ {NoOne} = ({hand[t]} \ {NoOne}) \ mh
  /\ inq'[Top(t).m] = inq[Top(t).m] \ mi /\ outq'[Top(t).m] = outq[Top(t).m] \ mo
  /\ kept' = kept /\ pool' = pool /\ stuck' = stuck
  /\ hand'[t] = NoOne
  /\ Top(t).op = "MULTI" /\ Top(t).m \in Python => inq'[Top(t).m] = {} /\ outq'[Top(t).m] = {}

LEMMA Gives ==
  ASSUME Framed, Stuffed, OwnInv, NEW t \in Thread, Busy(t), Top(t).op \in {"SIMPLE", "MULTI"},
         Top(t).pc = "enter", scene' = scene, OnlyOf(t, Top(t).m),
         NEW f \in Call, Edited(t, f), f.pc = "script",
         NEW mh, NEW mi, NEW mo, HandsOver(t, f, mh, mi, mo)
  PROVE  OwnInv'
<1>0. Top(t).op \in Kind
  BY DEF Kind
<1>1. PICK m \in Present : m = Top(t).m
  BY <1>0, Processing
<1>2. /\ m \in Module /\ scene.owner[m] = t /\ Len(stack[t]) = 1 /\ Given(t) = {}
      /\ Marked({hand[t]} \ {NoOne}, {}, kept[m], inq[m], outq[m], pool, stuck, own)
  <2>1. /\ m \in Module /\ scene.owner[m] = t /\ Len(stack[t]) = 1 /\ Given(t) = {}
        /\ Marked({hand[t]} \ {NoOne}, Given(t), kept[m], inq[m], outq[m], pool, stuck, own)
    BY <1>0, <1>1, Processing
  <2>2. QED
    BY <2>1, Zenon
<1>3. OtherStacks(t) /\ f.m = m /\ f.op = Top(t).op
  BY <1>1, TopCall DEF Edited
<1>4. FrameOK(t, f)'
  <2>1. "script" \in Running /\ f.op \in {"SIMPLE", "MULTI"}
    BY <1>3 DEF Running
  <2>2. f.m \in Present' /\ scene'.owner[f.m] = t
    BY <1>1, <1>2, <1>3 DEF Present
  <2>3. f.op = "MULTI" /\ f.m \in Python => inq'[f.m] = {} /\ outq'[f.m] = {}
    BY <1>1, <1>3 DEF HandsOver
  <2>4. "SIMPLE" # "MULTI" /\ "SIMPLE" # "INPUT" /\ "MULTI" # "INPUT"
    OBVIOUS
  <2>5. QED
    BY <2>1, <2>2, <2>3, <2>4 DEF FrameOK, HandsOver
<1>5. Given(t)' = f.args /\ Tidy(t)'
  BY <1>2, <1>4, SingleEdit
<1>6. Moved({hand[t]} \ {NoOne}, {}, kept[m], inq[m], outq[m], pool, stuck, own,
            ({hand[t]} \ {NoOne}) \ mh, mh \cup mi \cup mo, kept[m], inq[m] \ mi, outq[m] \ mo, pool, stuck,
            own \cup (mh \cup mi \cup mo))
  BY <1>1, <1>2, GiveSets DEF HandsOver
<1>7. Moved({hand[t]} \ {NoOne}, Given(t), kept[m], inq[m], outq[m], pool, stuck, own,
            {hand'[t]} \ {NoOne}, Given(t)', kept'[m], inq'[m], outq'[m], pool', stuck', own')
  <2>1. /\ kept' = kept /\ pool' = pool /\ stuck' = stuck
        /\ {hand'[t]} \ {NoOne} = ({hand[t]} \ {NoOne}) \ mh
        /\ inq'[m] = inq[m] \ mi /\ outq'[m] = outq[m] \ mo
        /\ Given(t)' = mh \cup mi \cup mo /\ own' = own \cup (mh \cup mi \cup mo)
    BY <1>1, <1>5 DEF HandsOver
  <2>2. QED
    BY <1>2, <1>6, <2>1, Zenon
<1>8. QED
  BY <1>1, <1>2, <1>3, <1>5, <1>7, Loud

LEMMA OwnEnterSimple ==
  ASSUME Framed, Stuffed, OwnInv, NEW t \in Thread, PerlEnterSimple(t)
  PROVE  OwnInv'
<1>1. /\ Busy(t) /\ Top(t).op = "SIMPLE" /\ Top(t).pc = "enter" /\ scene' = scene
      /\ UNCHANGED <<inq, outq, kept, pool, stuck>> /\ hand' = [hand EXCEPT ![t] = NoOne]
      /\ Top(t).op \in Kind
  BY DEF PerlEnterSimple, At, lifeVars, Kind
<1>2. PICK m \in Present : m = Top(t).m
  BY <1>1, Processing
<1>3. /\ m \in Module /\ scene.owner[m] = t /\ Len(stack[t]) = 1 /\ Given(t) = {}
      /\ Marked({hand[t]} \ {NoOne}, {}, kept[m], inq[m], outq[m], pool, stuck, own)
      /\ hand[t] # NoOne
  <2>1. /\ m \in Module /\ scene.owner[m] = t /\ Len(stack[t]) = 1 /\ Given(t) = {}
        /\ Marked({hand[t]} \ {NoOne}, Given(t), kept[m], inq[m], outq[m], pool, stuck, own)
        /\ FrameOK(t, Top(t))
    BY <1>1, <1>2, Processing
  <2>2. hand[t] # NoOne
    BY <1>1, <2>1 DEF FrameOK, Running
  <2>3. QED
    BY <2>1, <2>2, Zenon
<1>4. hand'[t] = NoOne /\ {hand'[t]} \ {NoOne} = {} /\ OnlyOf(t, m) /\ hand[t] \in Stuff
  BY <1>1 DEF Stuffed, OnlyOf
<1>5. CASE hand[t] \in Unbound
  <2>1. Return(t) /\ own' = own
    BY <1>5 DEF PerlEnterSimple
  <2>2. Popped(t)
    BY <1>1, <2>1, Pop DEF Return
  <2>3. Given(t)' = {} /\ Tidy(t)' /\ OtherStacks(t)
    BY <1>1, <1>3, <2>2, SinglePop DEF Popped
  <2>4. Moved({hand[t]} \ {NoOne}, {}, kept[m], inq[m], outq[m], pool, stuck, own,
              {}, {}, kept[m], inq[m], outq[m], pool, stuck, own)
    BY <1>3, <1>5, LoseSets
  <2>5. Moved({hand[t]} \ {NoOne}, Given(t), kept[m], inq[m], outq[m], pool, stuck, own,
              {hand'[t]} \ {NoOne}, Given(t)', kept'[m], inq'[m], outq'[m], pool', stuck', own')
    <3>1. kept' = kept /\ inq' = inq /\ outq' = outq /\ pool' = pool /\ stuck' = stuck
      BY <1>1
    <3>2. QED
      BY <1>3, <1>4, <2>1, <2>3, <2>4, <3>1, Zenon
  <2>6. QED
    BY <1>1, <1>3, <1>4, <2>3, <2>5, Loud
<1>6. CASE hand[t] \notin Unbound
  <2>1. Wrap(t, {hand[t]}) /\ own' = own \cup {hand[t]}
    BY <1>6 DEF PerlEnterSimple, Wrap
  <2>2. PICK f \in Call : Edited(t, f) /\ f.pc = "script" /\ f.args = {hand[t]}
    BY <1>1, <1>4, <2>1, EditWrap
  <2>3. PICK mh \in SUBSET ({hand[t]} \ {NoOne}), none \in SUBSET {} : mh = {hand[t]} /\ none = {}
    BY <1>3
  <2>4. /\ f.args = mh \cup none \cup none /\ own' = own \cup f.args
        /\ {hand'[t]} \ {NoOne} = ({hand[t]} \ {NoOne}) \ mh
        /\ inq'[m] = inq[m] \ none /\ outq'[m] = outq[m] \ none
        /\ none \in SUBSET inq[m] /\ none \in SUBSET outq[m]
    BY <1>1, <1>4, <2>1, <2>2, <2>3
  <2>5. HandsOver(t, f, mh, none, none)
    BY <1>1, <1>2, <1>4, <2>4 DEF HandsOver
  <2>6. QED
    BY <1>1, <1>2, <1>4, <2>2, <2>5, Gives
<1>7. QED
  BY <1>5, <1>6

LEMMA OwnEnterMulti ==
  ASSUME Framed, Stuffed, OwnInv, NEW t \in Thread, PerlEnterMulti(t)
  PROVE  OwnInv'
<1>1. /\ Busy(t) /\ Top(t).op = "MULTI" /\ Top(t).pc = "enter" /\ scene' = scene
      /\ UNCHANGED <<hand, outq, kept, pool>> /\ Top(t).m \in Perl
      /\ Top(t).op \in Kind
  BY DEF PerlEnterMulti, At, lifeVars, Kind
<1>2. PICK m \in Present : m = Top(t).m
  BY <1>1, Processing
<1>3. /\ m \in Module /\ scene.owner[m] = t /\ Len(stack[t]) = 1 /\ Given(t) = {}
      /\ Marked({hand[t]} \ {NoOne}, {}, kept[m], inq[m], outq[m], pool, stuck, own)
      /\ hand[t] = NoOne
  <2>1. /\ m \in Module /\ scene.owner[m] = t /\ Len(stack[t]) = 1 /\ Given(t) = {}
        /\ Marked({hand[t]} \ {NoOne}, Given(t), kept[m], inq[m], outq[m], pool, stuck, own)
        /\ FrameOK(t, Top(t))
    BY <1>1, <1>2, Processing
  <2>2. hand[t] = NoOne
    BY <1>1, <2>1 DEF FrameOK
  <2>3. QED
    BY <2>1, <2>2, Zenon
<1>4. PICK moved \in SUBSET inq[m] :
        /\ inq' = [inq EXCEPT ![m] = @ \ moved]
        /\ \/ Return(t) /\ stuck' = stuck \cup moved /\ own' = own \cup moved
           \/ Wrap(t, moved) /\ stuck' = stuck
  BY <1>2 DEF PerlEnterMulti
<1>5. inq'[m] = inq[m] \ moved /\ OnlyOf(t, m) /\ moved \subseteq Stuff
  BY <1>1, <1>3, <1>4 DEF Stuffed, OnlyOf
<1>6. CASE Return(t) /\ stuck' = stuck \cup moved /\ own' = own \cup moved
  <2>2. Popped(t)
    BY <1>1, <1>6, Pop DEF Return
  <2>3. Given(t)' = {} /\ Tidy(t)' /\ OtherStacks(t)
    BY <1>1, <1>3, <2>2, SinglePop DEF Popped
  <2>4. Moved({hand[t]} \ {NoOne}, {}, kept[m], inq[m], outq[m], pool, stuck, own,
              {hand[t]} \ {NoOne}, {}, kept[m], inq[m] \ moved, outq[m], pool, stuck \cup moved, own \cup moved)
    BY <1>3, LeaveSets
  <2>5. Moved({hand[t]} \ {NoOne}, Given(t), kept[m], inq[m], outq[m], pool, stuck, own,
              {hand'[t]} \ {NoOne}, Given(t)', kept'[m], inq'[m], outq'[m], pool', stuck', own')
    <3>1. kept' = kept /\ outq' = outq /\ pool' = pool /\ hand' = hand
      BY <1>1
    <3>2. QED
      BY <1>3, <1>5, <1>6, <2>3, <2>4, <3>1, Zenon
  <2>6. QED
    BY <1>1, <1>3, <1>5, <2>3, <2>5, Loud
<1>7. CASE Wrap(t, moved) /\ stuck' = stuck
  <2>1. own' = own \cup moved
    BY <1>7 DEF Wrap
  <2>2. PICK f \in Call : Edited(t, f) /\ f.pc = "script" /\ f.args = moved
    BY <1>1, <1>5, <1>7, EditWrap
  <2>3. PICK none \in SUBSET {} : none = {}
    OBVIOUS
  <2>4. /\ f.args = none \cup moved \cup none /\ own' = own \cup f.args
        /\ {hand'[t]} \ {NoOne} = ({hand[t]} \ {NoOne}) \ none /\ outq'[m] = outq[m] \ none
        /\ none \in SUBSET ({hand[t]} \ {NoOne}) /\ none \in SUBSET outq[m]
    BY <1>1, <2>1, <2>2, <2>3
  <2>5. hand'[t] = NoOne /\ Top(t).m \notin Python /\ kept' = kept /\ pool' = pool /\ stuck' = stuck
    BY <1>1, <1>3, <1>7, ScriptAssumption
  <2>6. HandsOver(t, f, none, moved, none)
    BY <1>1, <1>2, <1>5, <2>4, <2>5 DEF HandsOver
  <2>7. QED
    BY <1>1, <1>2, <1>5, <2>2, <2>6, Gives
<1>8. QED
  BY <1>4, <1>6, <1>7

LEMMA OwnPythonEnter ==
  ASSUME Framed, Stuffed, OwnInv, NEW t \in Thread, PythonEnter(t)
  PROVE  OwnInv'
<1> DEFINE m == Top(t).m
           b == gil = t
           res == CASE Top(t).op = "SIMPLE" -> {hand[t]}
                    [] Top(t).op = "MULTI" -> inq[m] \cup outq[m]
                    [] OTHER -> {}
<1>1. /\ Busy(t) /\ Top(t).pc = "enter" /\ scene' = scene /\ m \in Python /\ b \in BOOLEAN
      /\ kept' = kept /\ pool' = pool /\ stuck' = stuck
  BY DEF PythonEnter, At, lifeVars
<1>2. /\ WrapPython(t, res, b) /\ own' = own \cup res
      /\ hand' = IF Top(t).op = "SIMPLE" THEN [hand EXCEPT ![t] = NoOne] ELSE hand
      /\ inq' = IF Top(t).op = "MULTI" THEN [inq EXCEPT ![m] = {}] ELSE inq
      /\ outq' = IF Top(t).op = "MULTI" THEN [outq EXCEPT ![m] = {}] ELSE outq
  BY DEF PythonEnter, WrapPython
<1>3. /\ hand \in [Thread -> Stuff] /\ inq \in [Module -> SUBSET Stuff] /\ outq \in [Module -> SUBSET Stuff]
      /\ m \in Module
  BY <1>1, HasStuff DEF Stuffed
<1>4. PICK none : none = {}
  OBVIOUS
<1>5. FrameOK(t, Top(t))
  BY <1>1, Single DEF OwnInv
<1>6. CASE Top(t).op = "SIMPLE"
  <2>1. res = {hand[t]} /\ res \subseteq Stuff
    BY <1>3, <1>6
  <2>2. hand' = [hand EXCEPT ![t] = NoOne] /\ inq' = inq /\ outq' = outq
    BY <1>2, <1>6
  <2>3. hand[t] # NoOne
    BY <1>1, <1>5, <1>6 DEF FrameOK, Running
  <2>4. hand'[t] = NoOne /\ OnlyOf(t, m)
    BY <1>1, <1>3, <2>2 DEF OnlyOf
  <2> HIDE DEF res, b
  <2>5. PICK f \in Call : Edited(t, f) /\ f.pc = "script" /\ f.args = {hand[t]}
    BY <1>1, <1>2, <2>1, EditPython
  <2>6. HandsOver(t, f, {hand[t]}, none, none)
    BY <1>1, <1>2, <1>4, <1>6, <2>1, <2>2, <2>3, <2>4, <2>5 DEF HandsOver
  <2>7. QED
    BY <1>1, <1>6, <2>4, <2>5, <2>6, Gives
<1>7. CASE Top(t).op = "MULTI"
  <2>1. res = inq[m] \cup outq[m] /\ res \subseteq Stuff
    BY <1>3, <1>7
  <2>2. hand' = hand /\ inq' = [inq EXCEPT ![m] = {}] /\ outq' = [outq EXCEPT ![m] = {}]
    BY <1>2, <1>7
  <2>3. hand[t] = NoOne
    BY <1>5, <1>7 DEF FrameOK
  <2>4. hand'[t] = NoOne /\ OnlyOf(t, m) /\ inq'[m] = {} /\ outq'[m] = {}
    BY <1>1, <1>3, <2>2, <2>3 DEF OnlyOf
  <2> HIDE DEF res, b
  <2>5. PICK f \in Call : Edited(t, f) /\ f.pc = "script" /\ f.args = inq[m] \cup outq[m]
    BY <1>1, <1>2, <2>1, EditPython
  <2>6. HandsOver(t, f, none, inq[m], outq[m])
    <3>1. f.args = none \cup inq[m] \cup outq[m] /\ own' = own \cup f.args
      BY <1>2, <1>4, <2>1, <2>5
    <3>2. {hand'[t]} \ {NoOne} = ({hand[t]} \ {NoOne}) \ none /\ none \subseteq {hand[t]} \ {NoOne}
      BY <1>4, <2>2
    <3>3. QED
      BY <1>1, <2>4, <3>1, <3>2 DEF HandsOver
  <2>7. QED
    BY <1>1, <1>7, <2>4, <2>5, <2>6, Gives
<1>8. CASE Top(t).op \notin {"SIMPLE", "MULTI"}
  <2>1. res = {} /\ res \subseteq Stuff
    BY <1>8
  <2>2. hand' = hand /\ inq' = inq /\ outq' = outq /\ own' = own
    BY <1>2, <1>8, <2>1
  <2>3. UNCHANGED <<scene, resVars>>
    BY <1>1, <2>2 DEF resVars
  <2> HIDE DEF res, b
  <2>4. PICK f \in Call : Edited(t, f) /\ f.args = {}
    BY <1>1, <1>2, <2>1, EditPython
  <2>5. Top(t).args = {}
    BY <1>5, <1>8 DEF FrameOK
  <2>6. f.op = Top(t).op
    BY <1>1, <2>4, TopCall DEF Edited
  <2>7. QED
    BY <1>1, <1>8, <2>3, <2>4, <2>5, <2>6, QuietEdit
<1>9. QED
  BY <1>6, <1>7, <1>8

\* The processor fetches resources and passes them on.
LEMMA Idle ==
  ASSUME Framed, NEW t \in Thread, ~Busy(t), stack' = stack
  PROVE  Given(t) = {} /\ Given(t)' = {} /\ Tidy(t)' /\ OtherStacks(t)
<1>1. stack[t] = <<>> /\ stack'[t] = <<>>
  BY DEF Busy
<1>2. 1..Len(stack'[t]) = {}
  BY <1>1
<1>3. Tidy(t)'
  BY <1>2, Zenon DEF Tidy
<1>4. QED
  BY <1>1, <1>3 DEF Given, OtherStacks, Framed

LEMMA EngineMoves ==
  ASSUME Framed, OwnInv, NEW t \in Thread, ~Busy(t), stack' = stack, scene' = scene,
         NEW m \in Present, scene.owner[m] = t, OnlyOf(t, m), kept' = kept, own' = own, stuck' = stuck,
         ({hand'[t]} \ {NoOne}) \cup inq'[m] \cup outq'[m] \cup pool'
           = ({hand[t]} \ {NoOne}) \cup inq[m] \cup outq[m] \cup pool,
         ({hand'[t]} \ {NoOne}) \cap (inq'[m] \cup outq'[m] \cup pool') = {},
         inq'[m] \cap (outq'[m] \cup pool') = {}, outq'[m] \cap pool' = {}
  PROVE  OwnInv'
<1>1. Given(t) = {} /\ Given(t)' = {} /\ Tidy(t)' /\ OtherStacks(t)
  BY Idle
<1>2. m \in Module
  BY PresentModules
<1>3. Marked({hand[t]} \ {NoOne}, {}, kept[m], inq[m], outq[m], pool, stuck, own)
  <2>1. Marked({hand[t]} \ {NoOne}, Given(t), kept[m], inq[m], outq[m], pool, stuck, own)
    BY <1>2, MarkedView DEF OwnInv
  <2>2. QED
    BY <1>1, <2>1, Zenon
<1>4. PICK h, i, o, p : h = {hand'[t]} \ {NoOne} /\ i = inq'[m] /\ o = outq'[m] /\ p = pool'
  OBVIOUS
<1>5. Moved({hand[t]} \ {NoOne}, {}, kept[m], inq[m], outq[m], pool, stuck, own,
            h, {}, kept[m], i, o, p, stuck, own)
  BY <1>3, <1>4, EngineSets
<1>6. Moved({hand[t]} \ {NoOne}, Given(t), kept[m], inq[m], outq[m], pool, stuck, own,
            {hand'[t]} \ {NoOne}, Given(t)', kept'[m], inq'[m], outq'[m], pool', stuck', own')
  BY <1>1, <1>4, <1>5, Zenon
<1>7. QED
  BY <1>1, <1>6, Loud

LEMMA OwnEngine ==
  ASSUME Framed, Stuffed, OwnInv, NEW t \in Thread, NEW m \in Present, Fetch(t, m) \/ PassOn(t, m)
  PROVE  OwnInv'
<1>0. NoOne \notin Resource
  BY ScriptAssumption
<1>1. /\ ~Busy(t) /\ stack' = stack /\ scene' = scene /\ scene.owner[m] = t
      /\ kept' = kept /\ own' = own /\ stuck' = stuck
  BY DEF Fetch, PassOn, lifeVars
<1>2. /\ hand \in [Thread -> Stuff] /\ inq \in [Module -> SUBSET Stuff] /\ outq \in [Module -> SUBSET Stuff]
      /\ m \in Module
  BY PresentModules DEF Stuffed
<1>3. /\ ({hand[t]} \ {NoOne}) \cap (inq[m] \cup outq[m] \cup pool) = {}
      /\ inq[m] \cap (outq[m] \cup pool) = {} /\ outq[m] \cap pool = {} /\ pool \subseteq Resource
  BY <1>2, View DEF OwnInv, Apart7
<1>4. CASE Fetch(t, m)
  <2>1. PICK r \in pool :
          /\ pool' = pool \ {r}
          /\ \/ hand' = [hand EXCEPT ![t] = r] /\ inq' = inq
             \/ inq' = [inq EXCEPT ![m] = @ \cup {r}] /\ hand' = hand
    BY <1>4 DEF Fetch
  <2>2. outq' = outq /\ hand[t] = NoOne /\ r # NoOne
    BY <1>0, <1>3, <1>4 DEF Fetch
  <2>3. CASE hand' = [hand EXCEPT ![t] = r] /\ inq' = inq
    <3>1. hand'[t] = r /\ OnlyOf(t, m)
      BY <1>1, <1>2, <2>2, <2>3 DEF OnlyOf
    <3>2. QED
      BY <1>1, <1>3, <2>1, <2>2, <2>3, <3>1, EngineMoves
  <2>4. CASE inq' = [inq EXCEPT ![m] = @ \cup {r}] /\ hand' = hand
    <3>1. inq'[m] = inq[m] \cup {r} /\ OnlyOf(t, m)
      BY <1>1, <1>2, <2>2, <2>4 DEF OnlyOf
    <3>2. QED
      BY <1>1, <1>3, <2>1, <2>2, <2>4, <3>1, EngineMoves
  <2>5. QED
    BY <2>1, <2>3, <2>4
<1>5. CASE PassOn(t, m)
  <2>1. inq' = inq
    BY <1>5 DEF PassOn
  <2>2. CASE hand[t] # NoOne /\ pool' = pool \cup {hand[t]} /\ hand' = [hand EXCEPT ![t] = NoOne] /\ outq' = outq
    <3>1. hand'[t] = NoOne /\ OnlyOf(t, m)
      BY <1>1, <1>2, <2>1, <2>2 DEF OnlyOf
    <3>2. QED
      BY <1>1, <1>3, <2>1, <2>2, <3>1, EngineMoves
  <2>3. CASE pool' = pool \cup outq[m] /\ outq' = [outq EXCEPT ![m] = {}] /\ hand' = hand
    <3>1. outq'[m] = {} /\ OnlyOf(t, m)
      BY <1>1, <1>2, <2>1, <2>3 DEF OnlyOf
    <3>2. QED
      BY <1>1, <1>3, <2>1, <2>3, <3>1, EngineMoves
  <2>4. QED
    BY <1>5, <2>2, <2>3 DEF PassOn
<1>6. QED
  BY <1>4, <1>5

\* A module that is deleted lets go of what its script kept.
LEMMA OwnDrop ==
  ASSUME Framed, Stuffed, OwnInv, NEW m \in Module, DropAll(m), stack' = stack, scene' = scene
  PROVE  OwnInv'
<1> DEFINE K == <<"kept", m>>
           P == <<"pool", NoOne>>
           L == {K, P}
<1>1. /\ hand' = hand /\ inq' = inq /\ outq' = outq /\ stuck' = stuck
      /\ kept'[m] = {} /\ \A n \in Module \ {m} : kept'[n] = kept[n]
      /\ own' = own \ kept[m] /\ pool' = pool \cup (kept[m] \cap own)
  BY DEF DropAll, Stuffed
<1>2. \A t \in Thread : Tidy(t)'
  BY <1>1 DEF OwnInv, Tidy, FrameOK, Present
<1>3. \A p \in Place \ L : Content(p)' = Content(p)
  <2>1. SUFFICES ASSUME NEW p \in Place \ L
                 PROVE  Content(p)' = Content(p)
    OBVIOUS
  <2>2. CASE p \in {"hand", "given"} \X Thread
    BY <1>1, <2>2 DEF Content, Given
  <2>3. CASE p \in {"kept", "inq", "outq"} \X Module
    <3>1. PICK n \in Module : p = <<"kept", n>> \/ p = <<"inq", n>> \/ p = <<"outq", n>>
      BY <2>3
    <3>2. p = <<"kept", n>> => n # m
      BY <2>1
    <3>3. QED
      BY <1>1, <3>1, <3>2, ContentIs, ContentBecomes
  <2>4. CASE p = <<"stuck", NoOne>>
    BY <1>1, <2>4, ContentIs, ContentBecomes
  <2>5. QED
    BY <2>1, <2>2, <2>3, <2>4 DEF Place
<1>4. /\ L \in SUBSET Place /\ K \in Place /\ P \in Place /\ K # P /\ K[1] \in Scripted /\ P[1] \notin Scripted
  BY DEF Place, Scripted
<1>5. Content(K) = kept[m] /\ Content(P) = pool /\ Content(K)' = {} /\ Content(P)' = pool \cup (kept[m] \cap own)
  BY <1>1, ContentIs, ContentBecomes
<1>6. OwnedInv
  BY DEF OwnInv
<1>7. Content(K) \subseteq own
  BY <1>4, <1>6 DEF OwnedInv
<1>8. own' = own \ Content(K) /\ Content(P)' = Content(P) \cup Content(K)
  BY <1>1, <1>5, <1>7
<1>9. \A p : p \in L <=> p = K \/ p = P
  OBVIOUS
<1> HIDE DEF L, K, P
<1>10. /\ \A p, q \in L : \A r \in Content(p)' \cap Content(q)' : p = q
       /\ \A p \in L : \A r \in Content(p)' : \E q \in L : r \in Content(q)
       /\ \A p \in L : \A r \in Content(p) : r \in Unbound \/ \E q \in L : r \in Content(q)'
  BY <1>5, <1>8, <1>9
<1>11. /\ \A p \in L : p[1] \in Scripted => Content(p)' \subseteq own'
       /\ \A r \in own' : r \in own /\ \A p \in L : p[1] \in Scripted => r \notin Content(p)
       /\ \A r \in own : r \notin own' => \E p \in L : r \in Content(p)
  BY <1>4, <1>5, <1>8, <1>9
<1>12. OwnedInv'
  BY <1>3, <1>4, <1>6, <1>10, <1>11, Moves
<1>13. QED
  BY <1>2, <1>12 DEF OwnInv

(***************************************************************************)
(* Every step keeps OwnInv.                                                *)
(***************************************************************************)
LEMMA OwnSame ==
  ASSUME OwnInv, UNCHANGED <<scene, stack, resVars>>
  PROVE  OwnInv'
<1>1. \A t \in Thread : Tidy(t)' /\ Given(t)' = Given(t)
  BY DEF OwnInv, Tidy, FrameOK, Present, Given, resVars
<1>2. OwnedInv'
  BY <1>1, NoneMoves DEF OwnInv
<1>3. QED
  BY <1>1, <1>2 DEF OwnInv

LEMMA OwnCalls ==
  ASSUME Framed, OwnInv, NEW t \in Thread, NEW m \in Present,
         PropertyCall(t, m) \/ ControlCall(t, m) \/ ProcessCall(t, m) \/ ScriptReads(t, m)
  PROVE  OwnInv'
<1>1. m \in Module /\ UNCHANGED <<scene, resVars>> /\ scene.kind[m] \in Kind
  BY PresentModules DEF PropertyCall, ControlCall, ProcessCall, ScriptReads, lifeVars
<1>2. ASSUME NEW op \in Op, op \notin Kind,
             \/ stack' = [stack EXCEPT ![t] = <<Frame(m, op)>> \o @]
             \/ stack[t] = <<>> /\ stack' = [stack EXCEPT ![t] = <<Frame(m, op)>>]
      PROVE  OwnInv'
  <2>1. Frame(m, op) \in Call
    BY <1>1, FrameIsCall
  <2>2. Pushed(t, Frame(m, op))
    BY <1>2, <2>1, Push
  <2>3. FrameOK(t, Frame(m, op)) /\ Frame(m, op).args = {} /\ Frame(m, op).op \notin Kind
    BY <1>2 DEF Frame, FrameOK, Kind
  <2>4. QED
    BY <1>1, <2>1, <2>2, <2>3, QuietPush
<1>3. CASE PropertyCall(t, m)
  <2>1. PICK op \in MayRead \cup {"SetProperty"} : stack' = [stack EXCEPT ![t] = <<Frame(m, op)>>]
    BY <1>3 DEF PropertyCall
  <2>2. op \in Op /\ op \notin Kind /\ stack[t] = <<>>
    BY <1>3 DEF PropertyCall, Busy, Op, Kind, MayRead
  <2>3. QED
    BY <1>2, <2>1, <2>2
<1>4. CASE ControlCall(t, m)
  <2>1. "Notify" \in Op /\ "Notify" \notin Kind /\ stack[t] = <<>>
    BY <1>4 DEF ControlCall, Busy, Op, Kind, MayRead
  <2>2. QED
    BY <1>2, <1>4, <2>1 DEF ControlCall
<1>5. CASE ScriptReads(t, m)
  <2>1. "GetProperty" \in Op /\ "GetProperty" \notin Kind
    BY DEF Op, Kind, MayRead
  <2>2. QED
    BY <1>2, <1>5, <2>1 DEF ScriptReads
<1>6. CASE ProcessCall(t, m)
  <2>1. PICK op \in Op : op \in Kind /\ op = scene.kind[m]
    BY <1>1 DEF Op
  <2>2. /\ stack' = [stack EXCEPT ![t] = <<Frame(m, op)>>] /\ stack[t] = <<>>
        /\ (op = "SIMPLE") = (hand[t] # NoOne) /\ scene.owner[m] = t
    BY <1>6, <2>1 DEF ProcessCall, Busy
  <2>3. Frame(m, op) \in Call
    BY <1>1, FrameIsCall
  <2>4. Pushed(t, Frame(m, op))
    BY <2>2, <2>3, Push
  <2>5. Frame(m, op).m = m /\ Frame(m, op).op = op /\ Frame(m, op).pc = "lock" /\ Frame(m, op).args = {}
    BY DEF Frame
  <2>6. "lock" \notin Running /\ (op \in {"INPUT", "MULTI"} => op # "SIMPLE")
    BY DEF Running
  <2>7. FrameOK(t, Frame(m, op))
    BY <2>2, <2>5, <2>6 DEF FrameOK
  <2>8. QED
    BY <1>1, <2>2, <2>3, <2>4, <2>5, <2>7, QuietPush
<1>7. QED
  BY <1>3, <1>4, <1>5, <1>6

LEMMA OwnLocks ==
  ASSUME Framed, OwnInv, NEW t \in Thread,
         Acquire(t) \/ PerlUpgrade(t) \/ PerlRelock(t) \/ Yield(t) \/ Unyield(t)
  PROVE  OwnInv'
<1>1. Busy(t) /\ UNCHANGED <<scene, resVars>>
  BY DEF Acquire, PerlUpgrade, PerlRelock, Yield, Unyield, At, lifeVars
<1>2. PICK pc \in Pc : SetPc(t, pc) /\ (pc \in Running <=> Top(t).pc \in Running)
  BY DEF Acquire, PerlUpgrade, PerlRelock, Yield, Unyield, At, Pc, Running
<1>3. PICK f \in Call : Edited(t, f) /\ f.pc = pc /\ f.args = Top(t).args
  BY <1>1, <1>2, EditPc
<1>4. QED
  BY <1>1, <1>2, <1>3, QuietEdit

LEMMA OwnPerlEnter ==
  ASSUME Framed, OwnInv, NEW t \in Thread, PerlEnter(t)
  PROVE  OwnInv'
<1>1. Busy(t) /\ UNCHANGED <<scene, resVars>> /\ Wrap(t, {}) /\ Top(t).op \notin {"SIMPLE", "MULTI"}
  BY DEF PerlEnter, At, lifeVars, resVars, Wrap
<1>2. PICK f \in Call : Edited(t, f) /\ f.args = {}
  BY <1>1, EditWrap
<1>3. f.op = Top(t).op
  BY <1>1, <1>2, TopCall DEF Edited
<1>4. Top(t).args = {}
  BY <1>1, Single DEF OwnInv, FrameOK
<1>5. QED
  BY <1>1, <1>2, <1>3, <1>4, QuietEdit

LEMMA OwnPlain ==
  ASSUME Framed, OwnInv, NEW t \in Thread,
         PerlPlain(t) \/ PerlList(t) \/ PythonPlain(t) \/ PythonRead(t) \/ PerlLost(t)
  PROVE  OwnInv'
<1>1. Busy(t) /\ UNCHANGED <<scene, resVars>>
  BY DEF PerlPlain, PerlList, PythonPlain, PythonRead, PerlLost, Crash, At, lifeVars
<1>2. (Return(t) /\ Top(t).op \notin Kind) \/ stack' = stack
  BY DEF PerlPlain, PerlList, PythonPlain, PythonRead, PerlLost, PythonReturn, Crash, Kind, ReadOp, MayRead
<1>3. CASE Return(t) /\ Top(t).op \notin Kind
  <2>1. Popped(t)
    BY <1>1, <1>3, Pop DEF Return
  <2>2. QED
    BY <1>1, <1>3, <2>1, QuietPop
<1>4. CASE stack' = stack
  BY <1>1, <1>4, OwnSame
<1>5. QED
  BY <1>2, <1>3, <1>4

LEMMA OwnNext ==
  ASSUME Framed, Stuffed, OwnInv, [Next]_vars
  PROVE  OwnInv'
<1>1. ASSUME Lifecycle
      PROVE  OwnInv'
  <2>1. ASSUME NEW m \in Present,
               PerlNew(m) \/ PythonNew(m) \/ PerlInit(m) \/ PythonInit(m) \/ GetType(m)
        PROVE  OwnInv'
    BY <2>1, OwnSame DEF PerlNew, PythonNew, PerlInit, PythonInit, GetType
  <2>2. ASSUME NEW m \in Present, PerlDelete(m) \/ PythonDelete(m)
        PROVE  OwnInv'
    <3>1. m \in Module /\ DropAll(m) /\ stack' = stack /\ scene' = scene
      BY <2>2, PresentModules DEF PerlDelete, PythonDelete
    <3>2. QED
      BY <3>1, OwnDrop
  <2>3. ASSUME Ready \/ Shutdown
        PROVE  OwnInv'
    BY <2>3, OwnSame DEF Ready, Shutdown
  <2>4. QED
    BY <1>1, <2>1, <2>2, <2>3 DEF Lifecycle
<1>2. ASSUME NEW t \in Thread, NEW m \in Present,
             \/ PropertyCall(t, m) \/ ControlCall(t, m) \/ ProcessCall(t, m)
             \/ Fetch(t, m) \/ PassOn(t, m) \/ ScriptReads(t, m)
      PROVE  OwnInv'
  BY <1>2, OwnCalls, OwnEngine
<1>3. ASSUME NEW t \in Thread, Proceeds(t) \/ Yield(t)
      PROVE  OwnInv'
  BY <1>3, OwnLocks, OwnPerlEnter, OwnEnterSimple, OwnEnterMulti, OwnPythonEnter DEF Proceeds, Enters
<1>4. ASSUME NEW t \in Thread, PerlReturns(t) \/ PerlLost(t)
      PROVE  OwnInv'
  BY <1>4, OwnPlain, OwnInput, OwnSimple, OwnPerlMulti, OwnMultiFails DEF PerlReturns
<1>5. ASSUME NEW t \in Thread, PythonReturns(t)
      PROVE  OwnInv'
  <2>1. CASE Crash(t)
    BY <2>1, OwnSame DEF Crash
  <2>2. CASE ~Crash(t)
    BY <1>5, <2>2, OwnPlain, OwnInput, OwnSimple, OwnPythonMulti DEF PythonReturns
  <2>3. QED
    BY <2>1, <2>2
<1>6. ASSUME UNCHANGED vars
      PROVE  OwnInv'
  BY <1>6, OwnSame DEF vars, lifeVars
<1>7. QED
  BY <1>1, <1>2, <1>3, <1>4, <1>5, <1>6 DEF Next

(***************************************************************************)
(* The rest of the state: EmbeddedPython::used counts the modules that live.*)
(***************************************************************************)
Alive == {"made", "ready", "invalid"}
Living == {m \in Python : life[m] \in Alive}

CountInv ==
  /\ phase \in {"init", "run", "end", "crashed"}
  /\ life \in [Module -> Alive \cup {"none", "gone"}]
  /\ ref \subseteq Module /\ initialized \in BOOLEAN /\ used = Cardinality(Living)
  /\ gil \in Thread \cup {NoOne, "main"}
  /\ context \in [Thread -> Perl \cup {NoOne}]

LEMMA CountSame ==
  ASSUME CountInv, UNCHANGED <<life, ref, initialized, used>>,
         phase' \in {"init", "run", "end", "crashed"}, gil' \in Thread \cup {NoOne, "main"},
         context' \in [Thread -> Perl \cup {NoOne}]
  PROVE  CountInv'
  BY DEF CountInv, Living

\* The life of a module that stays as alive as it was, or is not in Python.
LEMMA CountStays ==
  ASSUME CountInv, NEW m \in Module, NEW v \in Alive \cup {"none", "gone"}, life' = [life EXCEPT ![m] = v],
         m \in Python => (v \in Alive <=> life[m] \in Alive),
         ref' \subseteq Module, initialized' \in BOOLEAN, used' = used, gil' = gil, context' = context,
         phase' \in {"init", "run", "end", "crashed"}
  PROVE  CountInv'
<1>1. life' \in [Module -> Alive \cup {"none", "gone"}]
  BY DEF CountInv
<1>2. \A n \in Python : life'[n] \in Alive <=> life[n] \in Alive
  BY DEF CountInv, Module
<1>3. Living' = Living
  BY <1>2 DEF Living
<1>4. QED
  BY <1>1, <1>3 DEF CountInv

LEMMA CountLifecycle ==
  ASSUME Framed, CountInv, Lifecycle
  PROVE  CountInv'
<1>0. Present \subseteq Module /\ IsFiniteSet(Living) /\ Perl \cap Python = {}
  <2>1. Living \subseteq Python
    BY DEF Living
  <2>2. QED
    BY <2>1, ScriptAssumption, PresentModules, FS_Subset
<1>1. ASSUME NEW m \in Present, PerlNew(m)
      PROVE  CountInv'
  <2>1. /\ m \in Module /\ m \notin Python /\ "made" \in Alive /\ life' = [life EXCEPT ![m] = "made"]
        /\ UNCHANGED <<ref, initialized, used, gil, context, phase>>
    BY <1>0, <1>1 DEF PerlNew, Alive, lockVars
  <2>2. QED
    BY <2>1, CountStays DEF CountInv
<1>2. ASSUME NEW m \in Present, PerlInit(m) \/ PythonInit(m)
      PROVE  CountInv'
  <2>1. PICK v \in Alive : life' = [life EXCEPT ![m] = v]
    BY <1>2 DEF PerlInit, PythonInit, Alive
  <2>2. m \in Module /\ life[m] \in Alive /\ UNCHANGED <<used, gil, context, phase>>
    BY <1>0, <1>2 DEF PerlInit, PythonInit, Alive, lockVars
  <2>3. ref' \subseteq Module
    <3>1. ref' = ref \/ ref' = ref \cup {m}
      BY <1>2 DEF PerlInit, PythonInit
    <3>2. QED
      BY <2>2, <3>1 DEF CountInv
  <2>4. initialized' \in BOOLEAN
    <3>1. CASE PerlInit(m)
      BY <3>1 DEF PerlInit, CountInv
    <3>2. CASE PythonInit(m)
      BY <3>2 DEF PythonInit, PythonLoad
    <3>3. QED
      BY <1>2, <3>1, <3>2
  <2>5. QED
    BY <2>1, <2>2, <2>3, <2>4, CountStays DEF CountInv
<1>3. ASSUME NEW m \in Present, GetType(m)
      PROVE  CountInv'
  <2>1. /\ m \in Module /\ "invalid" \in Alive /\ "ready" \in Alive /\ life' = [life EXCEPT ![m] = "invalid"]
        /\ life[m] = "ready" /\ UNCHANGED <<ref, initialized, used, gil, context, phase>>
    BY <1>0, <1>3 DEF GetType, Alive, lockVars
  <2>2. QED
    BY <2>1, CountStays DEF CountInv
<1>4. ASSUME NEW m \in Present, PythonNew(m)
      PROVE  CountInv'
  <2>1. /\ m \in Module /\ m \in Python /\ "made" \in Alive /\ "none" \notin Alive
        /\ life[m] = "none" /\ life' = [life EXCEPT ![m] = "made"] /\ used' = used + 1
        /\ UNCHANGED <<ref, initialized, gil, context, phase>>
    BY <1>0, <1>4 DEF PythonNew, Alive, lockVars
  <2>2. life \in [Module -> Alive \cup {"none", "gone"}] /\ Python \subseteq Module
    BY DEF CountInv, Module
  <2>3. Living' = Living \cup {m} /\ m \notin Living
    BY <2>1, <2>2 DEF Living
  <2>4. Cardinality(Living') = Cardinality(Living) + 1
    BY <1>0, <2>3, FS_AddElement
  <2>5. life' \in [Module -> Alive \cup {"none", "gone"}]
    BY <2>1, <2>2
  <2>6. QED
    BY <2>1, <2>4, <2>5 DEF CountInv
<1>5. ASSUME NEW m \in Present, PerlDelete(m)
      PROVE  CountInv'
  <2>1. /\ m \in Module /\ m \notin Python /\ life' = [life EXCEPT ![m] = "gone"]
        /\ UNCHANGED <<ref, initialized, used, gil, context>> /\ (phase' = phase \/ phase' = "crashed")
    BY <1>0, <1>5 DEF PerlDelete, lockVars
  <2>2. QED
    BY <2>1, CountStays DEF CountInv
<1>6. ASSUME NEW m \in Present, PythonDelete(m)
      PROVE  CountInv'
  <2>1. /\ m \in Module /\ m \in Python /\ life[m] \in Alive /\ "gone" \notin Alive
        /\ life' = [life EXCEPT ![m] = "gone"] /\ used' = used - 1
        /\ UNCHANGED <<ref, initialized, context, phase>> /\ gil' \in {"main", NoOne}
    BY <1>0, <1>6 DEF PythonDelete, Alive
  <2>2. life \in [Module -> Alive \cup {"none", "gone"}] /\ Python \subseteq Module
    BY DEF CountInv, Module
  <2>3. Living' = Living \ {m} /\ m \in Living
    BY <2>1, <2>2 DEF Living
  <2>4. Cardinality(Living') = Cardinality(Living) - 1
    BY <1>0, <2>3, FS_RemoveElement
  <2>5. life' \in [Module -> Alive \cup {"none", "gone"}]
    BY <2>1, <2>2
  <2>6. QED
    BY <2>1, <2>4, <2>5 DEF CountInv
<1>7. ASSUME Ready \/ Shutdown
      PROVE  CountInv'
  <2>1. /\ UNCHANGED <<life, ref, initialized, used, gil, context>> /\ phase' \in {"run", "end"}
    BY <1>7 DEF Ready, Shutdown, lockVars
  <2>2. QED
    BY <2>1, CountSame DEF CountInv
<1>8. QED
  BY <1>1, <1>2, <1>3, <1>4, <1>5, <1>6, <1>7 DEF Lifecycle

LEMMA CountNext ==
  ASSUME Framed, CountInv, [Next]_vars
  PROVE  CountInv'
<1>0. /\ gil \in Thread \cup {NoOne, "main"} /\ context \in [Thread -> Perl \cup {NoOne}]
      /\ phase \in {"init", "run", "end", "crashed"}
  BY DEF CountInv
<1>1. ASSUME NEW t \in Thread, NEW m \in Present,
             \/ PropertyCall(t, m) \/ ControlCall(t, m) \/ ProcessCall(t, m)
             \/ Fetch(t, m) \/ PassOn(t, m) \/ ScriptReads(t, m)
      PROVE  CountInv'
  <2>1. UNCHANGED <<life, ref, initialized, used, gil, context, phase>>
    BY <1>1 DEF PropertyCall, ControlCall, ProcessCall, Fetch, PassOn, ScriptReads, lifeVars, lockVars
  <2>2. QED
    BY <1>0, <2>1, CountSame
<1>2. ASSUME NEW t \in Thread, Proceeds(t) \/ Yield(t)
      PROVE  CountInv'
  <2>1. UNCHANGED <<life, ref, initialized, used, phase>>
    BY <1>2 DEF Proceeds, Acquire, PerlUpgrade, PerlRelock, Enters, PerlEnter, PerlEnterSimple,
                PerlEnterMulti, PythonEnter, Unyield, Yield, lifeVars
  <2>2. gil' \in {gil, t, NoOne}
    BY <1>2 DEF Proceeds, Acquire, PerlUpgrade, PerlRelock, Enters, PerlEnter, PerlEnterSimple,
                PerlEnterMulti, PythonEnter, Unyield, Yield, lockVars
  <2>3. context' = context \/ (Top(t).m \in Perl /\ SetContext(t))
    BY <1>2 DEF Proceeds, Acquire, PerlUpgrade, PerlRelock, Enters, PerlEnter, PerlEnterSimple,
                PerlEnterMulti, PythonEnter, Unyield, Yield
  <2>4. context' \in [Thread -> Perl \cup {NoOne}]
    BY <1>0, <2>3 DEF SetContext
  <2>5. QED
    BY <1>0, <2>1, <2>2, <2>4, CountSame
<1>3. ASSUME NEW t \in Thread, PerlReturns(t) \/ PythonReturns(t) \/ PerlLost(t)
      PROVE  CountInv'
  <2>1. /\ UNCHANGED <<life, ref, initialized, used, context>>
        /\ phase' = phase \/ phase' = "crashed"
    BY <1>3 DEF PerlReturns, PerlPlain, PerlList, PerlInput, PerlSimple, PerlMulti, PerlMultiFails,
         PythonReturns, PythonPlain, PythonRead, PythonInput, PythonSimple, PythonMulti,
         PerlLost, Crash, lifeVars
  <2>2. gil' = gil \/ gil' = t \/ gil' = NoOne
    BY <1>3 DEF PerlReturns, PerlPlain, PerlList, PerlInput, PerlSimple, PerlMulti, PerlMultiFails,
         PythonReturns, PythonPlain, PythonRead, PythonInput, PythonSimple, PythonMulti, PythonReturn,
         PerlLost, Crash, lockVars
  <2>3. QED
    BY <1>0, <2>1, <2>2, CountSame
<1>4. ASSUME UNCHANGED vars
      PROVE  CountInv'
  BY <1>0, <1>4, CountSame DEF vars, lifeVars, lockVars
<1>5. QED
  BY <1>1, <1>2, <1>3, <1>4, CountLifecycle DEF Next

(***************************************************************************)
(* What the places mean for the properties.                                *)
(***************************************************************************)
LEMMA ArgsAreGiven ==
  ASSUME Framed, OwnInv
  PROVE  \A r : r \in Args <=> \E t \in Thread : r \in Given(t)
<1>1. ASSUME NEW t \in Thread
      PROVE  UNION {stack[t][i].args : i \in DOMAIN stack[t]} = Given(t)
  <2>1. PICK s \in Seq(Call) : s = stack[t] /\ DOMAIN s = 1..Len(s) /\ Len(s) \in Nat
    BY DEF Framed
  <2>2. \A i \in 1..Len(s) : i # Len(s) => s[i].args = {}
    BY <2>1 DEF OwnInv, Tidy, FrameOK, Kind
  <2>3. CASE s = <<>>
    <3>1. DOMAIN s = {}
      BY <2>3
    <3>2. QED
      BY <2>1, <2>3, <3>1 DEF Given
  <2>4. CASE s # <<>>
    <3>1. Len(s) \in 1..Len(s)
      BY <2>1, <2>4
    <3>2. UNION {s[i].args : i \in 1..Len(s)} = s[Len(s)].args
      BY <2>2, <3>1
    <3>3. QED
      BY <2>1, <2>4, <3>2 DEF Given
  <2>5. QED
    BY <2>3, <2>4
<1>2. QED
  BY <1>1 DEF Args

LEMMA OwnMeans ==
  ASSUME Framed, Stuffed, OwnInv
  PROVE  /\ OneOwner /\ Accounted
         /\ hand \in [Thread -> Resource \cup {NoOne}]
         /\ inq \in [Module -> SUBSET Resource] /\ outq \in [Module -> SUBSET Resource]
         /\ kept \in [Module -> SUBSET Resource]
         /\ UNION {own, stuck, pool} \subseteq Resource
<1>1. /\ \A p, q \in Place : \A r \in Content(p) \cap Content(q) : p = q
      /\ \A r \in own : \E p \in Place : p[1] \in Scripted /\ r \in Content(p)
      /\ \A p \in Place : p[1] \in Scripted => Content(p) \subseteq own
      /\ \A r \in Resource \ Unbound : \E p \in Place : r \in Content(p)
      /\ \A p \in Place : Content(p) \subseteq Resource
  BY DEF OwnInv, OwnedInv
<1>2. /\ \A t \in Thread : <<"hand", t>> \in Place /\ <<"given", t>> \in Place
      /\ \A m \in Module : <<"kept", m>> \in Place /\ <<"inq", m>> \in Place /\ <<"outq", m>> \in Place
      /\ <<"pool", NoOne>> \in Place /\ <<"stuck", NoOne>> \in Place
  BY DEF Place
<1>3. \A r \in Hands : \E t \in Thread : r \in Content(<<"hand", t>>)
  BY ContentIs DEF Hands
<1>4. \A r \in Queued : \E m \in Module : r \in Content(<<"inq", m>>) \/ r \in Content(<<"outq", m>>)
  BY ContentIs DEF Queued
<1>5. pool = Content(<<"pool", NoOne>>) /\ stuck = Content(<<"stuck", NoOne>>)
  BY ContentIs
<1>6. /\ \A r \in Hands : \E p \in Place : p[1] = "hand" /\ r \in Content(p)
      /\ \A r \in Queued : \E p \in Place : p[1] \in {"inq", "outq"} /\ r \in Content(p)
      /\ \A r \in pool : \E p \in Place : p[1] = "pool" /\ r \in Content(p)
      /\ \A r \in own : \E p \in Place : p[1] \in Scripted /\ r \in Content(p)
  <2>1. \A r \in Hands : \E p \in Place : p[1] = "hand" /\ r \in Content(p)
    <3>1. SUFFICES ASSUME NEW r \in Hands PROVE \E p \in Place : p[1] = "hand" /\ r \in Content(p)
      OBVIOUS
    <3>2. PICK t \in Thread : r \in Content(<<"hand", t>>)
      BY <1>3
    <3>3. <<"hand", t>> \in Place /\ <<"hand", t>>[1] = "hand"
      BY <1>2
    <3>4. QED
      BY <3>2, <3>3
  <2>2. \A r \in Queued : \E p \in Place : p[1] \in {"inq", "outq"} /\ r \in Content(p)
    <3>1. SUFFICES ASSUME NEW r \in Queued PROVE \E p \in Place : p[1] \in {"inq", "outq"} /\ r \in Content(p)
      OBVIOUS
    <3>2. PICK m \in Module : r \in Content(<<"inq", m>>) \/ r \in Content(<<"outq", m>>)
      BY <1>4
    <3>3. /\ <<"inq", m>> \in Place /\ <<"inq", m>>[1] = "inq"
          /\ <<"outq", m>> \in Place /\ <<"outq", m>>[1] = "outq"
      BY <1>2
    <3>4. QED
      BY <3>2, <3>3
  <2>3. \A r \in pool : \E p \in Place : p[1] = "pool" /\ r \in Content(p)
    <3>1. <<"pool", NoOne>> \in Place /\ <<"pool", NoOne>>[1] = "pool"
      BY <1>2
    <3>2. QED
      BY <1>5, <3>1
  <2>4. QED
    BY <1>1, <2>1, <2>2, <2>3
<1>7. OneOwner
  <2>1. /\ "hand" \notin Scripted /\ "inq" \notin Scripted /\ "outq" \notin Scripted /\ "pool" \notin Scripted
    BY DEF Scripted
  <2>2. own \cap (Hands \cup Queued \cup pool) = {}
    BY <1>1, <1>6, <2>1
  <2>3. pool \cap (Hands \cup Queued) = {}
    BY <1>1, <1>6
  <2>4. Hands \cap Queued = {}
    BY <1>1, <1>6
  <2>5. QED
    BY <2>2, <2>3, <2>4 DEF OneOwner
<1>8. \A r : (\E p \in Place : p[1] \in Scripted /\ r \in Content(p)) <=>
               r \in (UNION {Args, stuck}) \cup (UNION {kept[m] : m \in Module})
  <2>1. ASSUME NEW r, NEW p \in Place, p[1] \in Scripted, r \in Content(p)
        PROVE  r \in (UNION {Args, stuck}) \cup (UNION {kept[m] : m \in Module})
    <3>1. CASE p[1] = "given"
      <4>1. p[2] \in Thread /\ Content(p) = Given(p[2])
        BY <3>1 DEF Place, Content
      <4>2. r \in Args
        BY <2>1, <4>1, ArgsAreGiven
      <4>3. QED
        BY <4>2
    <3>2. CASE p[1] = "kept"
      <4>1. p[2] \in Module /\ Content(p) = kept[p[2]]
        BY <3>2 DEF Place, Content
      <4>2. QED
        BY <2>1, <4>1
    <3>3. CASE p[1] = "stuck"
      <4>1. Content(p) = stuck
        BY <3>3 DEF Content
      <4>2. QED
        BY <2>1, <4>1
    <3>4. QED
      BY <2>1, <3>1, <3>2, <3>3 DEF Scripted
  <2>2. ASSUME NEW r, r \in (UNION {Args, stuck}) \cup (UNION {kept[m] : m \in Module})
        PROVE  \E p \in Place : p[1] \in Scripted /\ r \in Content(p)
    <3>1. CASE r \in Args
      <4>1. PICK t \in Thread : r \in Given(t)
        BY <3>1, ArgsAreGiven
      <4>2. <<"given", t>> \in Place /\ <<"given", t>>[1] \in Scripted /\ r \in Content(<<"given", t>>)
        BY <1>2, <4>1, ContentIs DEF Scripted
      <4>3. QED
        BY <4>2
    <3>2. CASE r \in stuck
      <4>1. <<"stuck", NoOne>> \in Place /\ <<"stuck", NoOne>>[1] \in Scripted /\ r \in Content(<<"stuck", NoOne>>)
        BY <1>2, <1>5, <3>2 DEF Scripted
      <4>2. QED
        BY <4>1
    <3>3. CASE r \in UNION {kept[m] : m \in Module}
      <4>1. PICK m \in Module : r \in kept[m]
        BY <3>3
      <4>2. <<"kept", m>> \in Place /\ <<"kept", m>>[1] \in Scripted /\ r \in Content(<<"kept", m>>)
        BY <1>2, <4>1, ContentIs DEF Scripted
      <4>3. QED
        BY <4>2
    <3>4. QED
      BY <2>2, <3>1, <3>2, <3>3
  <2>3. QED
    BY <2>1, <2>2
<1>9. own = (UNION {Args, stuck}) \cup (UNION {kept[m] : m \in Module})
  <2>1. \A r : r \in own <=> \E p \in Place : p[1] \in Scripted /\ r \in Content(p)
    BY <1>1
  <2>2. \A r : r \in own <=> r \in (UNION {Args, stuck}) \cup (UNION {kept[m] : m \in Module})
    BY <1>8, <2>1
  <2>3. QED
    BY <2>2
<1>10. Resource \subseteq UNION {own, Hands, Queued, pool, Unbound}
  <2>1. SUFFICES ASSUME NEW r \in Resource \ Unbound
                 PROVE  r \in own \cup Hands \cup Queued \cup pool
    OBVIOUS
  <2>2. PICK p \in Place : r \in Content(p)
    BY <1>1
  <2>3. CASE p[1] \in Scripted
    BY <1>1, <2>2, <2>3
  <2>4. CASE p[1] = "hand"
    <3>1. p[2] \in Thread /\ Content(p) = {hand[p[2]]} \ {NoOne}
      BY <2>4 DEF Place, Content
    <3>2. QED
      BY <2>2, <3>1 DEF Hands
  <2>5. CASE p[1] \in {"inq", "outq"}
    <3>1. p[2] \in Module /\ Content(p) \subseteq inq[p[2]] \cup outq[p[2]]
      BY <2>5 DEF Place, Content
    <3>2. r \in Queued
      BY <2>2, <3>1 DEF Queued
    <3>3. QED
      BY <3>2
  <2>6. CASE p[1] = "pool"
    <3>1. Content(p) = pool
      BY <2>6 DEF Content
    <3>2. QED
      BY <2>2, <3>1
  <2>7. QED
    BY <2>3, <2>4, <2>5, <2>6 DEF Place, Scripted
<1>11. Accounted
  BY <1>9, <1>10 DEF Accounted
<1>12. /\ hand \in [Thread -> Resource \cup {NoOne}]
       /\ inq \in [Module -> SUBSET Resource] /\ outq \in [Module -> SUBSET Resource]
       /\ kept \in [Module -> SUBSET Resource]
  <2>1. \A m \in Module : inq[m] \subseteq Resource /\ outq[m] \subseteq Resource /\ kept[m] \subseteq Resource
    <3>1. SUFFICES ASSUME NEW m \in Module
                   PROVE  inq[m] \subseteq Resource /\ outq[m] \subseteq Resource /\ kept[m] \subseteq Resource
      OBVIOUS
    <3>2. /\ Content(<<"inq", m>>) \subseteq Resource /\ Content(<<"outq", m>>) \subseteq Resource
          /\ Content(<<"kept", m>>) \subseteq Resource
      BY <1>1, <1>2
    <3>3. QED
      BY <3>2, ContentIs
  <2>2. QED
    BY <2>1 DEF Stuffed, Stuff
<1>13. UNION {own, stuck, pool} \subseteq Resource
  <2>1. own \subseteq Resource /\ stuck \subseteq Resource /\ pool \subseteq Resource
    BY <1>1, <1>2, <1>5
  <2>2. QED
    BY <2>1
<1>14. QED
  BY <1>7, <1>11, <1>12, <1>13

(***************************************************************************)
(* A resource that goes through Perl and Python modules has one owner in   *)
(* every state, the script object with the owner mark or the C++ side,     *)
(* whatever scripts return, keep or let go and however their calls nest and*)
(* interleave; none is lost but those of a class that the bindings do not  *)
(* know; and EmbeddedPython::used stays the number of Python modules that  *)
(* exist.                                                                  *)
(***************************************************************************)
THEOREM Owned == Spec => []ResourcesOwned
<1> DEFINE Inv == GuardInv /\ Stuffed /\ OwnInv /\ CountInv
<1>1. Init => Inv
  <2> SUFFICES ASSUME Init PROVE Inv
    OBVIOUS
  <2>1. GuardInv /\ Stuffed
    BY GuardInit
  <2>2. CountInv
    <3>1. Living = {}
      BY DEF Init, Living, Alive, Module
    <3>2. used = Cardinality(Living)
      BY <3>1, FS_EmptySet DEF Init
    <3>3. QED
      BY <3>2 DEF Init, CountInv
  <2>3. \A t \in Thread : stack[t] = <<>> /\ Given(t) = {} /\ hand[t] = NoOne
    BY DEF Init, Given
  <2>4. \A t \in Thread : Tidy(t)
    <3>1. SUFFICES ASSUME NEW t \in Thread PROVE Tidy(t)
      OBVIOUS
    <3>2. 1..Len(stack[t]) = {}
      BY <2>3
    <3>3. QED
      BY <3>2, Zenon DEF Tidy
  <2>5. ASSUME NEW p \in Place
        PROVE  Content(p) = IF p[1] = "pool" THEN Resource ELSE {}
    <3>1. CASE p \in {"hand", "given"} \X Thread
      BY <2>3, <3>1 DEF Content
    <3>2. CASE p \in {"kept", "inq", "outq"} \X Module
      BY <3>2 DEF Content, Init
    <3>3. CASE p \in {<<"pool", NoOne>>, <<"stuck", NoOne>>}
      BY <3>3 DEF Content, Init
    <3>4. QED
      BY <3>1, <3>2, <3>3 DEF Place
  <2>6. OwnedInv
    <3>1. \A p \in Place : p[1] = "pool" => p = <<"pool", NoOne>>
      BY DEF Place
    <3>2. <<"pool", NoOne>> \in Place /\ "pool" \notin Scripted /\ own = {}
      BY DEF Place, Scripted, Init
    <3>3. <<"pool", NoOne>>[1] = "pool"
      OBVIOUS
    <3>4. QED
      BY <2>5, <3>1, <3>2, <3>3 DEF OwnedInv
  <2>7. QED
    BY <2>1, <2>2, <2>4, <2>6 DEF OwnInv
<1>2. Inv /\ [Next]_vars => Inv'
  <2>1. GuardInv => Framed
    BY DEF GuardInv
  <2>2. QED
    BY <2>1, GuardNext, StuffedStep, OwnNext, CountNext
<1>3. Inv => ResourcesOwned
  <2> SUFFICES ASSUME Inv PROVE ResourcesOwned
    OBVIOUS
  <2>1. Framed /\ Stuffed /\ OwnInv /\ CountInv
    BY DEF GuardInv
  <2>2. used \in 0 .. Cardinality(Python)
    <3>1. Living \subseteq Python /\ IsFiniteSet(Python)
      BY ScriptAssumption DEF Living
    <3>2. Cardinality(Living) \in Nat /\ Cardinality(Python) \in Nat /\ Cardinality(Living) <= Cardinality(Python)
      BY <3>1, FS_Subset, FS_CardinalityType
    <3>3. QED
      BY <2>1, <3>2 DEF CountInv
  <2>3. TypeOK
    <3>1. life \in [Module -> {"none", "made", "ready", "invalid", "gone"}]
      BY <2>1 DEF CountInv, Alive
    <3>2. lock \in [Module -> [w : Thread \cup {NoOne}, r : SUBSET Thread]] /\ scene \in Scenes
      BY <2>1 DEF Framed, ObjectLock
    <3>3. QED
      BY <2>1, <2>2, <3>1, <3>2, OwnMeans DEF TypeOK, CountInv
  <2>4. QED
    BY <2>1, <2>3, OwnMeans DEF ResourcesOwned
<1> HIDE DEF Inv
<1>4. QED
  BY <1>1, <1>2, <1>3, PTL DEF Spec

=============================================================================
