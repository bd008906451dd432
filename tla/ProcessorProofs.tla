-------------------------- MODULE ProcessorProofs --------------------------
(***************************************************************************)
(* Proofs about the threads of a processor, for any number of threads,     *)
(* resources and filters, any limits and any modules.                      *)
(***************************************************************************)
EXTENDS Processor, FiniteSetTheorems, TLAPS

(***************************************************************************)
(* Sequences without repetition.                                           *)
(***************************************************************************)
Distinct(s) == \A j, k \in 1..Len(s) : s[j] = s[k] => j = k

LEMMA Grown ==
  ASSUME NEW s \in Seq(Id), NEW x \in Id
  PROVE  /\ Append(s, x) \in Seq(Id) /\ Len(Append(s, x)) = Len(s) + 1
         /\ \A y : In(y, Append(s, x)) <=> In(y, s) \/ y = x
         /\ Distinct(s) /\ ~In(x, s) => Distinct(Append(s, x))
<1>1. /\ Append(s, x) \in Seq(Id) /\ Len(Append(s, x)) = Len(s) + 1 /\ Len(s) \in Nat
      /\ Append(s, x)[Len(s) + 1] = x
      /\ \A k \in 1..Len(s) : Append(s, x)[k] = s[k]
  OBVIOUS
<1>2. 1..Len(s) + 1 = (1..Len(s)) \cup {Len(s) + 1}
  BY <1>1
<1>3. \A y : In(y, Append(s, x)) <=> In(y, s) \/ y = x
  BY <1>1, <1>2 DEF In
<1>4. Distinct(s) /\ ~In(x, s) => Distinct(Append(s, x))
  BY <1>1, <1>2 DEF Distinct, In
<1>5. QED
  BY <1>1, <1>3, <1>4

LEMMA Rest ==
  ASSUME NEW s \in Seq(Id), s # <<>>
  PROVE  /\ Head(s) \in Id /\ Tail(s) \in Seq(Id) /\ In(Head(s), s)
         /\ \A y : In(y, Tail(s)) => In(y, s)
         /\ Distinct(s) => Distinct(Tail(s)) /\ ~In(Head(s), Tail(s))
<1>1. /\ Len(s) \in Nat \ {0} /\ Len(Tail(s)) = Len(s) - 1 /\ Head(s) = s[1]
      /\ Head(s) \in Id /\ Tail(s) \in Seq(Id) /\ 1 \in 1..Len(s)
      /\ \A k \in 1..Len(Tail(s)) : Tail(s)[k] = s[k + 1] /\ k + 1 \in 1..Len(s) /\ k + 1 # 1
  OBVIOUS
<1>2. QED
  BY <1>1 DEF In, Distinct

LEMMA Joined ==
  ASSUME NEW s \in Seq(Id), NEW u \in Seq(Id)
  PROVE  /\ s \o u \in Seq(Id) /\ Len(s \o u) = Len(s) + Len(u)
         /\ \A y : In(y, s \o u) <=> In(y, s) \/ In(y, u)
         /\ Distinct(s) /\ Distinct(u) /\ (\A y \in Id : ~(In(y, s) /\ In(y, u)))
              => Distinct(s \o u)
<1>1. /\ s \o u \in Seq(Id) /\ Len(s \o u) = Len(s) + Len(u)
      /\ Len(s) \in Nat /\ Len(u) \in Nat
      /\ \A k \in 1..Len(s \o u) :
           (s \o u)[k] = IF k <= Len(s) THEN s[k] ELSE u[k - Len(s)]
      /\ \A k \in 1..Len(s) : s[k] \in Id
  OBVIOUS
<1>2. \A k \in 1..Len(s \o u) : (k <= Len(s) => k \in 1..Len(s)) /\
                                (k > Len(s) => k - Len(s) \in 1..Len(u))
  BY <1>1
<1>3. /\ \A k \in 1..Len(s) : k \in 1..Len(s \o u) /\ k <= Len(s)
      /\ \A k \in 1..Len(u) : k + Len(s) \in 1..Len(s \o u) /\ ~(k + Len(s) <= Len(s))
                              /\ k + Len(s) - Len(s) = k
  BY <1>1
<1>4. ASSUME NEW y PROVE In(y, s \o u) <=> In(y, s) \/ In(y, u)
  <2>1. In(y, s \o u) => In(y, s) \/ In(y, u)
    BY <1>1, <1>2 DEF In
  <2>2. In(y, s) => In(y, s \o u)
    BY <1>1, <1>3 DEF In
  <2>3. In(y, u) => In(y, s \o u)
    <3>1. ASSUME NEW k \in 1..Len(u), u[k] = y PROVE In(y, s \o u)
      BY <1>1, <1>3, <3>1 DEF In
    <3>2. QED
      BY <3>1 DEF In
  <2>4. QED
    BY <2>1, <2>2, <2>3
<1>5. ASSUME Distinct(s), Distinct(u), \A y \in Id : ~(In(y, s) /\ In(y, u))
      PROVE  Distinct(s \o u)
  <2> SUFFICES ASSUME NEW j \in 1..Len(s \o u), NEW k \in 1..Len(s \o u),
                      (s \o u)[j] = (s \o u)[k]
               PROVE  j = k
    BY DEF Distinct
  <2>1. CASE j <= Len(s) /\ k <= Len(s)
    BY <1>1, <1>2, <1>5, <2>1 DEF Distinct
  <2>2. CASE j > Len(s) /\ k > Len(s)
    <3>1. j - Len(s) = k - Len(s)
      BY <1>1, <1>2, <1>5, <2>2 DEF Distinct
    <3>2. QED
      BY <1>1, <3>1
  <2>3. CASE j <= Len(s) /\ k > Len(s)
    <3>1. s[j] \in Id /\ s[j] = u[k - Len(s)]
      BY <1>1, <1>2, <2>3
    <3>2. QED
      BY <1>2, <1>5, <2>3, <3>1 DEF In
  <2>4. CASE j > Len(s) /\ k <= Len(s)
    <3>1. s[k] \in Id /\ s[k] = u[j - Len(s)]
      BY <1>1, <1>2, <2>4
    <3>2. QED
      BY <1>2, <1>5, <2>4, <3>1 DEF In
  <2>5. QED
    BY <1>1, <2>1, <2>2, <2>3, <2>4
<1>6. QED
  BY <1>1, <1>4, <1>5

LEMMA Cut ==
  ASSUME NEW s \in Seq(Id), NEW k \in Nat, k <= Len(s)
  PROVE  LET a == SubSeq(s, 1, k)
             b == SubSeq(s, k + 1, Len(s))
         IN /\ a \in Seq(Id) /\ b \in Seq(Id) /\ Len(a) = k /\ Len(b) = Len(s) - k
            /\ \A y : In(y, s) <=> In(y, a) \/ In(y, b)
            /\ Distinct(s) =>
                 Distinct(a) /\ Distinct(b) /\ \A y : ~(In(y, a) /\ In(y, b))
<1> DEFINE a == SubSeq(s, 1, k)
           b == SubSeq(s, k + 1, Len(s))
<1>0. Len(s) \in Nat /\ \A n \in 1..Len(s) : s[n] \in Id
  OBVIOUS
<1>1. a \in Seq(Id) /\ Len(a) = k /\ \A n \in 1..k : a[n] = s[n] /\ n \in 1..Len(s)
  <2>1. \A n \in 1..k : s[n] \in Id /\ n \in 1..Len(s)
    BY <1>0
  <2>2. Len(a) = k
    BY <2>1
  <2>3. QED
    BY <2>1, <2>2
<1>2. /\ b \in Seq(Id) /\ Len(b) = Len(s) - k
      /\ \A n \in 1..Len(s) - k : b[n] = s[n + k] /\ n + k \in 1..Len(s)
  <2>1. \A n \in 1..Len(s) - k : s[n + k] \in Id /\ n + k \in 1..Len(s)
    BY <1>0
  <2>2. Len(b) = Len(s) - k
    BY <1>0, <2>1
  <2>3. QED
    BY <1>0, <2>1, <2>2
<1>3. \A n \in 1..Len(s) : n \in 1..k \/ (n - k \in 1..Len(s) - k /\ (n - k) + k = n)
  BY <1>0
<1>4. \A m \in 1..k, n \in 1..Len(s) - k : m # n + k
  BY <1>0
<1> HIDE DEF a, b
<1>5. ASSUME NEW y PROVE In(y, s) <=> In(y, a) \/ In(y, b)
  <2>1. In(y, s) => In(y, a) \/ In(y, b)
    <3>1. ASSUME NEW n \in 1..Len(s), s[n] = y PROVE In(y, a) \/ In(y, b)
      <4>1. CASE n \in 1..k
        BY <1>1, <3>1, <4>1 DEF In
      <4>2. CASE n - k \in 1..Len(s) - k /\ (n - k) + k = n
        <5>1. b[n - k] = y /\ n - k \in 1..Len(b)
          BY <1>2, <3>1, <4>2
        <5>2. QED
          BY <5>1 DEF In
      <4>3. QED
        BY <1>3, <4>1, <4>2
    <3>2. QED
      BY <3>1 DEF In
  <2>2. In(y, a) \/ In(y, b) => In(y, s)
    BY <1>1, <1>2 DEF In
  <2>3. QED
    BY <2>1, <2>2
<1>6. ASSUME Distinct(s)
      PROVE  Distinct(a) /\ Distinct(b) /\ \A y : ~(In(y, a) /\ In(y, b))
  <2>1. Distinct(a)
    BY <1>1, <1>6 DEF Distinct
  <2>2. Distinct(b)
    <3>1. ASSUME NEW m \in 1..Len(s) - k, NEW n \in 1..Len(s) - k, b[m] = b[n] PROVE m = n
      <4>1. m + k = n + k
        BY <1>2, <1>6, <3>1 DEF Distinct
      <4>2. QED
        BY <1>0, <4>1
    <3>2. QED
      BY <1>2, <3>1 DEF Distinct
  <2>3. \A y : ~(In(y, a) /\ In(y, b))
    <3>1. ASSUME NEW m \in 1..k, NEW n \in 1..Len(s) - k, a[m] = b[n] PROVE FALSE
      <4>1. s[m] = s[n + k] /\ m \in 1..Len(s) /\ n + k \in 1..Len(s)
        BY <1>1, <1>2, <3>1
      <4>2. QED
        BY <1>4, <1>6, <4>1 DEF Distinct
    <3>2. QED
      BY <1>1, <1>2, <3>1 DEF In
  <2>4. QED
    BY <2>1, <2>2, <2>3
<1>7. QED
  BY <1>1, <1>2, <1>5, <1>6 DEF a, b

(***************************************************************************)
(* Types.  A thread that queues resources has one.                         *)
(***************************************************************************)
Supplied(s) ==
  /\ s.at \in {"queue", "qres", "qpend"} => s.r \in Id
  /\ s.at = "qpend" => s.pending \in Id

Typed == TypeOK /\ \A t \in Thread : Supplied(th[t])

\* A step of thread t leaves the other ones alone.
Others(t) == \A u \in Thread \ {t} : th'[u] = th[u]

\* What the thread has with it.
SameContent(t) ==
  /\ th'[t].r = th[t].r /\ th'[t].pending = th[t].pending
  /\ th'[t].min = th[t].min /\ th'[t].held = th[t].held /\ th'[t].mout = th[t].mout

\* Thread t goes to a, with everything it has; readMax and nread are m and n.
Walks(t, a, m, n) ==
  /\ th' \in [Thread -> ThreadState] /\ Others(t) /\ SameContent(t)
  /\ th'[t].at = a /\ th'[t].readMax = m /\ th'[t].nread = n

LEMMA Fields ==
  ASSUME NEW s \in ThreadState
  PROVE  /\ \A v \in Place : [s EXCEPT !.at = v] \in ThreadState
         /\ \A v \in BOOLEAN : [s EXCEPT !.block = v] \in ThreadState
         /\ \A v \in Int : [s EXCEPT !.readMax = v] \in ThreadState
         /\ \A v \in Nat : [s EXCEPT !.nread = v] \in ThreadState
         /\ \A v \in Nat : [s EXCEPT !.nqueued = v] \in ThreadState
         /\ \A v \in Nat : [s EXCEPT !.qf = v] \in ThreadState
         /\ \A v \in Id \cup {NoId} : [s EXCEPT !.r = v] \in ThreadState
         /\ \A v \in Id \cup {NoId} : [s EXCEPT !.pending = v] \in ThreadState
         /\ \A v \in Seq(Id) : [s EXCEPT !.min = v] \in ThreadState
         /\ \A v \in Seq(Id) : [s EXCEPT !.held = v] \in ThreadState
         /\ \A v \in Seq(Id) : [s EXCEPT !.mout = v] \in ThreadState
<1> DEFINE IdSeq == Seq(Id)
           MaybeId == Id \cup {NoId}
           N == Nat
           Z == Int
           B == BOOLEAN
<1>0. s \in [at : Place, block : B, readMax : Z, nread : N, r : MaybeId,
             min : IdSeq, held : IdSeq, mout : IdSeq, pending : MaybeId,
             nqueued : N, qf : N]
  BY DEF ThreadState
<1> HIDE DEF IdSeq, MaybeId, N, Z, B
<1> DEFINE T == [at : Place, block : B, readMax : Z, nread : N, r : MaybeId,
                 min : IdSeq, held : IdSeq, mout : IdSeq, pending : MaybeId,
                 nqueued : N, qf : N]
<1>1. \A v \in Place : [s EXCEPT !.at = v] \in T
  BY <1>0
<1>2. \A v \in B : [s EXCEPT !.block = v] \in T
  BY <1>0
<1>3. \A v \in Z : [s EXCEPT !.readMax = v] \in T
  BY <1>0
<1>4. \A v \in N : [s EXCEPT !.nread = v] \in T
  BY <1>0
<1>5. \A v \in N : [s EXCEPT !.nqueued = v] \in T
  BY <1>0
<1>6. \A v \in N : [s EXCEPT !.qf = v] \in T
  BY <1>0
<1>7. \A v \in MaybeId : [s EXCEPT !.r = v] \in T
  BY <1>0
<1>8. \A v \in MaybeId : [s EXCEPT !.pending = v] \in T
  BY <1>0
<1>9. \A v \in IdSeq : [s EXCEPT !.min = v] \in T
  BY <1>0
<1>10. \A v \in IdSeq : [s EXCEPT !.held = v] \in T
  BY <1>0
<1>11. \A v \in IdSeq : [s EXCEPT !.mout = v] \in T
  BY <1>0
<1>12. T = ThreadState
  BY DEF IdSeq, MaybeId, N, Z, B, ThreadState
<1> HIDE DEF T
<1>13. QED
  BY <1>1, <1>2, <1>3, <1>4, <1>5, <1>6, <1>7, <1>8, <1>9, <1>10, <1>11, <1>12
  DEF IdSeq, MaybeId, N, Z, B

LEMMA Walked ==
  ASSUME th \in [Thread -> ThreadState], NEW t \in Thread, NEW a \in Place
  PROVE  /\ th' = [th EXCEPT ![t].at = a] => Walks(t, a, th[t].readMax, th[t].nread)
         /\ th' = [th EXCEPT ![t].at = a, ![t].nread = 0] => Walks(t, a, th[t].readMax, 0)
         /\ th' = [th EXCEPT ![t].at = a, ![t].readMax = 0] => Walks(t, a, 0, th[t].nread)
         /\ th' = [th EXCEPT ![t] = [@ EXCEPT !.at = a]] => Walks(t, a, th[t].readMax, th[t].nread)
         /\ th' = [th EXCEPT ![t] = [@ EXCEPT !.at = a, !.block = TRUE, !.readMax = 1]]
              => Walks(t, a, 1, th[t].nread)
         /\ th' = [th EXCEPT ![t].qf = @ + 1]
              => Walks(t, th[t].at, th[t].readMax, th[t].nread)
<1>0. th[t] \in ThreadState
  OBVIOUS
<1>1. ASSUME NEW s \in ThreadState, th' = [th EXCEPT ![t] = s],
             s.r = th[t].r, s.pending = th[t].pending,
             s.min = th[t].min, s.held = th[t].held, s.mout = th[t].mout
      PROVE  Walks(t, s.at, s.readMax, s.nread)
  <2>1. th' \in [Thread -> ThreadState] /\ th'[t] = s /\ Others(t)
    BY <1>1 DEF Others
  <2>2. QED
    BY <1>1, <2>1 DEF Walks, SameContent
<1> DEFINE At1 == [th[t] EXCEPT !.at = a]
           At2 == [th[t] EXCEPT !.at = a, !.nread = 0]
           At3 == [th[t] EXCEPT !.at = a, !.readMax = 0]
           At5 == [th[t] EXCEPT !.at = a, !.block = TRUE, !.readMax = 1]
           At6 == [th[t] EXCEPT !.qf = th[t].qf + 1]
           Keeps(s) == s.r = th[t].r /\ s.pending = th[t].pending /\ s.min = th[t].min
                       /\ s.held = th[t].held /\ s.mout = th[t].mout
<1>2. /\ At1 \in ThreadState /\ Keeps(At1) /\ At1.at = a
      /\ At1.readMax = th[t].readMax /\ At1.nread = th[t].nread
  BY <1>0 DEF ThreadState
<1>3. /\ At2 \in ThreadState /\ Keeps(At2) /\ At2.at = a
      /\ At2.readMax = th[t].readMax /\ At2.nread = 0
  BY <1>0 DEF ThreadState
<1>4. /\ At3 \in ThreadState /\ Keeps(At3) /\ At3.at = a
      /\ At3.readMax = 0 /\ At3.nread = th[t].nread
  <2>0. 0 \in Int
    OBVIOUS
  <2>1. At3 \in ThreadState
    BY <1>2, <2>0, Fields, Zenon
  <2>2. Keeps(At3) /\ At3.at = a /\ At3.readMax = 0 /\ At3.nread = th[t].nread
    BY <1>0 DEF ThreadState
  <2>3. QED
    BY <2>1, <2>2
<1>5. /\ At5 \in ThreadState /\ Keeps(At5) /\ At5.at = a
      /\ At5.readMax = 1 /\ At5.nread = th[t].nread
  <2>1. [At1 EXCEPT !.block = TRUE] \in ThreadState
    BY <1>2, Fields
  <2>0. 1 \in Int
    OBVIOUS
  <2>2. At5 \in ThreadState
    BY <2>0, <2>1, Fields, Zenon
  <2>3. Keeps(At5) /\ At5.at = a /\ At5.readMax = 1 /\ At5.nread = th[t].nread
    BY <1>0 DEF ThreadState
  <2>4. QED
    BY <2>2, <2>3
<1>6. /\ At6 \in ThreadState /\ Keeps(At6) /\ At6.at = th[t].at
      /\ At6.readMax = th[t].readMax /\ At6.nread = th[t].nread
  <2>1. th[t].qf + 1 \in Nat
    BY <1>0 DEF ThreadState
  <2>2. At6 \in ThreadState
    BY <1>0, <2>1, Fields
  <2>3. Keeps(At6) /\ At6.at = th[t].at /\ At6.readMax = th[t].readMax /\ At6.nread = th[t].nread
    BY <1>0 DEF ThreadState
  <2>4. QED
    BY <2>2, <2>3
<1>7. /\ [th EXCEPT ![t].at = a] = [th EXCEPT ![t] = At1]
      /\ [th EXCEPT ![t].at = a, ![t].nread = 0] = [th EXCEPT ![t] = At2]
      /\ [th EXCEPT ![t].at = a, ![t].readMax = 0] = [th EXCEPT ![t] = At3]
      /\ [th EXCEPT ![t] = [@ EXCEPT !.at = a]] = [th EXCEPT ![t] = At1]
      /\ [th EXCEPT ![t] = [@ EXCEPT !.at = a, !.block = TRUE, !.readMax = 1]]
            = [th EXCEPT ![t] = At5]
      /\ [th EXCEPT ![t].qf = @ + 1] = [th EXCEPT ![t] = At6]
  OBVIOUS
<1> HIDE DEF At1, At2, At3, At5, At6
<1>8. QED
  BY <1>1, <1>2, <1>3, <1>4, <1>5, <1>6, <1>7

\* The steps that only move thread t.
Moves(t) ==
  \/ Top(t) \/ ReadEnd(t) \/ TakeNone(t) \/ PauseGate(t) \/ PauseBack(t) \/ PauseAgain(t)
  \/ InputNone(t) \/ SpuriousWakeup(t) \/ After(t) \/ FlushPop(t) \/ Flush(t) \/ QueueSkip(t)
  \/ QueueCopy(t)

\* How they move it.
Path(t, a, m, n) ==
  \/ ReadEnd(t) /\ a = AfterRead /\ m = th[t].readMax /\ n = th[t].nread
  \/ TakeNone(t) /\ a \in {"ended", AfterRead} /\ m = th[t].readMax /\ n = th[t].nread
  \/ PauseGate(t) /\ a \in {"input", "pauseWait", AfterRead} /\ m = th[t].readMax /\ n = th[t].nread
  \/ PauseBack(t) /\ a \in {"pauseLock", "ended"} /\ m = th[t].readMax /\ n = th[t].nread
  \/ PauseAgain(t) /\ a \in {"pauseWait", "input"} /\ m = th[t].readMax /\ n = th[t].nread
  \/ InputNone(t) /\ a \in {"ended", AfterRead} /\ m = th[t].readMax /\ n = th[t].nread
  \/ SpuriousWakeup(t) /\ a = "pauseWoken" /\ m = th[t].readMax /\ n = th[t].nread
  \/ Top(t) /\ a \in {"read", "ended"} /\ m = th[t].readMax /\ n = 0
  \/ After(t) /\ a \in {"flush", "ended", "aborted"} /\ n = th[t].nread
       /\ m \in IF HasMulti THEN {th[t].readMax} ELSE {th[t].readMax, 1}
  \/ FlushPop(t) /\ a \in {"flush", "aborted"} /\ m = th[t].readMax /\ n = th[t].nread
  \/ Flush(t) /\ a \in {"top", "flushPop"} /\ m \in {0, th[t].readMax} /\ n = th[t].nread
  \/ (QueueSkip(t) \/ QueueCopy(t)) /\ a = th[t].at /\ m = th[t].readMax /\ n = th[t].nread

LEMMA MovesWalk ==
  ASSUME th \in [Thread -> ThreadState], NEW t \in Thread, Moves(t)
  PROVE  \E a \in Place, m \in Int, n \in Nat : Walks(t, a, m, n) /\ Path(t, a, m, n)
<1> USE DEF At, Goto
<1>0. /\ \A a \in {"new", "top", "read", "pauseWait", "pauseWoken", "pauseLock", "input", "queue",
                   "multi", "out", "after", "flush", "flushPop", "ended", "aborted", AfterRead} :
           a \in Place
      /\ th[t].at \in Place /\ th[t].readMax \in Int /\ th[t].nread \in Nat
      /\ 0 \in Nat /\ 0 \in Int /\ 1 \in Int
  BY DEF Place, ThreadState, AfterRead
<1>1. ASSUME NEW a \in Place, th' = [th EXCEPT ![t].at = a]
      PROVE  Walks(t, a, th[t].readMax, th[t].nread)
  BY <1>1, Walked
<1>2. CASE ReadEnd(t) \/ TakeNone(t) \/ InputNone(t)
  <2>1. PICK a \in {AfterRead, "ended"} :
          /\ th' = [th EXCEPT ![t].at = a]
          /\ (ReadEnd(t) /\ a = AfterRead) \/ TakeNone(t) \/ InputNone(t)
    BY <1>2 DEF ReadEnd, TakeNone, InputNone
  <2>2. QED
    BY <1>0, <1>1, <2>1 DEF Path
<1>3. CASE PauseGate(t)
  <2>1. PICK a \in {"input", "pauseWait", AfterRead} : th' = [th EXCEPT ![t].at = a]
    BY <1>3 DEF PauseGate
  <2>2. QED
    BY <1>0, <1>1, <1>3, <2>1 DEF Path
<1>4. CASE PauseBack(t)
  <2>1. PICK a \in {"pauseLock", "ended"} : th' = [th EXCEPT ![t].at = a]
    BY <1>4 DEF PauseBack
  <2>2. QED
    BY <1>0, <1>1, <1>4, <2>1 DEF Path
<1>5. CASE PauseAgain(t)
  <2>1. PICK a \in {"pauseWait", "input"} : th' = [th EXCEPT ![t].at = a]
    BY <1>5 DEF PauseAgain
  <2>2. QED
    BY <1>0, <1>1, <1>5, <2>1 DEF Path
<1>6. CASE SpuriousWakeup(t)
  <2>1. Walks(t, "pauseWoken", th[t].readMax, th[t].nread)
    BY <1>0, <1>1, <1>6 DEF SpuriousWakeup
  <2>2. QED
    BY <1>0, <1>6, <2>1 DEF Path
<1>7. CASE Top(t)
  <2>1. PICK a \in {"read", "ended"} : th' = [th EXCEPT ![t].at = a, ![t].nread = 0]
    BY <1>7 DEF Top
  <2>2. Walks(t, a, th[t].readMax, 0)
    BY <1>0, <2>1, Walked
  <2>3. QED
    BY <1>0, <1>7, <2>1, <2>2 DEF Path
<1>8. CASE After(t)
  <2>1. CASE ~HasMulti
    <3>1. th' = [th EXCEPT ![t] = [@ EXCEPT !.at = "flush", !.block = TRUE, !.readMax = 1]]
      BY <1>8, <2>1 DEF After
    <3>2. Walks(t, "flush", 1, th[t].nread)
      BY <1>0, <3>1, Walked
    <3>3. QED
      BY <1>0, <1>8, <2>1, <3>2 DEF Path
  <2>2. CASE HasMulti
    <3>1. PICK a \in {"flush", "ended", "aborted"} : th' = [th EXCEPT ![t] = [@ EXCEPT !.at = a]]
      BY <1>8, <2>2 DEF After
    <3>2. Walks(t, a, th[t].readMax, th[t].nread)
      BY <1>0, <3>1, Walked
    <3>3. QED
      BY <1>0, <1>8, <2>2, <3>1, <3>2 DEF Path
  <2>3. QED
    BY <2>1, <2>2
<1>9. CASE FlushPop(t)
  <2>1. PICK a \in {"flush", "aborted"} : th' = [th EXCEPT ![t].at = a]
    BY <1>9 DEF FlushPop
  <2>2. QED
    BY <1>0, <1>1, <1>9, <2>1 DEF Path
<1>10. CASE Flush(t)
  <2>1. CASE th' = [th EXCEPT ![t].at = "top", ![t].readMax = 0]
    <3>1. Walks(t, "top", 0, th[t].nread)
      BY <1>0, <2>1, Walked
    <3>2. QED
      BY <1>0, <1>10, <3>1 DEF Path
  <2>2. CASE \E a \in {"top", "flushPop"} : th' = [th EXCEPT ![t].at = a]
    BY <1>0, <1>1, <1>10, <2>2 DEF Path
  <2>3. QED
    BY <1>10, <2>1, <2>2 DEF Flush
<1>11. CASE QueueSkip(t) \/ QueueCopy(t)
  <2>1. th' = [th EXCEPT ![t].qf = @ + 1]
    BY <1>11 DEF QueueSkip, QueueCopy
  <2>2. Walks(t, th[t].at, th[t].readMax, th[t].nread)
    BY <1>0, <2>1, Walked
  <2>3. QED
    BY <1>0, <1>11, <2>2 DEF Path
<1>12. QED
  BY <1>2, <1>3, <1>4, <1>5, <1>6, <1>7, <1>8, <1>9, <1>10, <1>11 DEF Moves

LEMMA MovesTyped ==
  ASSUME Typed, NEW t \in Thread, Moves(t)
  PROVE  Typed' /\ Others(t) /\ SameContent(t)
<1> USE DEF At, Goto, inVars, outVars, delVars, ctlVars
<1>0. /\ TypeOK /\ th \in [Thread -> ThreadState] /\ \A u \in Thread : Supplied(th[u])
      /\ len \in [Filter -> Nat] /\ passed \in [Filter -> [Id -> Nat]] /\ gone \in [Id -> Nat]
      /\ deletedResources \in Seq(Id) /\ resourceCount \in Int /\ downstream \in Nat
  BY DEF Typed, TypeOK
<1>1. PICK a \in Place, m \in Int, n \in Nat : Walks(t, a, m, n) /\ Path(t, a, m, n)
  BY <1>0, MovesWalk
<1>2. a \in {"queue", "qres", "qpend"} => a = th[t].at
  BY <1>1 DEF Path, AfterRead
<1>3. th' \in [Thread -> ThreadState] /\ \A u \in Thread : Supplied(th'[u])
  BY <1>0, <1>1, <1>2 DEF Walks, Others, SameContent, Supplied
<1>4. /\ UNCHANGED <<fresh, inputQueue, inputClosed, outClosed, dropped, running, pauseInput, ctl>>
      /\ len' \in [Filter -> Nat] /\ passed' \in [Filter -> [Id -> Nat]] /\ gone' \in [Id -> Nat]
      /\ deletedResources' \in Seq(Id) /\ resourceCount' \in Int /\ downstream' \in Nat
  <2>1. CASE \/ Top(t) \/ ReadEnd(t) \/ TakeNone(t) \/ PauseGate(t) \/ PauseBack(t) \/ PauseAgain(t)
             \/ InputNone(t) \/ SpuriousWakeup(t) \/ After(t) \/ QueueSkip(t)
    <3>1. UNCHANGED <<inVars, outVars, delVars, resourceCount, ctlVars>>
      BY <2>1 DEF Top, ReadEnd, TakeNone, PauseGate, PauseBack, PauseAgain, InputNone,
         SpuriousWakeup, After, QueueSkip
    <3>2. UNCHANGED <<fresh, inputQueue, inputClosed, outClosed, dropped, running, pauseInput, ctl>>
      BY <3>1
    <3>3. /\ len' \in [Filter -> Nat] /\ passed' \in [Filter -> [Id -> Nat]]
          /\ gone' \in [Id -> Nat] /\ deletedResources' \in Seq(Id)
      BY <1>0, <3>1
    <3>4. resourceCount' \in Int /\ downstream' \in Nat
      BY <1>0, <3>1
    <3>5. QED
      BY <3>2, <3>3, <3>4
  <2>2. CASE FlushPop(t)
    <3>0. \/ deletedResources' = deletedResources
          \/ deletedResources # <<>> /\ deletedResources' = Tail(deletedResources)
      BY <2>2 DEF FlushPop
    <3>1. deletedResources' \in Seq(Id)
      BY <1>0, <3>0, Rest
    <3>2. UNCHANGED <<inVars, outVars, gone, resourceCount, ctlVars>>
      BY <2>2 DEF FlushPop
    <3>3. QED
      BY <1>0, <3>1, <3>2
  <2>3. CASE Flush(t)
    <3>1. gone' \in [Id -> Nat] /\ len' \in [Filter -> Nat] /\ resourceCount' \in Int
      <4>1. CASE UNCHANGED <<len, gone, resourceCount>>
        BY <1>0, <4>1
      <4>2. CASE /\ deletedResources # <<>>
                 /\ gone' = [gone EXCEPT ![Head(deletedResources)] = @ + 1]
                 /\ len' = [f \in Filter |-> IF f \in ToEngine THEN len[f] + 1 ELSE len[f]]
                 /\ resourceCount' = resourceCount - 1
        BY <1>0, <4>2
      <4>3. QED
        BY <2>3, <4>1, <4>2 DEF Flush
    <3>2. UNCHANGED <<inVars, passed, outClosed, dropped, downstream, deletedResources, ctlVars>>
      BY <2>3 DEF Flush
    <3>3. QED
      BY <1>0, <3>1, <3>2
  <2>4. CASE QueueCopy(t)
    <3>1. len' \in [Filter -> Nat] /\ passed' \in [Filter -> [Id -> Nat]]
          /\ resourceCount' \in Int /\ downstream' \in Nat
      <4>1. PICK f \in Filter, i \in Id : f = th[t].qf /\ i = Current(t)
        BY <2>4, ProcessorAssumption DEF QueueCopy, Matches
      <4>2. passed' = [passed EXCEPT ![f][i] = @ + 1] /\ len' = [len EXCEPT ![f] = @ + 1]
            /\ resourceCount' = resourceCount + 1 /\ downstream' = downstream + 1
        BY <2>4, <4>1 DEF QueueCopy
      <4>3. QED
        BY <1>0, <4>2
    <3>2. UNCHANGED <<inVars, outClosed, dropped, delVars, ctlVars>>
      BY <2>4 DEF QueueCopy
    <3>3. QED
      BY <1>0, <3>1, <3>2
  <2>5. QED
    BY <2>1, <2>2, <2>3, <2>4 DEF Moves
<1>5. TypeOK'
  BY <1>0, <1>3, <1>4 DEF TypeOK
<1>6. QED
  BY <1>1, <1>3, <1>5 DEF Typed, Walks

(***************************************************************************)
(* What the steps do to the thread that takes them.                        *)
(***************************************************************************)

LEMMA Changed ==
  ASSUME th \in [Thread -> ThreadState], NEW t \in Thread, NEW s \in ThreadState,
         th' = [th EXCEPT ![t] = s]
  PROVE  th' \in [Thread -> ThreadState] /\ th'[t] = s /\ Others(t)
  BY DEF Others

\* ApplyModules took i: it waits for the MULTI module, or goes to the filters.
Accepted(t, i, n) ==
  /\ th' \in [Thread -> ThreadState] /\ Others(t)
  /\ th'[t].pending = th[t].pending /\ th'[t].held = th[t].held /\ th'[t].mout = th[t].mout
  /\ th'[t].readMax = th[t].readMax /\ th'[t].nread = th[t].nread + n
  /\ HasMulti => /\ th'[t].at = "read" /\ th'[t].min = Append(th[t].min, i)
                 /\ th'[t].r = th[t].r
  /\ ~HasMulti => /\ th'[t].at = "queue" /\ th'[t].min = th[t].min /\ th'[t].r = i

LEMMA Applied ==
  ASSUME th \in [Thread -> ThreadState], NEW t \in Thread, NEW i \in Id, NEW n \in Nat,
         Apply(t, i, n)
  PROVE  Accepted(t, i, n)
<1>0. /\ th[t] \in ThreadState /\ th[t].nread + n \in Nat /\ i \in Id \cup {NoId}
      /\ Append(th[t].min, i) \in Seq(Id) /\ "read" \in Place /\ "queue" \in Place /\ 1 \in Nat
  BY DEF ThreadState, Place
<1>1. CASE HasMulti
  <2> DEFINE a == [th[t] EXCEPT !.at = "read"]
             b == [a EXCEPT !.nread = th[t].nread + n]
             s == [b EXCEPT !.min = Append(th[t].min, i)]
  <2>1. th' = [th EXCEPT ![t] = s]
    BY <1>0, <1>1 DEF Apply, ThreadState
  <2>2. a \in ThreadState
    BY <1>0, Fields
  <2>3. b \in ThreadState
    BY <1>0, <2>2, Fields
  <2>4. s \in ThreadState
    BY <1>0, <2>3, Fields
  <2>5. /\ s.pending = th[t].pending /\ s.held = th[t].held /\ s.mout = th[t].mout
        /\ s.readMax = th[t].readMax /\ s.nread = th[t].nread + n
        /\ s.at = "read" /\ s.min = Append(th[t].min, i) /\ s.r = th[t].r
    BY <1>0 DEF ThreadState
  <2> HIDE DEF s
  <2>6. QED
    BY <1>1, <2>1, <2>4, <2>5, Changed DEF Accepted
<1>2. CASE ~HasMulti
  <2> DEFINE a == [th[t] EXCEPT !.at = "queue"]
             b == [a EXCEPT !.nread = th[t].nread + n]
             c == [b EXCEPT !.r = i]
             s == [c EXCEPT !.qf = 1]
  <2>1. th' = [th EXCEPT ![t] = s]
    BY <1>0, <1>2 DEF Apply, ThreadState
  <2>2. a \in ThreadState
    BY <1>0, Fields
  <2>3. b \in ThreadState
    BY <1>0, <2>2, Fields
  <2>4. c \in ThreadState
    BY <1>0, <2>3, Fields
  <2>5. s \in ThreadState
    BY <1>0, <2>4, Fields
  <2>6. /\ s.pending = th[t].pending /\ s.held = th[t].held /\ s.mout = th[t].mout
        /\ s.readMax = th[t].readMax /\ s.nread = th[t].nread + n
        /\ s.at = "queue" /\ s.min = th[t].min /\ s.r = i
    BY <1>0 DEF ThreadState
  <2> HIDE DEF s
  <2>7. QED
    BY <1>2, <2>1, <2>5, <2>6, Changed DEF Accepted
<1>3. QED
  BY <1>1, <1>2

\* QueueResource is over: what the thread keeps.
Released(t) ==
  /\ th' \in [Thread -> ThreadState] /\ Others(t)
  /\ th'[t].min = th[t].min /\ th'[t].held = th[t].held /\ th'[t].mout = th[t].mout
  /\ th'[t].readMax = th[t].readMax /\ th'[t].nread = th[t].nread

LEMMA Queued ==
  ASSUME th \in [Thread -> ThreadState], NEW t \in Thread, Queueing(t),
         th' = [th EXCEPT ![t] = QueuedNext(t)]
  PROVE  /\ Released(t)
         /\ \/ th[t].at = "queue" /\ th'[t].at = "read"
            \/ th[t].at = "qres" /\ th'[t].at = "out"
            \/ th[t].at = "qpend" /\ th'[t].at = "qres"
         /\ IF th[t].at = "qpend" THEN th'[t].pending = NoId /\ th'[t].r = th[t].r
                                  ELSE th'[t].r = NoId /\ th'[t].pending = th[t].pending
<1>0. /\ th[t] \in ThreadState /\ NoId \in Id \cup {NoId} /\ th[t].nqueued + 1 \in Nat
      /\ "read" \in Place /\ "out" \in Place /\ "qres" \in Place /\ 1 \in Nat
  BY DEF ThreadState, Place
<1>1. CASE th[t].at = "queue"
  <2> DEFINE a == [th[t] EXCEPT !.at = "read"]
             s == [a EXCEPT !.r = NoId]
  <2>1. QueuedNext(t) = s
    BY <1>1 DEF QueuedNext, At
  <2>2. a \in ThreadState
    BY <1>0, Fields
  <2>3. s \in ThreadState
    BY <1>0, <2>2, Fields
  <2>4. /\ s.min = th[t].min /\ s.held = th[t].held /\ s.mout = th[t].mout
        /\ s.readMax = th[t].readMax /\ s.nread = th[t].nread
        /\ s.at = "read" /\ s.r = NoId /\ s.pending = th[t].pending
    BY <1>0 DEF ThreadState
  <2> HIDE DEF s
  <2>5. QED
    BY <1>1, <2>1, <2>3, <2>4, Changed DEF Released
<1>2. CASE th[t].at = "qres"
  <2> DEFINE a == [th[t] EXCEPT !.at = "out"]
             b == [a EXCEPT !.r = NoId]
             s == [b EXCEPT !.nqueued = th[t].nqueued + 1]
  <2>1. QueuedNext(t) = s
    BY <1>0, <1>2 DEF QueuedNext, At, ThreadState
  <2>2. a \in ThreadState
    BY <1>0, Fields
  <2>3. b \in ThreadState
    BY <1>0, <2>2, Fields
  <2>4. s \in ThreadState
    BY <1>0, <2>3, Fields
  <2>5. /\ s.min = th[t].min /\ s.held = th[t].held /\ s.mout = th[t].mout
        /\ s.readMax = th[t].readMax /\ s.nread = th[t].nread
        /\ s.at = "out" /\ s.r = NoId /\ s.pending = th[t].pending
    BY <1>0 DEF ThreadState
  <2> HIDE DEF s
  <2>6. QED
    BY <1>2, <2>1, <2>4, <2>5, Changed DEF Released
<1>3. CASE th[t].at = "qpend"
  <2> DEFINE a == [th[t] EXCEPT !.at = "qres"]
             b == [a EXCEPT !.pending = NoId]
             c == [b EXCEPT !.qf = 1]
             s == [c EXCEPT !.nqueued = th[t].nqueued + 1]
  <2>1. QueuedNext(t) = s
    BY <1>0, <1>3 DEF QueuedNext, At, ThreadState
  <2>2. a \in ThreadState
    BY <1>0, Fields
  <2>3. b \in ThreadState
    BY <1>0, <2>2, Fields
  <2>4. c \in ThreadState
    BY <1>0, <2>3, Fields
  <2>5. s \in ThreadState
    BY <1>0, <2>4, Fields
  <2>6. /\ s.min = th[t].min /\ s.held = th[t].held /\ s.mout = th[t].mout
        /\ s.readMax = th[t].readMax /\ s.nread = th[t].nread
        /\ s.at = "qres" /\ s.pending = NoId /\ s.r = th[t].r
    BY <1>0 DEF ThreadState
  <2> HIDE DEF s
  <2>7. QED
    BY <1>3, <2>1, <2>5, <2>6, Changed DEF Released
<1>4. QED
  BY <1>1, <1>2, <1>3 DEF Queueing

LEMMA Refused ==
  ASSUME th \in [Thread -> ThreadState], NEW t \in Thread, Queueing(t),
         th' = [th EXCEPT ![t] = RefusedNext(t)]
  PROVE  /\ Released(t)
         /\ th'[t].at = IF th[t].at = "queue" THEN "ended" ELSE "after"
         /\ th'[t].r = NoId
         /\ th'[t].pending = IF th[t].at = "qres" THEN th[t].r ELSE th[t].pending
<1>0. /\ th[t] \in ThreadState /\ NoId \in Id \cup {NoId} /\ th[t].r \in Id \cup {NoId}
      /\ "ended" \in Place /\ "after" \in Place
  BY DEF ThreadState, Place
<1>1. CASE th[t].at = "queue" \/ th[t].at = "qpend"
  <2> DEFINE p == IF th[t].at = "queue" THEN "ended" ELSE "after"
             a == [th[t] EXCEPT !.at = p]
             s == [a EXCEPT !.r = NoId]
  <2>0. p \in Place
    BY <1>0
  <2>1. RefusedNext(t) = s
    BY <1>1 DEF RefusedNext, At
  <2>2. a \in ThreadState
    BY <1>0, <2>0, Fields
  <2>3. s \in ThreadState
    BY <1>0, <2>2, Fields
  <2>4. /\ s.min = th[t].min /\ s.held = th[t].held /\ s.mout = th[t].mout
        /\ s.readMax = th[t].readMax /\ s.nread = th[t].nread
        /\ s.at = p /\ s.r = NoId /\ s.pending = th[t].pending
    BY <1>0 DEF ThreadState
  <2> HIDE DEF s
  <2>5. QED
    BY <1>1, <2>1, <2>3, <2>4, Changed DEF Released
<1>2. CASE th[t].at = "qres"
  <2> DEFINE a == [th[t] EXCEPT !.at = "after"]
             b == [a EXCEPT !.pending = th[t].r]
             s == [b EXCEPT !.r = NoId]
  <2>1. RefusedNext(t) = s
    BY <1>0, <1>2 DEF RefusedNext, At, ThreadState
  <2>2. a \in ThreadState
    BY <1>0, Fields
  <2>3. b \in ThreadState
    BY <1>0, <2>2, Fields
  <2>4. s \in ThreadState
    BY <1>0, <2>3, Fields
  <2>5. /\ s.min = th[t].min /\ s.held = th[t].held /\ s.mout = th[t].mout
        /\ s.readMax = th[t].readMax /\ s.nread = th[t].nread
        /\ s.at = "after" /\ s.r = NoId /\ s.pending = th[t].r
    BY <1>0 DEF ThreadState
  <2> HIDE DEF s
  <2>6. QED
    BY <1>2, <2>1, <2>4, <2>5, Changed DEF Released
<1>3. QED
  BY <1>1, <1>2 DEF Queueing

\* RunThread takes an output of the MULTI module.
Fetched(t) ==
  /\ th' \in [Thread -> ThreadState] /\ Others(t)
  /\ th[t].mout # <<>>
  /\ th'[t].r = Head(th[t].mout) /\ th'[t].mout = Tail(th[t].mout)
  /\ th'[t].at = IF th[t].pending # NoId THEN "qpend" ELSE "qres"
  /\ th'[t].min = th[t].min /\ th'[t].held = th[t].held /\ th'[t].pending = th[t].pending
  /\ th'[t].readMax = th[t].readMax /\ th'[t].nread = th[t].nread

LEMMA OutTakes ==
  ASSUME th \in [Thread -> ThreadState], NEW t \in Thread, Out(t)
  PROVE  Walks(t, "after", th[t].readMax, th[t].nread) \/ Fetched(t)
<1>0. /\ th[t] \in ThreadState /\ th[t].mout \in Seq(Id) /\ 1 \in Nat
      /\ "qpend" \in Place /\ "qres" \in Place /\ "after" \in Place
  BY DEF ThreadState, Place
<1>1. CASE th[t].mout = <<>>
  <2>1. th' = [th EXCEPT ![t].at = "after"]
    BY <1>1 DEF Out, Goto
  <2>2. QED
    BY <1>0, <2>1, Walked
<1>2. CASE th[t].mout # <<>>
  <2> DEFINE p == IF th[t].pending # NoId THEN "qpend" ELSE "qres"
             a == [th[t] EXCEPT !.r = Head(th[t].mout)]
             b == [a EXCEPT !.mout = Tail(th[t].mout)]
             c == [b EXCEPT !.qf = 1]
             s == [c EXCEPT !.at = p]
  <2>0. p \in Place /\ Head(th[t].mout) \in Id \cup {NoId} /\ Tail(th[t].mout) \in Seq(Id)
    BY <1>0, <1>2, Rest
  <2>1. th' = [th EXCEPT ![t] = s]
    BY <1>0, <1>2 DEF Out, ThreadState
  <2>2. a \in ThreadState
    BY <1>0, <2>0, Fields
  <2>3. b \in ThreadState
    BY <2>0, <2>2, Fields
  <2>4. c \in ThreadState
    BY <1>0, <2>3, Fields
  <2>5. s \in ThreadState
    BY <2>0, <2>4, Fields
  <2>6. /\ s.r = Head(th[t].mout) /\ s.mout = Tail(th[t].mout) /\ s.at = p
        /\ s.min = th[t].min /\ s.held = th[t].held /\ s.pending = th[t].pending
        /\ s.readMax = th[t].readMax /\ s.nread = th[t].nread
    BY <1>0 DEF ThreadState
  <2> HIDE DEF s
  <2>7. QED
    BY <1>2, <2>1, <2>5, <2>6, Changed DEF Fetched
<1>3. QED
  BY <1>1, <1>2

\* The MULTI module took k resources and let go of b.
Fed(t, k, b) ==
  LET all == th[t].held \o SubSeq(th[t].min, 1, k) IN
  /\ th' \in [Thread -> ThreadState] /\ Others(t)
  /\ k <= Len(th[t].min) /\ b <= Len(all)
  /\ th'[t].at = "out"
  /\ th'[t].min = SubSeq(th[t].min, k + 1, Len(th[t].min))
  /\ \/ all = <<>> /\ th'[t].held = th[t].held /\ th'[t].mout = th[t].mout
     \/ /\ th'[t].held = SubSeq(all, b + 1, Len(all))
        /\ th'[t].mout = th[t].mout \o SubSeq(all, 1, b)
  /\ th'[t].r = th[t].r /\ th'[t].pending = th[t].pending
  /\ th'[t].readMax = MAX_RESOURCES - Len(th'[t].held) - Len(th'[t].min)

LEMMA MultiFeeds ==
  ASSUME th \in [Thread -> ThreadState], NEW t \in Thread, Multi(t)
  PROVE  \E k \in Nat, b \in Nat : Fed(t, k, b)
<1> DEFINE room == IF Len(th[t].held) <= MAX_RESOURCES
                     THEN MAX_RESOURCES + 1 - Len(th[t].held) ELSE 0
           k == SeqMin(room, Len(th[t].min))
           all == th[t].held \o SubSeq(th[t].min, 1, k)
           left == SubSeq(th[t].min, k + 1, Len(th[t].min))
           b == SeqMin(Burst, Len(all))
           kept == SubSeq(all, b + 1, Len(all))
           first == SubSeq(all, 1, b)
<1>0. /\ th[t] \in ThreadState /\ th[t].min \in Seq(Id) /\ th[t].held \in Seq(Id)
      /\ th[t].mout \in Seq(Id) /\ Len(th[t].min) \in Nat /\ Len(th[t].held) \in Nat
      /\ "out" \in Place /\ 0 \in Nat /\ MAX_RESOURCES \in Nat /\ Burst \in Nat
  BY ProcessorAssumption DEF ThreadState, Place
<1>1. k \in Nat /\ k <= Len(th[t].min)
  <2>1. room \in Nat
    <3>1. CASE Len(th[t].held) <= MAX_RESOURCES
      BY <1>0, <3>1
    <3>2. CASE ~(Len(th[t].held) <= MAX_RESOURCES)
      BY <3>2
    <3>3. QED
      BY <3>1, <3>2
  <2> HIDE DEF room
  <2>2. QED
    BY <1>0, <2>1 DEF SeqMin
<1> HIDE DEF k
<1>2. left \in Seq(Id) /\ SubSeq(th[t].min, 1, k) \in Seq(Id) /\ Len(left) \in Nat
  BY <1>0, <1>1, Cut
<1>3. all \in Seq(Id) /\ Len(all) \in Nat
  BY <1>0, <1>2, Joined
<1> HIDE DEF all
<1>4. b \in Nat /\ b <= Len(all)
  BY <1>0, <1>3 DEF SeqMin
<1> HIDE DEF b
<1>5. kept \in Seq(Id) /\ first \in Seq(Id) /\ Len(kept) \in Nat
  BY <1>3, <1>4, Cut
<1>6. th[t].mout \o first \in Seq(Id)
  BY <1>0, <1>5, Joined
<1> HIDE DEF left, kept, first
<1>7. CASE all = <<>>
  <2> DEFINE max == MAX_RESOURCES - Len(left)
             c == [th[t] EXCEPT !.at = "out"]
             d == [c EXCEPT !.min = left]
             e == [d EXCEPT !.block = TRUE]
             f == [e EXCEPT !.readMax = max]
             s == [f EXCEPT !.nqueued = 0]
  <2>0. max \in Int
    BY <1>0, <1>2
  <2>1. th' = [th EXCEPT ![t] = s]
    BY <1>7 DEF Multi, left, all, k
  <2> HIDE DEF max
  <2>2. c \in ThreadState
    BY <1>0, Fields
  <2>3. d \in ThreadState
    BY <1>2, <2>2, Fields
  <2>4. e \in ThreadState
    BY <2>3, Fields
  <2>5. f \in ThreadState
    BY <2>0, <2>4, Fields, Zenon
  <2>6. s \in ThreadState
    BY <1>0, <2>5, Fields
  <2>7. /\ s.at = "out" /\ s.min = left /\ s.held = th[t].held /\ s.mout = th[t].mout
        /\ s.r = th[t].r /\ s.pending = th[t].pending /\ s.readMax = max
    BY <1>0 DEF ThreadState
  <2> HIDE DEF s
  <2>8. th' \in [Thread -> ThreadState] /\ th'[t] = s /\ Others(t)
    BY <2>1, <2>6, Changed
  <2>9. Len(th[t].held) = 0
    <3>1. Len(all) = Len(th[t].held) + Len(SubSeq(th[t].min, 1, k)) /\ Len(all) = 0
      BY <1>0, <1>2, <1>7, Joined DEF all
    <3>2. QED
      BY <1>0, <1>2, <3>1
  <2>10. max = MAX_RESOURCES - Len(th'[t].held) - Len(th'[t].min)
    <3>1. Len(th'[t].held) = 0 /\ Len(th'[t].min) = Len(left)
      BY <2>7, <2>8, <2>9
    <3>2. QED
      BY <1>0, <1>2, <3>1 DEF max
  <2>11. Fed(t, k, b)
    BY <1>1, <1>4, <1>7, <2>7, <2>8, <2>10 DEF Fed, all, left
  <2>12. QED
    BY <1>1, <1>4, <2>11
<1>8. CASE all # <<>>
  <2> DEFINE max == MAX_RESOURCES - Len(kept) - Len(left)
             c == [th[t] EXCEPT !.at = "out"]
             d == [c EXCEPT !.min = left]
             e == [d EXCEPT !.held = kept]
             f == [e EXCEPT !.mout = th[t].mout \o first]
             g == [f EXCEPT !.block = (kept = <<>>)]
             h == [g EXCEPT !.readMax = max]
             s == [h EXCEPT !.nqueued = 0]
  <2>0. max \in Int /\ (kept = <<>>) \in BOOLEAN
    BY <1>0, <1>2, <1>5
  <2>1. th' = [th EXCEPT ![t] = s]
    BY <1>0, <1>8 DEF Multi, left, all, k, kept, first, b, ThreadState
  <2> HIDE DEF max
  <2>2. c \in ThreadState
    BY <1>0, Fields
  <2>3. d \in ThreadState
    BY <1>2, <2>2, Fields
  <2>4. e \in ThreadState
    BY <1>5, <2>3, Fields
  <2>5. f \in ThreadState
    BY <1>6, <2>4, Fields
  <2>6. g \in ThreadState
    BY <2>0, <2>5, Fields
  <2>7. h \in ThreadState
    BY <2>0, <2>6, Fields, Zenon
  <2>8. s \in ThreadState
    BY <1>0, <2>7, Fields
  <2>9. /\ s.at = "out" /\ s.min = left /\ s.held = kept /\ s.mout = th[t].mout \o first
        /\ s.r = th[t].r /\ s.pending = th[t].pending /\ s.readMax = max
    BY <1>0 DEF ThreadState
  <2> HIDE DEF s
  <2>10. th' \in [Thread -> ThreadState] /\ th'[t] = s /\ Others(t)
    BY <2>1, <2>8, Changed
  <2>11. Fed(t, k, b)
    BY <1>1, <1>4, <2>9, <2>10 DEF Fed, all, left, kept, first, max
  <2>12. QED
    BY <1>1, <1>4, <2>11
<1>9. QED
  BY <1>7, <1>8

\* pthread_cond_broadcast: the threads that wait wake up.
LEMMA Woken ==
  ASSUME th \in [Thread -> ThreadState], th' = Signalled(th)
  PROVE  /\ th' \in [Thread -> ThreadState]
         /\ \A t \in Thread : /\ SameContent(t)
                              /\ th'[t].readMax = th[t].readMax /\ th'[t].nread = th[t].nread
                              /\ \/ th'[t].at = th[t].at
                                 \/ th[t].at = "pauseWait" /\ th'[t].at = "pauseWoken"
<1>1. ASSUME NEW t \in Thread
      PROVE  /\ th'[t] \in ThreadState /\ SameContent(t)
             /\ th'[t].readMax = th[t].readMax /\ th'[t].nread = th[t].nread
             /\ \/ th'[t].at = th[t].at
                \/ th[t].at = "pauseWait" /\ th'[t].at = "pauseWoken"
  <2>0. th[t] \in ThreadState /\ "pauseWoken" \in Place
    BY DEF Place
  <2>1. CASE th[t].at # "pauseWait"
    BY <2>0, <2>1 DEF Signalled, SameContent
  <2>2. CASE th[t].at = "pauseWait"
    <3> DEFINE s == [th[t] EXCEPT !.at = "pauseWoken"]
    <3>1. th'[t] = s
      BY <2>2 DEF Signalled
    <3>2. s \in ThreadState
      BY <2>0, Fields
    <3>3. /\ s.r = th[t].r /\ s.pending = th[t].pending /\ s.min = th[t].min
          /\ s.held = th[t].held /\ s.mout = th[t].mout /\ s.at = "pauseWoken"
          /\ s.readMax = th[t].readMax /\ s.nread = th[t].nread
      BY <2>0 DEF ThreadState
    <3> HIDE DEF s
    <3>4. QED
      BY <2>2, <3>1, <3>2, <3>3 DEF SameContent
  <2>3. QED
    BY <2>1, <2>2
<1>2. th' = [t \in Thread |-> th'[t]]
  BY DEF Signalled
<1>3. QED
  BY <1>1, <1>2

(***************************************************************************)
(* Every step keeps the types.                                             *)
(***************************************************************************)

\* A step of thread t, when the thread is well supplied after it.
LEMMA OneSupplied ==
  ASSUME Typed, NEW t \in Thread, Others(t), Supplied(th'[t])
  PROVE  \A u \in Thread : Supplied(th'[u])
  BY DEF Typed, Others

\* What QueueResource takes is a resource.
LEMMA CurrentId ==
  ASSUME Typed, NEW t \in Thread, Queueing(t)
  PROVE  Current(t) \in Id
<1>1. th[t].at \in {"queue", "qpend", "qres"} /\ Supplied(th[t])
  BY DEF Typed, Queueing
<1>2. QED
  BY <1>1 DEF Supplied, Current, At

LEMMA TakeTyped ==
  ASSUME Typed, NEW t \in Thread, Take(t)
  PROVE  Typed'
<1>0. /\ TypeOK /\ th \in [Thread -> ThreadState] /\ inputQueue \in Seq(Id)
      /\ deletedResources \in Seq(Id) /\ inputQueue # <<>>
      /\ \A u \in Thread : Supplied(th[u])
  BY DEF Typed, TypeOK, Take
<1>1. PICK i \in Id : i = Head(inputQueue)
  BY <1>0, Rest
<1>2. inputQueue' \in Seq(Id)
  <2>1. inputQueue' = Tail(inputQueue)
    BY DEF Take
  <2>2. QED
    BY <1>0, <2>1, Rest
<1>3. UNCHANGED <<fresh, inputClosed, outVars, gone, resourceCount, ctlVars>>
  BY DEF Take
<1>4. /\ deletedResources' \in Seq(Id) /\ th' \in [Thread -> ThreadState]
      /\ \A u \in Thread : Supplied(th'[u])
  <2>1. CASE i \in Doomed
    <3>1. deletedResources' = Append(deletedResources, i) /\ th' = [th EXCEPT ![t].at = AfterRead]
      BY <1>1, <2>1 DEF Take, Goto
    <3>2. AfterRead \in Place /\ AfterRead \notin {"queue", "qres", "qpend"}
      BY DEF AfterRead, Place
    <3>3. Walks(t, AfterRead, th[t].readMax, th[t].nread)
      BY <1>0, <3>1, <3>2, Walked
    <3>4. Supplied(th'[t])
      BY <3>2, <3>3 DEF Walks, Supplied
    <3>5. deletedResources' \in Seq(Id)
      BY <1>0, <3>1, Grown
    <3>6. QED
      BY <3>3, <3>4, <3>5, OneSupplied DEF Walks
  <2>2. CASE i \notin Doomed
    <3>1. Apply(t, i, 2) /\ deletedResources' = deletedResources
      BY <1>1, <2>2 DEF Take
    <3>2. Accepted(t, i, 2)
      BY <1>0, <3>1, Applied
    <3>3. Supplied(th'[t])
      BY <3>2 DEF Accepted, Supplied
    <3>4. QED
      BY <1>0, <3>1, <3>2, <3>3, OneSupplied DEF Accepted
  <2>3. QED
    BY <2>1, <2>2
<1>5. TypeOK'
  BY <1>0, <1>2, <1>3, <1>4 DEF TypeOK, outVars, ctlVars
<1>6. QED
  BY <1>4, <1>5 DEF Typed

LEMMA InputTyped ==
  ASSUME Typed, NEW t \in Thread, NEW i \in Id, Input(t, i)
  PROVE  Typed'
<1>0. /\ TypeOK /\ th \in [Thread -> ThreadState] /\ fresh \subseteq Id
      /\ deletedResources \in Seq(Id) /\ resourceCount \in Int
      /\ \A u \in Thread : Supplied(th[u])
  BY DEF Typed, TypeOK
<1>1. fresh' \subseteq Id
  BY <1>0 DEF Input
<1>2. UNCHANGED <<inputQueue, inputClosed, outVars, gone, ctlVars>>
  BY DEF Input
<1>3. /\ deletedResources' \in Seq(Id) /\ resourceCount' \in Int
      /\ th' \in [Thread -> ThreadState] /\ \A u \in Thread : Supplied(th'[u])
  <2>1. CASE i \in Doomed
    <3>1. /\ deletedResources' = Append(deletedResources, i)
          /\ UNCHANGED <<resourceCount, th>>
      BY <2>1 DEF Input
    <3>2. deletedResources' \in Seq(Id)
      BY <1>0, <3>1, Grown
    <3>3. QED
      BY <1>0, <3>1, <3>2
  <2>2. CASE i \notin Doomed
    <3>1. /\ Apply(t, i, 1) /\ deletedResources' = deletedResources
          /\ resourceCount' = resourceCount + 1
      BY <2>2 DEF Input
    <3>2. Accepted(t, i, 1)
      BY <1>0, <3>1, Applied
    <3>3. Supplied(th'[t])
      BY <3>2 DEF Accepted, Supplied
    <3>4. resourceCount' \in Int /\ deletedResources' \in Seq(Id)
      BY <1>0, <3>1
    <3>5. QED
      BY <3>2, <3>3, <3>4, OneSupplied DEF Accepted
  <2>3. QED
    BY <2>1, <2>2
<1>4. TypeOK'
  BY <1>0, <1>1, <1>2, <1>3 DEF TypeOK, outVars, ctlVars
<1>5. QED
  BY <1>3, <1>4 DEF Typed

\* After QueueResource the thread is well supplied, whatever it returned.
LEMMA QueuedSupplied ==
  ASSUME Typed, NEW t \in Thread, Queueing(t),
         \/ th' = [th EXCEPT ![t] = QueuedNext(t)]
         \/ th' = [th EXCEPT ![t] = RefusedNext(t)]
  PROVE  th' \in [Thread -> ThreadState] /\ \A u \in Thread : Supplied(th'[u])
<1>0. th \in [Thread -> ThreadState] /\ Supplied(th[t])
  BY DEF Typed, TypeOK
<1>1. CASE th' = [th EXCEPT ![t] = QueuedNext(t)]
  <2>1. /\ Released(t)
        /\ \/ th[t].at = "queue" /\ th'[t].at = "read"
           \/ th[t].at = "qres" /\ th'[t].at = "out"
           \/ th[t].at = "qpend" /\ th'[t].at = "qres"
        /\ IF th[t].at = "qpend" THEN th'[t].pending = NoId /\ th'[t].r = th[t].r
                                 ELSE th'[t].r = NoId /\ th'[t].pending = th[t].pending
    BY <1>0, <1>1, Queued
  <2>2. Supplied(th'[t])
    BY <1>0, <2>1 DEF Supplied
  <2>3. QED
    BY <2>1, <2>2, OneSupplied DEF Released
<1>2. CASE th' = [th EXCEPT ![t] = RefusedNext(t)]
  <2>1. Released(t) /\ th'[t].at = IF th[t].at = "queue" THEN "ended" ELSE "after"
    BY <1>0, <1>2, Refused
  <2>2. Supplied(th'[t])
    BY <2>1 DEF Supplied
  <2>3. QED
    BY <2>1, <2>2, OneSupplied DEF Released
<1>3. QED
  BY <1>1, <1>2

LEMMA QueueTyped ==
  ASSUME Typed, NEW t \in Thread, QueuePut(t) \/ QueueDrop(t) \/ QueueRefused(t)
  PROVE  Typed'
<1>0. /\ TypeOK /\ len \in [Filter -> Nat] /\ passed \in [Filter -> [Id -> Nat]]
      /\ resourceCount \in Int /\ downstream \in Nat /\ dropped \subseteq Id
  BY DEF Typed, TypeOK
<1>1. Queueing(t) /\ UNCHANGED <<inVars, outClosed, delVars, ctlVars>>
  BY DEF QueuePut, QueueDrop, QueueRefused, outVars
<1>2. PICK i \in Id : i = Current(t)
  BY <1>1, CurrentId
<1>3. th' \in [Thread -> ThreadState] /\ \A u \in Thread : Supplied(th'[u])
  BY <1>1, QueuedSupplied DEF QueuePut, QueueDrop, QueueRefused
<1>4. /\ len' \in [Filter -> Nat] /\ passed' \in [Filter -> [Id -> Nat]]
      /\ resourceCount' \in Int /\ downstream' \in Nat /\ dropped' \subseteq Id
  <2>1. CASE QueuePut(t)
    <3>1. PICK f \in Filter : f = th[t].qf
      BY <2>1 DEF QueuePut, Matches
    <3>2. /\ passed' = [passed EXCEPT ![f][i] = @ + 1] /\ len' = [len EXCEPT ![f] = @ + 1]
          /\ dropped' = dropped
      BY <1>2, <2>1, <3>1 DEF QueuePut
    <3>3. \/ resourceCount' = resourceCount - 1 /\ downstream' = downstream
          \/ downstream' = downstream + 1 /\ resourceCount' = resourceCount
      BY <2>1, <3>1 DEF QueuePut
    <3>4. len' \in [Filter -> Nat] /\ passed' \in [Filter -> [Id -> Nat]] /\ dropped' \subseteq Id
      BY <1>0, <3>2
    <3>5. resourceCount' \in Int /\ downstream' \in Nat
      BY <1>0, <3>3
    <3>6. QED
      BY <3>4, <3>5
  <2>2. CASE QueueDrop(t)
    <3>1. /\ UNCHANGED <<len, passed, downstream>> /\ resourceCount' = resourceCount - 1
          /\ dropped' = dropped \cup {i}
      BY <1>2, <2>2 DEF QueueDrop
    <3>2. resourceCount' \in Int
      BY <1>0, <3>1
    <3>3. dropped' \subseteq Id /\ len' \in [Filter -> Nat]
          /\ passed' \in [Filter -> [Id -> Nat]] /\ downstream' \in Nat
      BY <1>0, <3>1
    <3>4. QED
      BY <3>2, <3>3
  <2>3. CASE QueueRefused(t)
    <3>1. UNCHANGED <<len, passed, downstream, resourceCount, dropped>>
      BY <2>3 DEF QueueRefused, outVars
    <3>2. QED
      BY <1>0, <3>1
  <2>4. QED
    BY <2>1, <2>2, <2>3
<1>5. TypeOK'
  BY <1>0, <1>1, <1>3, <1>4 DEF TypeOK, inVars, delVars, ctlVars
<1>6. QED
  BY <1>3, <1>5 DEF Typed

LEMMA MultiOutTyped ==
  ASSUME Typed, NEW t \in Thread, Multi(t) \/ Out(t)
  PROVE  Typed'
<1>0. TypeOK /\ th \in [Thread -> ThreadState] /\ \A u \in Thread : th[u] \in ThreadState
  BY DEF Typed, TypeOK
<1>1. UNCHANGED <<inVars, outVars, delVars, resourceCount, ctlVars>>
  BY DEF Multi, Out
<1>2. th' \in [Thread -> ThreadState] /\ \A u \in Thread : Supplied(th'[u])
  <2>1. CASE Multi(t)
    <3>1. PICK k \in Nat, b \in Nat : Fed(t, k, b)
      BY <1>0, <2>1, MultiFeeds
    <3>2. th' \in [Thread -> ThreadState] /\ Others(t) /\ th'[t].at = "out"
      BY <3>1 DEF Fed
    <3>3. Supplied(th'[t])
      BY <3>2 DEF Supplied
    <3>4. QED
      BY <3>2, <3>3, OneSupplied
  <2>2. CASE Out(t)
    <3>1. CASE Walks(t, "after", th[t].readMax, th[t].nread)
      <4>1. Supplied(th'[t])
        BY <3>1 DEF Supplied, Walks
      <4>2. QED
        BY <3>1, <4>1, OneSupplied DEF Walks
    <3>2. CASE Fetched(t)
      <4>1. Head(th[t].mout) \in Id /\ th[t].pending \in Id \cup {NoId}
        <5>1. th[t].mout \in Seq(Id) /\ th[t].pending \in Id \cup {NoId}
          BY <1>0 DEF ThreadState
        <5>2. QED
          BY <3>2, <5>1, Rest DEF Fetched
      <4>2. Supplied(th'[t])
        BY <3>2, <4>1 DEF Supplied, Fetched
      <4>3. QED
        BY <3>2, <4>2, OneSupplied DEF Fetched
    <3>3. QED
      BY <1>0, <2>2, <3>1, <3>2, OutTakes
  <2>3. QED
    BY <2>1, <2>2
<1>3. TypeOK'
  BY <1>0, <1>1, <1>2 DEF TypeOK, inVars, outVars, delVars, ctlVars
<1>4. QED
  BY <1>2, <1>3 DEF Typed

\* The steps outside the threads.
Elsewhere ==
  \/ \E i \in Id : Arrive(i)
  \/ \E f \in Filter : Consume(f)
  \/ \E b \in BOOLEAN : SetPauseInput(b)
  \/ StopRunning \/ StopStep \/ CloseOut

LEMMA ElsewhereTyped ==
  ASSUME Typed, Elsewhere
  PROVE  Typed'
<1> USE DEF inVars, outVars, delVars, ctlVars
<1>0. /\ TypeOK /\ th \in [Thread -> ThreadState] /\ fresh \subseteq Id /\ inputQueue \in Seq(Id)
      /\ resourceCount \in Int /\ len \in [Filter -> Nat] /\ \A u \in Thread : Supplied(th[u])
  BY DEF Typed, TypeOK
<1>1. ASSUME NEW i \in Id, Arrive(i) PROVE Typed'
  <2>1. fresh' \subseteq Id /\ resourceCount' \in Int
    BY <1>0, <1>1 DEF Arrive
  <2>2. inputQueue' \in Seq(Id)
    BY <1>0, <1>1, Grown DEF Arrive
  <2>3. UNCHANGED <<inputClosed, outVars, delVars, ctlVars, th>>
    BY <1>1 DEF Arrive
  <2>4. QED
    BY <1>0, <2>1, <2>2, <2>3 DEF TypeOK, Typed
<1>2. ASSUME NEW f \in Filter, Consume(f) PROVE Typed'
  <2>1. len' \in [Filter -> Nat]
    BY <1>0, <1>2 DEF Consume
  <2>2. UNCHANGED <<inVars, passed, outClosed, delVars, dropped, resourceCount,
                    downstream, ctlVars, th>>
    BY <1>2 DEF Consume
  <2>3. QED
    BY <1>0, <2>1, <2>2 DEF TypeOK, Typed
<1>3. CASE (\E b \in BOOLEAN : SetPauseInput(b)) \/ StopSignal
  <2>1. UNCHANGED <<inVars, outVars, delVars, resourceCount, running>>
    BY <1>3 DEF SetPauseInput, StopSignal
  <2>2. pauseInput' \in BOOLEAN /\ ctl' \in {"run", "queue", "signal", "join", "off"}
    BY <1>0, <1>3 DEF SetPauseInput, StopSignal, TypeOK
  <2>3. th' = th \/ th' = Signalled(th)
    BY <1>3 DEF SetPauseInput, StopSignal
  <2>4. th' \in [Thread -> ThreadState] /\ \A u \in Thread : Supplied(th'[u])
    BY <1>0, <2>3, Woken DEF SameContent, Supplied
  <2>5. TypeOK'
    BY <1>0, <2>1, <2>2, <2>4 DEF TypeOK
  <2>6. QED
    BY <2>4, <2>5 DEF Typed
<1>4. CASE StopRunning \/ StopInputQueue \/ StopJoin \/ CloseOut
  <2>1. UNCHANGED <<fresh, len, passed, dropped, downstream, delVars, resourceCount,
                    pauseInput, th>>
    BY <1>4 DEF StopRunning, StopInputQueue, StopJoin, CloseOut
  <2>2. inputQueue' \in Seq(Id)
    <3>1. inputQueue' = inputQueue \/ inputQueue' = <<>>
      BY <1>4 DEF StopRunning, StopInputQueue, StopJoin, CloseOut
    <3>2. <<>> \in Seq(Id)
      OBVIOUS
    <3>3. QED
      BY <1>0, <3>1, <3>2, Zenon
  <2>3. /\ running' \in BOOLEAN /\ inputClosed' \in BOOLEAN /\ outClosed' \in BOOLEAN
        /\ ctl' \in {"run", "queue", "signal", "join", "off"}
    BY <1>0, <1>4 DEF StopRunning, StopInputQueue, StopJoin, CloseOut, TypeOK
  <2>4. TypeOK'
    BY <1>0, <2>1, <2>2, <2>3 DEF TypeOK
  <2>5. QED
    BY <1>0, <2>1, <2>4 DEF Typed
<1>5. QED
  BY <1>1, <1>2, <1>3, <1>4 DEF Elsewhere, StopStep

\* A step is one of these.
LEMMA Steps ==
  ASSUME Next
  PROVE  \/ \E t \in Thread : \/ Moves(t) \/ Take(t) \/ (\E i \in Id : Input(t, i))
                              \/ QueuePut(t) \/ QueueDrop(t) \/ QueueRefused(t)
                              \/ Multi(t) \/ Out(t)
         \/ Elsewhere
  BY DEF Next, ThreadStep, Moves, Elsewhere

LEMMA InitTyped ==
  ASSUME Init
  PROVE  Typed
<1> DEFINE s == [at |-> "new", block |-> TRUE, readMax |-> 1, nread |-> 0,
                 r |-> NoId, min |-> <<>>, held |-> <<>>, mout |-> <<>>,
                 pending |-> NoId, nqueued |-> 0, qf |-> 1]
<1>1. s \in ThreadState /\ Supplied(s)
  BY DEF ThreadState, Supplied, Place
<1>2. th = [t \in Thread |-> s]
  BY DEF Init
<1> HIDE DEF s
<1>3. th \in [Thread -> ThreadState] /\ \A t \in Thread : Supplied(th[t])
  BY <1>1, <1>2
<1>4. TypeOK
  <2>1. pauseInput \in BOOLEAN /\ ctl = "run"
    BY DEF Init
  <2>2. /\ fresh = Id /\ inputQueue = <<>> /\ inputClosed = FALSE /\ outClosed = FALSE
        /\ deletedResources = <<>> /\ dropped = {} /\ resourceCount = 0 /\ downstream = 0
        /\ running = TRUE
    BY DEF Init
  <2>3. len \in [Filter -> Nat] /\ gone \in [Id -> Nat]
    BY DEF Init
  <2>4. passed \in [Filter -> [Id -> Nat]]
    BY DEF Init
  <2>5. <<>> \in Seq(Id) /\ 0 \in Int /\ 0 \in Nat
    OBVIOUS
  <2>6. QED
    BY <1>3, <2>1, <2>2, <2>3, <2>4, <2>5 DEF TypeOK
<1>5. QED
  BY <1>3, <1>4 DEF Typed

LEMMA NextTyped ==
  ASSUME Typed, [Next]_vars
  PROVE  Typed'
<1>1. CASE Next
  BY <1>1, Steps, MovesTyped, TakeTyped, InputTyped, QueueTyped, MultiOutTyped, ElsewhereTyped
<1>2. CASE UNCHANGED vars
  <2>1. TypeOK' /\ th' = th
    BY <1>2 DEF vars, Typed, TypeOK
  <2>2. QED
    BY <2>1 DEF Typed
<1>3. QED
  BY <1>1, <1>2

\* Every variable keeps its type, and QueueResource always has a resource.
THEOREM Types == Spec => []TypeOK
<1>1. Init => Typed
  BY InitTyped
<1>2. Typed /\ [Next]_vars => Typed'
  BY NextTyped
<1>3. Typed => TypeOK
  BY DEF Typed
<1>4. QED
  BY <1>1, <1>2, <1>3, PTL DEF Spec

(***************************************************************************)
(* Room in the MULTI module.  Outside the reading loop readMax resources   *)
(* still fit; inside it, what may still be read fits.                      *)
(***************************************************************************)
Reading == {"read", "pauseWait", "pauseWoken", "pauseLock", "input"}

\* At a, with load resources in and before the module, readMax m and nread n.
RoomAt(a, load, m, n) ==
  /\ load <= MAX_RESOURCES
  /\ a \in Reading /\ n < m => load + m - n <= MAX_RESOURCES
  /\ a \in Reading \ {"read"} => n < m
  /\ a \notin Reading \cup {"multi", "ended", "aborted"} => load + m <= MAX_RESOURCES

Load(s) == Len(s.held) + Len(s.min)

Room(s) ==
  /\ HasMulti => RoomAt(s.at, Load(s), s.readMax, s.nread)
  /\ ~HasMulti => s.held = <<>> /\ s.min = <<>>

Roomy == \A t \in Thread : Room(th[t])

LEMMA Loaded ==
  ASSUME NEW s \in ThreadState
  PROVE  /\ Load(s) \in Nat
         /\ \A h, m \in Seq(Id) : s.held = h /\ s.min = m => Load(s) = Len(h) + Len(m)
<1>1. \A h, m \in Seq(Id) : s.held = h /\ s.min = m => Load(s) = Len(h) + Len(m)
  BY DEF Load
<1>2. PICK h \in Seq(Id), m \in Seq(Id) : s.held = h /\ s.min = m
  BY DEF ThreadState
<1>3. Load(s) = Len(h) + Len(m)
  BY <1>1, <1>2
<1>4. QED
  BY <1>1, <1>3

LEMMA PathRoom ==
  ASSUME HasMulti, NEW t \in Thread, NEW a \in Place, NEW m \in Int, NEW n \in Nat, NEW load \in Nat,
         Path(t, a, m, n), th[t].readMax \in Int, th[t].nread \in Nat,
         RoomAt(th[t].at, load, th[t].readMax, th[t].nread)
  PROVE  RoomAt(a, load, m, n)
<1> USE ProcessorAssumption
<1> DEFINE p == th[t].at
           m0 == th[t].readMax
           n0 == th[t].nread
<1>0. \/ p = "read" /\ a = "multi" /\ m = m0 /\ n = n0
      \/ p \in Reading /\ a = "ended" /\ m = m0 /\ n = n0
      \/ p \in Reading /\ a = "multi" /\ m = m0 /\ n = n0
      \/ p = "read" /\ n0 < m0 /\ a \in {"input", "pauseWait"} /\ m = m0 /\ n = n0
      \/ p \in Reading \ {"read"} /\ a \in Reading \ {"read"} /\ m = m0 /\ n = n0
      \/ p \in {"new", "top"} /\ a \in {"read", "ended"} /\ m = m0 /\ n = 0
      \/ p \in {"after", "flushPop"} /\ a \in {"flush", "ended", "aborted"} /\ m = m0 /\ n = n0
      \/ p = "flush" /\ a \in {"top", "flushPop"} /\ m \in {0, m0} /\ n = n0
      \/ a = p /\ m = m0 /\ n = n0
  <2>1. CASE ReadEnd(t) /\ a = AfterRead /\ m = m0 /\ n = n0
    BY <2>1 DEF ReadEnd, At, AfterRead
  <2>2. CASE TakeNone(t) /\ a \in {"ended", AfterRead} /\ m = m0 /\ n = n0
    BY <2>2 DEF TakeNone, MayRead, At, AfterRead, Reading
  <2>3. CASE PauseGate(t) /\ a \in {"input", "pauseWait", AfterRead} /\ m = m0 /\ n = n0
    BY <2>3 DEF PauseGate, MayRead, At, AfterRead, Reading
  <2>4. CASE PauseBack(t) /\ a \in {"pauseLock", "ended"} /\ m = m0 /\ n = n0
    BY <2>4 DEF PauseBack, At, Reading
  <2>5. CASE PauseAgain(t) /\ a \in {"pauseWait", "input"} /\ m = m0 /\ n = n0
    BY <2>5 DEF PauseAgain, At, Reading
  <2>6. CASE InputNone(t) /\ a \in {"ended", AfterRead} /\ m = m0 /\ n = n0
    BY <2>6 DEF InputNone, At, AfterRead, Reading
  <2>7. CASE SpuriousWakeup(t) /\ a = "pauseWoken" /\ m = m0 /\ n = n0
    BY <2>7 DEF SpuriousWakeup, At, Reading
  <2>8. CASE Top(t) /\ a \in {"read", "ended"} /\ m = m0 /\ n = 0
    BY <2>8 DEF Top, At
  <2>9. CASE After(t) /\ a \in {"flush", "ended", "aborted"} /\ n = n0 /\ m = m0
    BY <2>9 DEF After, At
  <2>10. CASE FlushPop(t) /\ a \in {"flush", "aborted"} /\ m = m0 /\ n = n0
    BY <2>10 DEF FlushPop, At
  <2>11. CASE Flush(t) /\ a \in {"top", "flushPop"} /\ m \in {0, m0} /\ n = n0
    BY <2>11 DEF Flush, At
  <2>12. CASE (QueueSkip(t) \/ QueueCopy(t)) /\ a = p /\ m = m0 /\ n = n0
    BY <2>12
  <2>13. QED
    BY <2>1, <2>2, <2>3, <2>4, <2>5, <2>6, <2>7, <2>8, <2>9, <2>10, <2>11, <2>12 DEF Path
<1>1. RoomAt(p, load, m0, n0) /\ m0 \in Int /\ n0 \in Nat
  OBVIOUS
<1> HIDE DEF p, m0, n0
<1>2. QED
  BY <1>0, <1>1 DEF RoomAt, Reading

LEMMA OthersRoom ==
  ASSUME Roomy, NEW t \in Thread, Others(t), Room(th'[t])
  PROVE  Roomy'
<1>1. \A u \in Thread : Room(th'[u])
  BY DEF Roomy, Others
<1>2. QED
  BY <1>1 DEF Roomy, Room, RoomAt, Load

LEMMA MovesRoom ==
  ASSUME Typed, Roomy, NEW t \in Thread, Moves(t)
  PROVE  Roomy'
<1>0. /\ th \in [Thread -> ThreadState] /\ th[t].readMax \in Int /\ th[t].nread \in Nat
      /\ Load(th[t]) \in Nat
  <2>1. th \in [Thread -> ThreadState] /\ th[t] \in ThreadState
    BY DEF Typed, TypeOK
  <2>2. th[t].readMax \in Int /\ th[t].nread \in Nat
    BY <2>1 DEF ThreadState
  <2>3. QED
    BY <2>1, <2>2, Loaded
<1>1. PICK a \in Place, m \in Int, n \in Nat : Walks(t, a, m, n) /\ Path(t, a, m, n)
  BY <1>0, MovesWalk
<1>2. Room(th[t])
  BY DEF Roomy
<1>3. Room(th'[t])
  <2>1. /\ th'[t].at = a /\ th'[t].readMax = m /\ th'[t].nread = n
        /\ th'[t].held = th[t].held /\ th'[t].min = th[t].min /\ Load(th'[t]) = Load(th[t])
    BY <1>1 DEF Walks, SameContent, Load
  <2>2. CASE HasMulti
    <3>1. RoomAt(a, Load(th[t]), m, n)
      BY <1>0, <1>1, <1>2, <2>2, PathRoom DEF Room
    <3>2. QED
      BY <2>1, <2>2, <3>1 DEF Room
  <2>3. CASE ~HasMulti
    BY <1>2, <2>1, <2>3 DEF Room
  <2>4. QED
    BY <2>2, <2>3
<1>4. QED
  BY <1>1, <1>3, OthersRoom DEF Walks

\* Another resource from the queue or from the INPUT module.
LEMMA AcceptedRoom ==
  ASSUME Typed, Roomy, NEW t \in Thread, NEW i \in Id, NEW k \in {1, 2}, Accepted(t, i, k),
         th[t].at \in Reading, th[t].nread < th[t].readMax
  PROVE  Roomy'
<1>0. th[t] \in ThreadState /\ th'[t] \in ThreadState /\ Room(th[t])
  BY DEF Typed, TypeOK, Roomy, Accepted
<1>1. CASE HasMulti
  <2>1. PICK m \in Int, n \in Nat, held \in Seq(Id), min \in Seq(Id) :
          /\ m = th[t].readMax /\ n = th[t].nread /\ held = th[t].held /\ min = th[t].min
    BY <1>0 DEF ThreadState
  <2>2. /\ th'[t].at = "read" /\ th'[t].readMax = m /\ th'[t].nread = n + k
        /\ th'[t].held = held /\ th'[t].min = Append(min, i)
    BY <1>1, <2>1 DEF Accepted
  <2>3. Append(min, i) \in Seq(Id) /\ Len(Append(min, i)) = Len(min) + 1
    BY <2>1, Grown
  <2>4. PICK l \in Nat : l = Load(th[t])
    BY <1>0, Loaded
  <2>5. l + 1 = Load(th'[t])
    <3>1. l = Len(held) + Len(min)
      BY <1>0, <2>1, <2>4, Loaded
    <3>2. Load(th'[t]) = Len(held) + Len(Append(min, i))
      BY <1>0, <2>1, <2>2, <2>3, Loaded
    <3>3. QED
      BY <2>3, <3>1, <3>2
  <2>6. n < m /\ l + m - n <= MAX_RESOURCES
    BY <1>0, <1>1, <2>1, <2>4 DEF Room, RoomAt
  <2>7. RoomAt("read", l + 1, m, n + k)
    BY <2>6, ProcessorAssumption DEF RoomAt, Reading
  <2>8. Room(th'[t])
    BY <1>1, <2>2, <2>5, <2>7 DEF Room
  <2>9. QED
    BY <2>8, OthersRoom DEF Accepted
<1>2. CASE ~HasMulti
  <2>1. Room(th'[t])
    BY <1>0, <1>2 DEF Room, Accepted
  <2>2. QED
    BY <2>1, OthersRoom DEF Accepted
<1>3. QED
  BY <1>1, <1>2

LEMMA ReadingRoom ==
  ASSUME Typed, Roomy, NEW t \in Thread, Take(t) \/ \E i \in Id : Input(t, i)
  PROVE  Roomy'
<1>0. /\ th \in [Thread -> ThreadState] /\ Room(th[t]) /\ inputQueue \in Seq(Id)
  BY DEF Typed, TypeOK, Roomy
<1>1. CASE Take(t)
  <2>1. PICK i \in Id : i = Head(inputQueue)
    BY <1>0, <1>1, Rest DEF Take
  <2>2. th[t].at = "read" /\ th[t].nread < th[t].readMax
    BY <1>1 DEF Take, MayRead, At
  <2>3. CASE i \in Doomed
    <3>1. th' = [th EXCEPT ![t].at = AfterRead]
      BY <1>1, <2>1, <2>3, SMTT(30) DEF Take, Goto
    <3>2. Walks(t, AfterRead, th[t].readMax, th[t].nread)
      BY <1>0, <3>1, Walked DEF AfterRead, Place
    <3>3. Room(th'[t])
      BY <1>0, <3>2 DEF Walks, SameContent, Room, RoomAt, Reading, AfterRead, Load
    <3>4. QED
      BY <3>2, <3>3, OthersRoom DEF Walks
  <2>4. CASE i \notin Doomed
    <3>1. Accepted(t, i, 2)
      BY <1>0, <1>1, <2>1, <2>4, Applied DEF Take
    <3>2. QED
      BY <2>2, <3>1, AcceptedRoom DEF Reading
  <2>5. QED
    BY <2>3, <2>4
<1>2. ASSUME NEW i \in Id, Input(t, i) PROVE Roomy'
  <2>1. CASE i \in Doomed
    <3>1. th' = th
      BY <1>2, <2>1 DEF Input
    <3>2. QED
      BY <3>1 DEF Roomy, Room, RoomAt, Load
  <2>2. CASE i \notin Doomed
    <3>1. Accepted(t, i, 1)
      BY <1>0, <1>2, <2>2, Applied DEF Input
    <3>2. CASE HasMulti
      <4>1. th[t].at = "input" /\ th[t].nread < th[t].readMax
        BY <1>0, <1>2, <3>2 DEF Input, At, Room, RoomAt, Reading
      <4>2. QED
        BY <3>1, <4>1, AcceptedRoom DEF Reading
    <3>3. CASE ~HasMulti
      <4>1. Room(th'[t])
        BY <1>0, <3>1, <3>3 DEF Room, Accepted
      <4>2. QED
        BY <3>1, <4>1, OthersRoom DEF Accepted
    <3>4. QED
      BY <3>2, <3>3
  <2>3. QED
    BY <2>1, <2>2
<1>3. QED
  BY <1>1, <1>2

LEMMA QueueRoom ==
  ASSUME Typed, Roomy, NEW t \in Thread, QueuePut(t) \/ QueueDrop(t) \/ QueueRefused(t)
  PROVE  Roomy'
<1>0. th \in [Thread -> ThreadState] /\ th[t] \in ThreadState /\ Room(th[t])
  BY DEF Typed, TypeOK, Roomy
<1>1. Queueing(t)
  BY DEF QueuePut, QueueDrop, QueueRefused
<1>2. /\ Released(t) /\ th[t].at \in {"queue", "qres", "qpend"}
      /\ th'[t].at \in {"read", "out", "qres", "ended", "after"}
  <2>1. CASE th' = [th EXCEPT ![t] = QueuedNext(t)]
    BY <1>0, <1>1, <2>1, Queued DEF Queueing
  <2>2. CASE th' = [th EXCEPT ![t] = RefusedNext(t)]
    BY <1>0, <1>1, <2>2, Refused DEF Queueing
  <2>3. QED
    BY <2>1, <2>2 DEF QueuePut, QueueDrop, QueueRefused
<1>3. Room(th'[t])
  <2>1. CASE HasMulti
    <3>1. PICK l \in Nat, m \in Int, n \in Nat :
            l = Load(th[t]) /\ m = th[t].readMax /\ n = th[t].nread
      BY <1>0, Loaded DEF ThreadState
    <3>2. l + m <= MAX_RESOURCES /\ l <= MAX_RESOURCES
      BY <1>0, <1>2, <2>1, <3>1 DEF Room, RoomAt, Reading
    <3>3. Load(th'[t]) = l /\ th'[t].readMax = m /\ th'[t].nread = n
      BY <1>2, <3>1 DEF Released, Load
    <3>4. RoomAt(th'[t].at, l, m, n)
      BY <1>2, <3>2, ProcessorAssumption DEF RoomAt, Reading
    <3>5. QED
      BY <2>1, <3>3, <3>4 DEF Room
  <2>2. CASE ~HasMulti
    BY <1>0, <1>2, <2>2 DEF Room, Released
  <2>3. QED
    BY <2>1, <2>2
<1>4. QED
  BY <1>2, <1>3, OthersRoom DEF Released

\* The module computes readMax from what it keeps.
LEMMA MultiRoom ==
  ASSUME Typed, Roomy, NEW t \in Thread, Multi(t)
  PROVE  Roomy'
<1>0. th \in [Thread -> ThreadState] /\ th[t] \in ThreadState /\ Room(th[t])
  BY DEF Typed, TypeOK, Roomy
<1>1. PICK k \in Nat, b \in Nat : Fed(t, k, b)
  BY <1>0, MultiFeeds
<1>2. PICK held \in Seq(Id), min \in Seq(Id) : held = th[t].held /\ min = th[t].min
  BY <1>0 DEF ThreadState
<1>3. th'[t] \in ThreadState
  BY <1>1 DEF Fed
<1>4. PICK heldN \in Seq(Id), minN \in Seq(Id), n \in Nat :
        heldN = th'[t].held /\ minN = th'[t].min /\ n = th'[t].nread
  BY <1>3 DEF ThreadState
<1> DEFINE pre == SubSeq(min, 1, k)
           all == held \o pre
<1>5. /\ k <= Len(min) /\ b <= Len(all)
      /\ th'[t].at = "out" /\ Others(t)
      /\ minN = SubSeq(min, k + 1, Len(min))
      /\ heldN = held \/ heldN = SubSeq(all, b + 1, Len(all))
      /\ th'[t].readMax = MAX_RESOURCES - Len(heldN) - Len(minN)
  BY <1>1, <1>2, <1>4 DEF Fed
<1>6. Len(pre) = k /\ pre \in Seq(Id) /\ Len(minN) = Len(min) - k
  BY <1>5, Cut
<1> HIDE DEF pre
<1>7. all \in Seq(Id) /\ Len(all) = Len(held) + k
  BY <1>6, Joined
<1> HIDE DEF all
<1>8. PICK l \in Nat, h \in Nat, m \in Nat : l = Load(th[t]) /\ h = Len(heldN) /\ m = Len(minN)
  BY <1>0, Loaded
<1>9. l = Len(held) + Len(min)
  BY <1>0, <1>2, <1>8, Loaded
<1>10. Load(th'[t]) = h + m
  <2>1. Load(th'[t]) = Len(heldN) + Len(minN)
    BY <1>3, <1>4, Loaded
  <2>2. QED
    BY <1>8, <2>1
<1>11. h + m <= l
  <2>2. Len(heldN) <= Len(held) + k
    <3>1. CASE heldN = held
      BY <3>1
    <3>2. CASE heldN = SubSeq(all, b + 1, Len(all))
      <4>1. Len(heldN) = Len(all) - b
        BY <1>5, <1>7, <3>2, Cut
      <4>2. QED
        BY <1>7, <4>1
    <3>3. QED
      BY <1>5, <3>1, <3>2
  <2>3. QED
    BY <1>6, <1>8, <1>9, <2>2
<1>12. CASE HasMulti
  <2>1. h + m <= MAX_RESOURCES
    BY <1>0, <1>8, <1>11, <1>12, ProcessorAssumption DEF Room, RoomAt
  <2>2. RoomAt("out", h + m, MAX_RESOURCES - h - m, n)
    BY <2>1, ProcessorAssumption DEF RoomAt, Reading
  <2>3. Room(th'[t])
    BY <1>4, <1>5, <1>8, <1>10, <1>12, <2>2 DEF Room
  <2>4. QED
    BY <1>5, <2>3, OthersRoom
<1>13. CASE ~HasMulti
  <2>1. held = <<>> /\ min = <<>>
    BY <1>0, <1>2, <1>13 DEF Room
  <2>2. l = 0
    BY <1>9, <2>1
  <2>3. heldN = <<>> /\ minN = <<>>
    BY <1>8, <1>11, <2>2
  <2>4. Room(th'[t])
    BY <1>4, <1>13, <2>3 DEF Room
  <2>5. QED
    BY <1>5, <2>4, OthersRoom
<1>14. QED
  BY <1>12, <1>13

LEMMA OutRoom ==
  ASSUME Typed, Roomy, NEW t \in Thread, Out(t)
  PROVE  Roomy'
<1>0. th \in [Thread -> ThreadState] /\ Room(th[t]) /\ th[t].at = "out"
  BY DEF Typed, TypeOK, Roomy, Out, At
<1>1. /\ Others(t) /\ th'[t].at \in {"after", "qpend", "qres"}
      /\ th'[t].held = th[t].held /\ th'[t].min = th[t].min
      /\ th'[t].readMax = th[t].readMax /\ th'[t].nread = th[t].nread
  BY <1>0, OutTakes DEF Walks, SameContent, Fetched
<1>2. Room(th'[t])
  BY <1>0, <1>1 DEF Room, RoomAt, Reading, Load
<1>3. QED
  BY <1>1, <1>2, OthersRoom

LEMMA ElsewhereRoom ==
  ASSUME Typed, Roomy, Elsewhere
  PROVE  Roomy'
<1>1. th' = th \/ th' = Signalled(th)
  BY DEF Elsewhere, Arrive, Consume, SetPauseInput, StopRunning, StopStep, StopInputQueue,
         StopSignal, StopJoin, CloseOut
<1>2. CASE th' = th
  BY <1>2 DEF Roomy, Room, RoomAt, Load
<1>3. CASE th' = Signalled(th)
  <2>1. th \in [Thread -> ThreadState]
    BY DEF Typed, TypeOK
  <2>2. ASSUME NEW u \in Thread PROVE Room(th'[u])
    <3>1. /\ th'[u].held = th[u].held /\ th'[u].min = th[u].min
          /\ th'[u].readMax = th[u].readMax /\ th'[u].nread = th[u].nread
          /\ \/ th'[u].at = th[u].at
             \/ th[u].at = "pauseWait" /\ th'[u].at = "pauseWoken"
      BY <1>3, <2>1, Woken DEF SameContent
    <3>2. Room(th[u])
      BY DEF Roomy
    <3>3. QED
      BY <3>1, <3>2 DEF Room, RoomAt, Reading, Load
  <2>3. QED
    BY <2>2 DEF Roomy, Room, RoomAt, Load
<1>4. QED
  BY <1>1, <1>2, <1>3

\* What waits for a MULTI module and what is in it never exceed MAX_RESOURCES,
\* for any number of threads and any order of their steps.
THEOREM Loads == Spec => []NotOverloaded
<1>1. Init => Typed /\ Roomy
  <2> SUFFICES ASSUME Init PROVE Roomy
    BY InitTyped
  <2>1. ASSUME NEW t \in Thread PROVE Room(th[t])
    <3>1. /\ th[t].at = "new" /\ th[t].held = <<>> /\ th[t].min = <<>>
          /\ th[t].readMax = 1 /\ th[t].nread = 0
      BY DEF Init
    <3>2. QED
      BY <3>1, ProcessorAssumption DEF Room, RoomAt, Reading, Load
  <2>2. QED
    BY <2>1 DEF Roomy
<1>2. Typed /\ Roomy /\ [Next]_vars => Typed' /\ Roomy'
  <2> SUFFICES ASSUME Typed, Roomy, [Next]_vars PROVE Roomy'
    BY NextTyped
  <2>1. CASE Next
    BY <2>1, Steps, MovesRoom, ReadingRoom, QueueRoom, MultiRoom, OutRoom, ElsewhereRoom
  <2>2. CASE UNCHANGED vars
    BY <2>2 DEF vars, Roomy, Room, RoomAt, Load
  <2>3. QED
    BY <2>1, <2>2
<1>3. Typed /\ Roomy => NotOverloaded
  <2> SUFFICES ASSUME Typed, Roomy, NEW t \in Thread
               PROVE  Len(th[t].held) + Len(th[t].min) <= MAX_RESOURCES
    BY DEF NotOverloaded
  <2>1. Room(th[t])
    BY DEF Roomy
  <2>2. CASE HasMulti
    BY <2>1, <2>2 DEF Room, RoomAt, Load
  <2>3. CASE ~HasMulti
    <3>1. th[t].held = <<>> /\ th[t].min = <<>> /\ Len(<<>>) + Len(<<>>) <= MAX_RESOURCES
      BY <2>1, <2>3, ProcessorAssumption DEF Room
    <3>2. QED
      BY <3>1
  <2>4. QED
    BY <2>2, <2>3
<1>4. QED
  BY <1>1, <1>2, <1>3, PTL DEF Spec

(***************************************************************************)
(* A resource has one owner.                                               *)
(***************************************************************************)

\* What a thread has, also when it has ended.
Has(s, i) == i = s.r \/ i = s.pending \/ In(i, s.min) \/ In(i, s.held) \/ In(i, s.mout)

\* The resource was handed on, or released by QueueResource.
Left(i) == HandedOn(i) \/ i \in dropped

\* A thread has a resource once.
Apart(s) ==
  /\ Distinct(s.min) /\ Distinct(s.held) /\ Distinct(s.mout)
  /\ \A i \in Id :
       /\ i = s.r => i # s.pending /\ ~In(i, s.min) /\ ~In(i, s.held) /\ ~In(i, s.mout)
       /\ i = s.pending => ~In(i, s.min) /\ ~In(i, s.held) /\ ~In(i, s.mout)
       /\ In(i, s.min) => ~In(i, s.held) /\ ~In(i, s.mout)
       /\ In(i, s.held) => ~In(i, s.mout)

Owner(i) ==
  /\ \A t, u \in Thread : Has(th[t], i) /\ Has(th[u], i) => t = u
  /\ \A t \in Thread : Has(th[t], i) => ~Left(i) /\ i \notin fresh /\ ~In(i, inputQueue)
  /\ In(i, inputQueue) => ~Left(i) /\ i \notin fresh
  /\ i \in fresh => ~Left(i)

Owned ==
  /\ Distinct(inputQueue)
  /\ \A t \in Thread : Apart(th[t])
  /\ \A i \in Id : Owner(i)

\* A step that brings i nowhere new.
LEMMA OwnerKept ==
  ASSUME NEW i \in Id, Owner(i),
         \A u \in Thread : Has(th'[u], i) => Has(th[u], i),
         i \in fresh' => i \in fresh, In(i, inputQueue') => In(i, inputQueue),
         Left(i)' => Left(i)
  PROVE  Owner(i)'
<1>1. /\ \A t, u \in Thread : Has(th'[t], i) /\ Has(th'[u], i) => t = u
      /\ \A t \in Thread : Has(th'[t], i) => ~Left(i)' /\ i \notin fresh' /\ ~In(i, inputQueue')
      /\ In(i, inputQueue') => ~Left(i)' /\ i \notin fresh'
      /\ i \in fresh' => ~Left(i)'
  BY DEF Owner
<1>2. QED
  BY <1>1 DEF Owner, Has, In

LEMMA ApartKept ==
  ASSUME NEW s, NEW z, Apart(s), z.r = s.r, z.pending = s.pending, z.min = s.min,
         z.held = s.held, z.mout = s.mout
  PROVE  Apart(z) /\ \A i : Has(z, i) <=> Has(s, i)
  BY DEF Apart, Has

\* Thread t takes a step.
LEMMA OwnedStep ==
  ASSUME Owned, NEW t \in Thread, Others(t), Apart(th'[t]), Distinct(inputQueue'),
         \A i \in Id : Owner(i)'
  PROVE  Owned'
<1>1. \A u \in Thread : Apart(th'[u])
  BY DEF Owned, Others
<1>2. QED
  BY <1>1 DEF Owned, Apart, Distinct, In

LEMMA MovesOwned ==
  ASSUME Typed, Owned, NEW t \in Thread, Moves(t)
  PROVE  Owned'
<1>0. SameContent(t) /\ Others(t)
  BY MovesTyped
<1>1. UNCHANGED <<fresh, inputQueue, dropped>>
  BY DEF Moves, Top, ReadEnd, TakeNone, PauseGate, PauseBack, PauseAgain, InputNone,
         SpuriousWakeup, After, QueueSkip, QueueCopy, Flush, FlushPop, inVars, outVars
<1>2. ASSUME NEW i \in Id, HandedOn(i)' PROVE HandedOn(i)
  <2>1. CASE UNCHANGED passed
    BY <1>2, <2>1 DEF HandedOn
  <2>2. CASE QueueCopy(t)
    <3>1. PICK f \in Filter : f = th[t].qf
      BY <2>2 DEF QueueCopy, Matches
    <3>2. PICK c \in Id : c = Current(t)
      BY <2>2, CurrentId DEF QueueCopy
    <3>3. f \in Copy /\ passed' = [passed EXCEPT ![f][c] = @ + 1]
      BY <2>2, <3>1, <3>2 DEF QueueCopy
    <3>4. passed \in [Filter -> [Id -> Nat]]
      BY DEF Typed, TypeOK
    <3>5. \A g \in Filter \ Copy : passed'[g] = passed[g]
      BY <3>3, <3>4
    <3>6. QED
      BY <1>2, <3>5 DEF HandedOn
  <2>3. QED
    BY <2>1, <2>2 DEF Moves, Top, ReadEnd, TakeNone, PauseGate, PauseBack, PauseAgain,
         InputNone, SpuriousWakeup, After, QueueSkip, Flush, FlushPop, outVars
<1>3. Apart(th'[t]) /\ \A i : Has(th'[t], i) <=> Has(th[t], i)
  BY <1>0, ApartKept DEF Owned, SameContent
<1>4. ASSUME NEW i \in Id PROVE Owner(i)'
  <2>1. Left(i)' => Left(i)
    BY <1>1, <1>2 DEF Left
  <2>2. \A u \in Thread : Has(th'[u], i) => Has(th[u], i)
    BY <1>0, <1>3 DEF Others
  <2>3. Owner(i) /\ (In(i, inputQueue') => In(i, inputQueue))
    BY <1>1 DEF Owned
  <2>4. QED
    BY <1>1, <2>1, <2>2, <2>3, OwnerKept
<1>5. QED
  BY <1>0, <1>1, <1>3, <1>4, OwnedStep DEF Owned

\* A thread gets a resource that it does not have.
LEMMA AcceptedApart ==
  ASSUME Typed, NEW t \in Thread, NEW x \in Id, NEW k, Accepted(t, x, k),
         Apart(th[t]), ~Has(th[t], x)
  PROVE  Apart(th'[t]) /\ \A i \in Id : Has(th'[t], i) => Has(th[t], i) \/ i = x
<1>0. th[t].min \in Seq(Id)
  <2>1. th \in [Thread -> ThreadState]
    BY DEF Typed, TypeOK
  <2>2. QED
    BY <2>1 DEF ThreadState
<1>1. CASE HasMulti
  <2>1. /\ \A i : In(i, th'[t].min) <=> In(i, th[t].min) \/ i = x
        /\ Distinct(th[t].min) /\ ~In(x, th[t].min) => Distinct(th'[t].min)
    BY <1>0, <1>1, Grown DEF Accepted
  <2>2. /\ th'[t].pending = th[t].pending /\ th'[t].held = th[t].held
        /\ th'[t].mout = th[t].mout /\ th'[t].r = th[t].r
    BY <1>1 DEF Accepted
  <2>3. QED
    BY <2>1, <2>2 DEF Apart, Has
<1>2. CASE ~HasMulti
  <2>1. /\ th'[t].pending = th[t].pending /\ th'[t].held = th[t].held
        /\ th'[t].mout = th[t].mout /\ th'[t].min = th[t].min /\ th'[t].r = x
    BY <1>2 DEF Accepted
  <2>2. QED
    BY <2>1 DEF Apart, Has
<1>3. QED
  BY <1>1, <1>2

\* A resource that no thread has comes to thread t, and is nowhere else.
LEMMA Obtained ==
  ASSUME Typed, Owned, NEW t \in Thread, NEW x \in Id, NEW k, Accepted(t, x, k),
         Distinct(inputQueue'), UNCHANGED <<passed, dropped>>, fresh' \subseteq fresh,
         \A i \in Id : In(i, inputQueue') => In(i, inputQueue),
         x \in fresh \/ In(x, inputQueue), x \notin fresh', ~In(x, inputQueue')
  PROVE  Owned'
<1>1. /\ Owner(x) /\ Apart(th[t]) /\ ~Left(x) /\ \A u \in Thread : ~Has(th[u], x)
  BY DEF Owned, Owner
<1>2. Apart(th'[t]) /\ \A i \in Id : Has(th'[t], i) => Has(th[t], i) \/ i = x
  BY <1>1, AcceptedApart
<1>3. Others(t)
  BY DEF Accepted
<1>4. ASSUME NEW i \in Id PROVE Left(i)' => Left(i)
  BY DEF Left, HandedOn
<1>5. ASSUME NEW i \in Id PROVE Owner(i)'
  <2>1. CASE i # x
    <3>1. \A u \in Thread : Has(th'[u], i) => Has(th[u], i)
      BY <1>2, <1>3, <2>1 DEF Others
    <3>2. Owner(i)
      BY DEF Owned
    <3>3. QED
      BY <1>4, <3>1, <3>2, OwnerKept
  <2>2. CASE i = x
    <3>1. \A u \in Thread : Has(th'[u], x) => u = t
      BY <1>1, <1>3 DEF Others
    <3>2. ~Left(x)'
      BY <1>1, <1>4
    <3>3. /\ \A a, u \in Thread : Has(th'[a], x) /\ Has(th'[u], x) => a = u
          /\ \A a \in Thread : Has(th'[a], x) => ~Left(x)' /\ x \notin fresh' /\ ~In(x, inputQueue')
          /\ In(x, inputQueue') => ~Left(x)' /\ x \notin fresh'
          /\ x \in fresh' => ~Left(x)'
      BY <3>1, <3>2
    <3>4. Owner(x)'
      BY <3>3 DEF Owner, Has, In
    <3>5. QED
      BY <2>2, <3>4
  <2>3. QED
    BY <2>1, <2>2
<1>6. QED
  BY <1>2, <1>3, <1>5, OwnedStep

LEMMA ReadingOwned ==
  ASSUME Typed, Owned, NEW t \in Thread, Take(t) \/ \E i \in Id : Input(t, i)
  PROVE  Owned'
<1>0. /\ th \in [Thread -> ThreadState] /\ inputQueue \in Seq(Id)
      /\ Distinct(inputQueue) /\ Apart(th[t]) /\ \A i \in Id : Owner(i)
  BY DEF Typed, TypeOK, Owned
<1>1. UNCHANGED <<passed, dropped>>
  BY DEF Take, Input, outVars
<1>2. ASSUME NEW i \in Id PROVE Left(i)' => Left(i)
  BY <1>1 DEF Left, HandedOn
<1>3. CASE Take(t)
  <2>0. inputQueue # <<>> /\ inputQueue' = Tail(inputQueue) /\ fresh' = fresh
    BY <1>3 DEF Take
  <2>1. PICK x \in Id : x = Head(inputQueue)
    BY <1>0, <2>0, Rest
  <2>2. /\ Distinct(inputQueue') /\ ~In(x, inputQueue') /\ In(x, inputQueue)
        /\ \A i \in Id : In(i, inputQueue') => In(i, inputQueue)
    BY <1>0, <2>0, <2>1, Rest
  <2>3. x \notin fresh'
    BY <1>0, <2>0, <2>2 DEF Owner
  <2>4. CASE x \in Doomed
    <3>1. th' = [th EXCEPT ![t].at = AfterRead]
      BY <1>3, <2>1, <2>4 DEF Take, Goto
    <3>2. Walks(t, AfterRead, th[t].readMax, th[t].nread)
      BY <1>0, <3>1, Walked DEF AfterRead, Place
    <3>3. Others(t) /\ SameContent(t)
      BY <3>2 DEF Walks
    <3>4. Apart(th'[t]) /\ \A i : Has(th'[t], i) <=> Has(th[t], i)
      BY <1>0, <3>3, ApartKept DEF SameContent
    <3>5. ASSUME NEW i \in Id PROVE Owner(i)'
      <4>1. \A u \in Thread : Has(th'[u], i) => Has(th[u], i)
        BY <3>3, <3>4 DEF Others
      <4>2. QED
        BY <1>0, <1>2, <2>0, <2>2, <4>1, OwnerKept
    <3>6. QED
      BY <2>2, <3>3, <3>4, <3>5, OwnedStep, SMTT(30)
  <2>5. CASE x \notin Doomed
    <3>1. Accepted(t, x, 2)
      BY <1>0, <1>3, <2>1, <2>5, Applied DEF Take
    <3>2. QED
      BY <1>1, <2>0, <2>2, <2>3, <3>1, Obtained
  <2>6. QED
    BY <2>4, <2>5
<1>4. ASSUME NEW x \in Id, Input(t, x) PROVE Owned'
  <2>0. x \in fresh /\ fresh' = fresh \ {x} /\ inputQueue' = inputQueue
    BY <1>4 DEF Input
  <2>1. CASE x \in Doomed
    <3>1. th' = th
      BY <1>4, <2>1 DEF Input
    <3>2. ASSUME NEW i \in Id PROVE Owner(i)'
      BY <1>0, <1>2, <2>0, <3>1, OwnerKept
    <3>3. Others(t) /\ Apart(th'[t]) /\ Distinct(inputQueue')
      BY <1>0, <2>0, <3>1 DEF Others
    <3>4. QED
      BY <3>2, <3>3, OwnedStep
  <2>2. CASE x \notin Doomed
    <3>1. Accepted(t, x, 1)
      BY <1>0, <1>4, <2>2, Applied DEF Input
    <3>2. ~In(x, inputQueue')
      BY <1>0, <2>0 DEF Owner
    <3>3. QED
      BY <1>0, <1>1, <2>0, <3>1, <3>2, Obtained
  <2>3. QED
    BY <2>1, <2>2
<1>5. QED
  BY <1>3, <1>4

\* A step of thread t that only moves, reorders or forgets what the thread has.
LEMMA KeptOwned ==
  ASSUME Owned, NEW t \in Thread, Others(t), Apart(th'[t]),
         \A i \in Id : Has(th'[t], i) => Has(th[t], i),
         UNCHANGED <<fresh, inputQueue, passed, dropped>>
  PROVE  Owned'
<1>1. ASSUME NEW i \in Id PROVE Owner(i)'
  <2>1. Left(i)' => Left(i)
    BY DEF Left, HandedOn
  <2>2. \A u \in Thread : Has(th'[u], i) => Has(th[u], i)
    BY DEF Others
  <2>3. Owner(i)
    BY DEF Owned
  <2>4. QED
    BY <2>1, <2>2, <2>3, OwnerKept
<1>2. Distinct(inputQueue')
  BY DEF Owned
<1>3. QED
  BY <1>1, <1>2, OwnedStep

LEMMA QueueOwned ==
  ASSUME Typed, Owned, NEW t \in Thread, QueuePut(t) \/ QueueDrop(t)
  PROVE  Owned'
<1>0. /\ th \in [Thread -> ThreadState] /\ Queueing(t) /\ UNCHANGED <<fresh, inputQueue>>
      /\ Apart(th[t]) /\ Distinct(inputQueue) /\ \A i \in Id : Owner(i)
      /\ th' = [th EXCEPT ![t] = QueuedNext(t)]
  BY DEF Typed, TypeOK, Owned, QueuePut, QueueDrop, inVars
<1>1. PICK c \in Id : c = Current(t)
  BY <1>0, CurrentId
<1>2. /\ Released(t)
      /\ IF th[t].at = "qpend" THEN th'[t].pending = NoId /\ th'[t].r = th[t].r
                               ELSE th'[t].r = NoId /\ th'[t].pending = th[t].pending
  BY <1>0, Queued
<1>3. c = IF th[t].at = "qpend" THEN th[t].pending ELSE th[t].r
  BY <1>1 DEF Current, At
<1>4. /\ Others(t) /\ Apart(th'[t]) /\ Has(th[t], c)
      /\ \A i \in Id : Has(th'[t], i) => Has(th[t], i) /\ i # c
  <2>1. /\ th'[t].min = th[t].min /\ th'[t].held = th[t].held /\ th'[t].mout = th[t].mout
        /\ Others(t)
    BY <1>2 DEF Released
  <2>2. NoId \notin Id
    BY ProcessorAssumption
  <2>3. CASE th[t].at = "qpend"
    BY <1>0, <1>2, <1>3, <2>1, <2>2, <2>3 DEF Apart, Has
  <2>4. CASE th[t].at # "qpend"
    BY <1>0, <1>2, <1>3, <2>1, <2>2, <2>4 DEF Apart, Has
  <2>5. QED
    BY <2>3, <2>4
<1>5. ASSUME NEW i \in Id, i # c PROVE Left(i)' => Left(i)
  <2>1. CASE QueuePut(t)
    <3>1. PICK f \in Filter : f = th[t].qf
      BY <2>1 DEF QueuePut, Matches
    <3>2. passed' = [passed EXCEPT ![f][c] = @ + 1] /\ dropped' = dropped
      BY <1>1, <2>1, <3>1 DEF QueuePut
    <3>3. passed \in [Filter -> [Id -> Nat]]
      BY DEF Typed, TypeOK
    <3>4. \A g \in Filter : passed'[g][i] = passed[g][i]
      BY <1>5, <3>2, <3>3
    <3>5. QED
      BY <3>2, <3>4 DEF Left, HandedOn
  <2>2. CASE QueueDrop(t)
    <3>1. passed' = passed /\ dropped' = dropped \cup {c}
      BY <1>1, <2>2 DEF QueueDrop
    <3>2. QED
      BY <1>5, <3>1 DEF Left, HandedOn
  <2>3. QED
    BY <2>1, <2>2
<1>6. ASSUME NEW i \in Id PROVE Owner(i)'
  <2>1. CASE i # c
    <3>1. \A u \in Thread : Has(th'[u], i) => Has(th[u], i)
      BY <1>4 DEF Others
    <3>2. QED
      BY <1>0, <1>5, <2>1, <3>1, OwnerKept
  <2>2. CASE i = c
    <3>1. Owner(c)
      BY <1>0
    <3>2. \A u \in Thread : ~Has(th'[u], c)
      BY <1>4, <3>1 DEF Others, Owner
    <3>3. c \notin fresh' /\ ~In(c, inputQueue')
      BY <1>0, <1>4, <3>1 DEF Owner
    <3>4. /\ \A a, u \in Thread : Has(th'[a], c) /\ Has(th'[u], c) => a = u
          /\ \A a \in Thread : Has(th'[a], c) => ~Left(c)' /\ c \notin fresh' /\ ~In(c, inputQueue')
          /\ In(c, inputQueue') => ~Left(c)' /\ c \notin fresh'
          /\ c \in fresh' => ~Left(c)'
      BY <3>2, <3>3
    <3>5. Owner(c)'
      BY <3>4 DEF Owner, Has, In
    <3>6. QED
      BY <2>2, <3>5
  <2>3. QED
    BY <2>1, <2>2
<1>7. Distinct(inputQueue')
  BY <1>0
<1>8. QED
  BY <1>4, <1>6, <1>7, OwnedStep

LEMMA RefusedOwned ==
  ASSUME Typed, Owned, NEW t \in Thread, QueueRefused(t)
  PROVE  Owned'
<1>0. /\ th \in [Thread -> ThreadState] /\ Queueing(t) /\ Apart(th[t])
      /\ UNCHANGED <<fresh, inputQueue, passed, dropped>>
      /\ th' = [th EXCEPT ![t] = RefusedNext(t)]
  BY DEF Typed, TypeOK, Owned, QueueRefused, inVars, outVars
<1>1. /\ Released(t) /\ th'[t].r = NoId
      /\ th'[t].pending = th[t].r \/ th'[t].pending = th[t].pending
  BY <1>0, Refused
<1>2. /\ Others(t) /\ th'[t].min = th[t].min /\ th'[t].held = th[t].held
      /\ th'[t].mout = th[t].mout
  BY <1>1 DEF Released
<1>3. Apart(th'[t]) /\ \A i \in Id : Has(th'[t], i) => Has(th[t], i)
  <2>1. CASE th'[t].pending = th[t].r
    BY <1>0, <1>1, <1>2, <2>1, ProcessorAssumption DEF Apart, Has
  <2>2. CASE th'[t].pending = th[t].pending
    BY <1>0, <1>1, <1>2, <2>2, ProcessorAssumption DEF Apart, Has
  <2>3. QED
    BY <1>1, <2>1, <2>2
<1>4. QED
  BY <1>0, <1>2, <1>3, KeptOwned

LEMMA OutOwned ==
  ASSUME Typed, Owned, NEW t \in Thread, Out(t)
  PROVE  Owned'
<1>0. /\ th \in [Thread -> ThreadState] /\ Apart(th[t]) /\ th[t].mout \in Seq(Id)
      /\ UNCHANGED <<fresh, inputQueue, passed, dropped>>
  <2>1. th \in [Thread -> ThreadState] /\ Apart(th[t])
    BY DEF Typed, TypeOK, Owned
  <2>2. UNCHANGED <<fresh, inputQueue, passed, dropped>>
    BY DEF Out, inVars, outVars
  <2>3. th[t].mout \in Seq(Id)
    BY <2>1 DEF ThreadState
  <2>4. QED
    BY <2>1, <2>2, <2>3
<1>1. CASE Walks(t, "after", th[t].readMax, th[t].nread)
  <2>1. Others(t) /\ SameContent(t)
    BY <1>1 DEF Walks
  <2>2. Apart(th'[t]) /\ \A i : Has(th'[t], i) <=> Has(th[t], i)
    BY <1>0, <2>1, ApartKept DEF SameContent
  <2>3. QED
    BY <1>0, <2>1, <2>2, KeptOwned
<1>2. CASE Fetched(t)
  <2>1. /\ th'[t].min = th[t].min /\ th'[t].held = th[t].held
        /\ th'[t].pending = th[t].pending /\ Others(t)
        /\ th'[t].r = Head(th[t].mout) /\ th'[t].mout = Tail(th[t].mout) /\ th[t].mout # <<>>
    BY <1>2 DEF Fetched
  <2>2. /\ In(th'[t].r, th[t].mout) /\ \A i : In(i, th'[t].mout) => In(i, th[t].mout)
        /\ Distinct(th'[t].mout) /\ ~In(th'[t].r, th'[t].mout)
    BY <1>0, <2>1, Rest DEF Apart
  <2>3. Apart(th'[t]) /\ \A i \in Id : Has(th'[t], i) => Has(th[t], i)
    BY <1>0, <2>1, <2>2 DEF Apart, Has
  <2>4. QED
    BY <1>0, <2>1, <2>3, KeptOwned
<1>3. QED
  BY <1>0, <1>1, <1>2, OutTakes

\* The MULTI module neither repeats a resource nor mixes up its queues.
LEMMA MultiOwned ==
  ASSUME Typed, Owned, NEW t \in Thread, Multi(t)
  PROVE  Owned'
<1>0. /\ th \in [Thread -> ThreadState] /\ Apart(th[t]) /\ th[t].min \in Seq(Id)
      /\ th[t].held \in Seq(Id) /\ th[t].mout \in Seq(Id)
  <2>1. th \in [Thread -> ThreadState] /\ Apart(th[t])
    BY DEF Typed, TypeOK, Owned
  <2>2. th[t].min \in Seq(Id) /\ th[t].held \in Seq(Id) /\ th[t].mout \in Seq(Id)
    BY <2>1 DEF ThreadState
  <2>3. QED
    BY <2>1, <2>2
<1>1. UNCHANGED <<fresh, inputQueue, passed, dropped>>
  BY DEF Multi, inVars, outVars
<1>2. PICK k \in Nat, b \in Nat : Fed(t, k, b)
  BY <1>0, MultiFeeds, SMTT(30)
<1> DEFINE pre == SubSeq(th[t].min, 1, k)
           left == SubSeq(th[t].min, k + 1, Len(th[t].min))
           all == th[t].held \o pre
           first == SubSeq(all, 1, b)
           kept == SubSeq(all, b + 1, Len(all))
<1>3. /\ Others(t) /\ k <= Len(th[t].min) /\ b <= Len(all)
      /\ th'[t].min = left /\ th'[t].r = th[t].r /\ th'[t].pending = th[t].pending
      /\ \/ all = <<>> /\ th'[t].held = th[t].held /\ th'[t].mout = th[t].mout
         \/ th'[t].held = kept /\ th'[t].mout = th[t].mout \o first
  BY <1>2 DEF Fed
<1>4. /\ pre \in Seq(Id) /\ left \in Seq(Id)
      /\ \A i : In(i, th[t].min) <=> In(i, pre) \/ In(i, left)
      /\ Distinct(pre) /\ Distinct(left) /\ \A i : ~(In(i, pre) /\ In(i, left))
  BY <1>0, <1>3, Cut DEF Apart
<1> HIDE DEF pre, left
<1>5. /\ all \in Seq(Id) /\ Distinct(all)
      /\ \A i : In(i, all) <=> In(i, th[t].held) \/ In(i, pre)
  <2>1. Distinct(th[t].held) /\ \A i \in Id : ~(In(i, th[t].held) /\ In(i, pre))
    BY <1>0, <1>4 DEF Apart
  <2>2. QED
    BY <1>0, <1>4, <2>1, Joined
<1> HIDE DEF all
<1>6. /\ first \in Seq(Id) /\ kept \in Seq(Id)
      /\ \A i : In(i, all) <=> In(i, first) \/ In(i, kept)
      /\ Distinct(first) /\ Distinct(kept) /\ \A i : ~(In(i, first) /\ In(i, kept))
  BY <1>3, <1>5, Cut
<1> HIDE DEF first, kept
<1>7. CASE th'[t].held = th[t].held /\ th'[t].mout = th[t].mout
  <2>1. Apart(th'[t]) /\ \A i \in Id : Has(th'[t], i) => Has(th[t], i)
    BY <1>0, <1>3, <1>4, <1>7 DEF Apart, Has
  <2>2. QED
    BY <1>1, <1>3, <2>1, KeptOwned
<1>8. CASE th'[t].held = kept /\ th'[t].mout = th[t].mout \o first
  <2>1. /\ \A i : In(i, th'[t].mout) <=> In(i, th[t].mout) \/ In(i, first)
        /\ Distinct(th'[t].mout)
    <3>1. \A i \in Id : ~(In(i, th[t].mout) /\ In(i, first))
      BY <1>0, <1>4, <1>5, <1>6 DEF Apart
    <3>2. Distinct(th[t].mout)
      BY <1>0 DEF Apart
    <3>3. QED
      BY <1>0, <1>6, <1>8, <3>1, <3>2, Joined
  <2>2. \A i \in Id : Has(th'[t], i) => Has(th[t], i)
    BY <1>3, <1>4, <1>5, <1>6, <1>8, <2>1 DEF Has
  <2>3. Apart(th'[t])
    <3>1. ASSUME NEW i \in Id
          PROVE  /\ i = th'[t].r => /\ i # th'[t].pending /\ ~In(i, th'[t].min)
                                    /\ ~In(i, th'[t].held) /\ ~In(i, th'[t].mout)
                 /\ i = th'[t].pending => /\ ~In(i, th'[t].min) /\ ~In(i, th'[t].held)
                                          /\ ~In(i, th'[t].mout)
                 /\ In(i, th'[t].min) => ~In(i, th'[t].held) /\ ~In(i, th'[t].mout)
                 /\ In(i, th'[t].held) => ~In(i, th'[t].mout)
      BY <1>0, <1>3, <1>4, <1>5, <1>6, <1>8, <2>1 DEF Apart
    <3>2. QED
      BY <1>3, <1>4, <1>6, <1>8, <2>1, <3>1 DEF Apart
  <2>4. QED
    BY <1>1, <1>3, <2>2, <2>3, KeptOwned
<1>9. QED
  BY <1>3, <1>7, <1>8

LEMMA ElsewhereOwned ==
  ASSUME Typed, Owned, Elsewhere
  PROVE  Owned'
<1>0. /\ th \in [Thread -> ThreadState] /\ inputQueue \in Seq(Id) /\ Distinct(inputQueue)
      /\ (\A u \in Thread : Apart(th[u])) /\ \A i \in Id : Owner(i)
  BY DEF Typed, TypeOK, Owned
<1>1. UNCHANGED <<passed, dropped>>
  BY DEF Elsewhere, Arrive, Consume, SetPauseInput, StopRunning, StopStep, StopInputQueue,
         StopSignal, StopJoin, CloseOut, outVars
<1>2. ASSUME NEW i \in Id PROVE Left(i)' => Left(i)
  BY <1>1 DEF Left, HandedOn
<1>3. ASSUME NEW u \in Thread
      PROVE  Apart(th'[u]) /\ \A i : Has(th'[u], i) <=> Has(th[u], i)
  <2>1. th' = th \/ th' = Signalled(th)
    BY DEF Elsewhere, Arrive, Consume, SetPauseInput, StopRunning, StopStep, StopInputQueue,
           StopSignal, StopJoin, CloseOut
  <2>2. CASE th' = th
    BY <1>0, <2>2
  <2>3. CASE th' = Signalled(th)
    <3>1. SameContent(u)
      BY <1>0, <2>3, Woken
    <3>2. QED
      BY <1>0, <3>1, ApartKept DEF SameContent
  <2>4. QED
    BY <2>1, <2>2, <2>3
<1>4. ASSUME NEW x \in Id, Arrive(x) PROVE Owned'
  <2>1. x \in fresh /\ fresh' = fresh \ {x} /\ inputQueue' = Append(inputQueue, x)
    BY <1>4 DEF Arrive
  <2>2. ~In(x, inputQueue) /\ ~Left(x) /\ \A u \in Thread : ~Has(th[u], x)
    BY <1>0, <2>1 DEF Owner
  <2>3. /\ Distinct(inputQueue')
        /\ \A i : In(i, inputQueue') <=> In(i, inputQueue) \/ i = x
    BY <1>0, <2>1, <2>2, Grown
  <2>4. ASSUME NEW i \in Id PROVE Owner(i)'
    <3>1. CASE i # x
      BY <1>0, <1>2, <1>3, <2>1, <2>3, <3>1, OwnerKept
    <3>2. CASE i = x
      <4>1. ~Left(x)' /\ x \notin fresh' /\ \A u \in Thread : ~Has(th'[u], x)
        BY <1>2, <1>3, <2>1, <2>2
      <4>2. Owner(x)'
        BY <4>1 DEF Owner, Has, In
      <4>3. QED
        BY <3>2, <4>2
    <3>3. QED
      BY <3>1, <3>2
  <2>5. QED
    BY <1>3, <2>3, <2>4 DEF Owned, Apart, Distinct, In
<1>5. CASE ~\E x \in Id : Arrive(x)
  <2>1. fresh' = fresh /\ (inputQueue' = inputQueue \/ inputQueue' = <<>>)
    BY <1>5 DEF Elsewhere, Consume, SetPauseInput, StopRunning, StopStep, StopInputQueue,
           StopSignal, StopJoin, CloseOut, inVars
  <2>2. Distinct(inputQueue') /\ \A i : In(i, inputQueue') => In(i, inputQueue)
    BY <1>0, <2>1 DEF Distinct, In
  <2>3. ASSUME NEW i \in Id PROVE Owner(i)'
    BY <1>0, <1>2, <1>3, <2>1, <2>2, OwnerKept
  <2>4. QED
    BY <1>3, <2>2, <2>3 DEF Owned, Apart, Distinct, In
<1>6. QED
  BY <1>4, <1>5

LEMMA InitOwned ==
  ASSUME Init
  PROVE  Owned
<1>1. ASSUME NEW t \in Thread
      PROVE  /\ th[t].min = <<>> /\ th[t].held = <<>> /\ th[t].mout = <<>>
             /\ th[t].r = NoId /\ th[t].pending = NoId
  BY DEF Init
<1>2. Distinct(<<>>) /\ \A i : ~In(i, <<>>)
  BY DEF Distinct, In
<1>3. ASSUME NEW t \in Thread PROVE Apart(th[t]) /\ \A i \in Id : ~Has(th[t], i)
  BY <1>1, <1>2, ProcessorAssumption DEF Apart, Has
<1>4. ASSUME NEW i \in Id PROVE ~Left(i) /\ ~In(i, inputQueue)
  BY <1>2 DEF Init, Left, HandedOn
<1>5. Distinct(inputQueue)
  BY <1>2 DEF Init
<1>6. QED
  BY <1>3, <1>4, <1>5 DEF Owned, Owner

LEMMA NextOwned ==
  ASSUME Typed, Owned, [Next]_vars
  PROVE  Owned'
<1>1. CASE Next
  BY <1>1, Steps, MovesOwned, ReadingOwned, QueueOwned, RefusedOwned, MultiOwned, OutOwned,
     ElsewhereOwned
<1>2. CASE UNCHANGED vars
  BY <1>2 DEF vars, Owned, Owner, Apart, Distinct, In, Has, Left, HandedOn
<1>3. QED
  BY <1>1, <1>2

\* A resource has at most one owner among the threads and none before it comes,
\* while it is on the input queue, or once QueueResource handed it on or
\* released it, whatever the filters, limits and modules are: QueueResource may
\* be refused, repeated and interrupted at every filter.
THEOREM Owners == Spec => []OneHolder
<1>1. Init => Typed /\ Owned
  BY InitTyped, InitOwned
<1>2. Typed /\ Owned /\ [Next]_vars => Typed' /\ Owned'
  BY NextTyped, NextOwned
<1>3. Owned => OneHolder
  <2> SUFFICES ASSUME Owned, NEW i \in Id
               PROVE  /\ \A t, u \in Thread : Carries(t, i) /\ Carries(u, i) => t = u
                      /\ HandedOn(i) \/ i \in dropped \/ i \in fresh \/ In(i, inputQueue)
                           => \A t \in Thread : ~Carries(t, i)
    BY DEF OneHolder
  <2>1. Owner(i)
    BY DEF Owned
  <2>2. \A t \in Thread : Carries(t, i) => Has(th[t], i)
    BY DEF Carries, Has
  <2>3. QED
    BY <2>1, <2>2 DEF Owner, Left
<1>4. QED
  BY <1>1, <1>2, <1>3, PTL DEF Spec

(***************************************************************************)
(* Configurations in which QueueResource is never repeated: without a      *)
(* MULTI module it waits for space, and queues without limits have space.  *)
(***************************************************************************)
Unhindered == ~HasMulti \/ \A f \in Filter : Cap[f] = 0

\* A thread has what its place in RunThread says.  A resource is pending only
\* after the queues were stopped, and then no thread starts another round.
Tidy(s, run) ==
  /\ s.at \in {"multi", "out", "qres"} => HasMulti
  /\ s.at = "queue" => ~HasMulti
  /\ s.at \in {"pauseWait", "pauseWoken", "pauseLock", "input"} => HasInput
  /\ s.at # "qpend"
  /\ ~HasMulti => s.min = <<>> /\ s.held = <<>> /\ s.mout = <<>> /\ s.pending = NoId
  /\ s.r # NoId => s.at \in {"queue", "qres"}
  /\ s.pending # NoId => ~run /\ s.at \in {"after", "flush", "flushPop", "top", "ended", "aborted"}
  /\ s.mout # <<>> => ~run \/ s.at \in {"out", "qres"}

\* A thread that will block has nothing left for the MULTI module.
Emptied(s) ==
  s.block /\ (\/ s.at \in {"out", "qres", "after", "flush", "flushPop", "top", "new"}
              \/ s.at \in Reading /\ s.nread = 0)
    => s.min = <<>> /\ s.held = <<>>

\* The queues are open until Stop is called.
Open == running => ~outClosed /\ ~inputClosed /\ ctl = "run"

Orderly == Open /\ \A t \in Thread : Tidy(th[t], running) /\ Emptied(th[t])

\* A step of thread t.
LEMMA OrderlyStep ==
  ASSUME Orderly, NEW t \in Thread, Others(t), UNCHANGED <<running, outClosed, inputClosed, ctl>>,
         Tidy(th'[t], running), Emptied(th'[t])
  PROVE  Orderly'
<1>1. \A u \in Thread : Tidy(th'[u], running) /\ Emptied(th'[u])
  BY DEF Orderly, Others
<1>2. Open'
  BY DEF Orderly, Open
<1>3. QED
  BY <1>1, <1>2, Zenon DEF Orderly, Tidy, Emptied

\* What the moving steps do to block and qf.
LEMMA MovesMarks ==
  ASSUME th \in [Thread -> ThreadState], NEW t \in Thread, Moves(t)
  PROVE  /\ th'[t].block = th[t].block \/ (After(t) /\ ~HasMulti)
         /\ th'[t].qf = IF QueueSkip(t) \/ QueueCopy(t) THEN th[t].qf + 1 ELSE th[t].qf
<1>0. th[t] \in ThreadState
  OBVIOUS
<1>1. ASSUME NEW a, th' = [th EXCEPT ![t].at = a]
      PROVE  th'[t].block = th[t].block /\ th'[t].qf = th[t].qf
  BY <1>0, <1>1 DEF ThreadState
<1>2. ASSUME NEW a, NEW x, th' = [th EXCEPT ![t].at = a, ![t].nread = x]
      PROVE  th'[t].block = th[t].block /\ th'[t].qf = th[t].qf
  BY <1>0, <1>2 DEF ThreadState
<1>3. ASSUME NEW a, NEW x, th' = [th EXCEPT ![t].at = a, ![t].readMax = x]
      PROVE  th'[t].block = th[t].block /\ th'[t].qf = th[t].qf
  BY <1>0, <1>3 DEF ThreadState
<1>4. ASSUME QueueSkip(t) \/ QueueCopy(t)
      PROVE  th'[t].block = th[t].block /\ th'[t].qf = th[t].qf + 1
  <2>1. th' = [th EXCEPT ![t].qf = @ + 1]
    BY <1>4 DEF QueueSkip, QueueCopy
  <2>2. QED
    BY <1>0, <2>1 DEF ThreadState
<1>5. ASSUME After(t)
      PROVE  th'[t].qf = th[t].qf /\ (HasMulti => th'[t].block = th[t].block)
  <2>1. CASE ~HasMulti
    <3>1. th'[t] = [th[t] EXCEPT !.at = "flush", !.block = TRUE, !.readMax = 1]
      BY <1>5, <2>1 DEF After
    <3>2. QED
      BY <1>0, <2>1, <3>1 DEF ThreadState
  <2>2. CASE HasMulti
    <3>1. \E a \in {"flush", "ended", "aborted"} : th'[t] = [th[t] EXCEPT !.at = a]
      BY <1>5, <2>2 DEF After
    <3>2. QED
      BY <1>0, <3>1 DEF ThreadState
  <2>3. QED
    BY <2>1, <2>2
<1>6. ASSUME \/ ReadEnd(t) \/ TakeNone(t) \/ PauseGate(t) \/ PauseBack(t) \/ PauseAgain(t)
             \/ InputNone(t) \/ SpuriousWakeup(t) \/ FlushPop(t)
      PROVE  th'[t].block = th[t].block /\ th'[t].qf = th[t].qf
  <2>1. \E a : th' = [th EXCEPT ![t].at = a]
    BY <1>6 DEF ReadEnd, TakeNone, PauseGate, PauseBack, PauseAgain, InputNone,
       SpuriousWakeup, FlushPop, Goto
  <2>2. QED
    BY <2>1, <1>1
<1>7. ASSUME Top(t)
      PROVE  th'[t].block = th[t].block /\ th'[t].qf = th[t].qf
  <2>1. \E a : th' = [th EXCEPT ![t].at = a, ![t].nread = 0]
    BY <1>7 DEF Top
  <2>2. QED
    BY <2>1, <1>2
<1>8. ASSUME Flush(t)
      PROVE  th'[t].block = th[t].block /\ th'[t].qf = th[t].qf
  <2>1. \/ \E a : th' = [th EXCEPT ![t].at = a]
        \/ th' = [th EXCEPT ![t].at = "top", ![t].readMax = 0]
    BY <1>8 DEF Flush, Goto
  <2>2. QED
    BY <2>1, <1>1, <1>3
<1>9. QueueSkip(t) \/ QueueCopy(t) => Queueing(t)
  BY DEF QueueSkip, QueueCopy
<1>10. ASSUME Queueing(t)
       PROVE  ~(\/ ReadEnd(t) \/ TakeNone(t) \/ PauseGate(t) \/ PauseBack(t) \/ PauseAgain(t)
                \/ InputNone(t) \/ SpuriousWakeup(t) \/ FlushPop(t) \/ Top(t) \/ Flush(t) \/ After(t))
  BY <1>10 DEF Queueing, ReadEnd, TakeNone, PauseGate, PauseBack, PauseAgain, InputNone,
     SpuriousWakeup, FlushPop, Top, Flush, After, At, MayRead
<1>11. QED
  BY <1>4, <1>5, <1>6, <1>7, <1>8, <1>9, <1>10 DEF Moves

LEMMA MovesOrderly ==
  ASSUME Typed, Orderly, NEW t \in Thread, Moves(t)
  PROVE  Orderly'
<1>0. th \in [Thread -> ThreadState] /\ Tidy(th[t], running) /\ Emptied(th[t])
  BY DEF Typed, TypeOK, Orderly
<1>1. PICK a \in Place, m \in Int, n \in Nat : Walks(t, a, m, n) /\ Path(t, a, m, n)
  BY <1>0, MovesWalk
<1>2. UNCHANGED <<running, outClosed, inputClosed, ctl>>
  BY DEF Moves, Top, ReadEnd, TakeNone, PauseGate, PauseBack, PauseAgain, InputNone,
     SpuriousWakeup, After, QueueSkip, QueueCopy, Flush, FlushPop, inVars, outVars, ctlVars
<1>3. /\ Others(t) /\ th'[t].r = th[t].r /\ th'[t].pending = th[t].pending
      /\ th'[t].min = th[t].min /\ th'[t].held = th[t].held /\ th'[t].mout = th[t].mout
      /\ th'[t].at = a /\ th'[t].nread = n
  BY <1>1 DEF Walks, SameContent
<1>4. th'[t].block = th[t].block \/ (After(t) /\ ~HasMulti)
  BY <1>0, MovesMarks
<1>5. \/ a = th[t].at /\ n = th[t].nread
      \/ /\ th[t].at \in Reading /\ n = th[t].nread /\ a \in Reading \cup {"ended", AfterRead}
         /\ \/ th[t].at \in {"pauseWait", "pauseWoken", "pauseLock", "input"} \/ HasInput
            \/ a \in {"ended", AfterRead}
      \/ th[t].at \in {"new", "top"} /\ n = 0 /\ a \in {"read", "ended"} /\ (a = "read" => running)
      \/ th[t].at \in {"after", "flush", "flushPop"} /\ n = th[t].nread
           /\ a \in {"flush", "flushPop", "top", "ended", "aborted"}
  <2>1. Top(t) /\ th'[t].at = "read" => running
    <3>1. Top(t) => th'[t].at = IF running THEN "read" ELSE "ended"
      <4>1. th[t] \in ThreadState
        BY <1>0
      <4>2. QED
        BY <1>0, <4>1 DEF Top, ThreadState
    <3>2. QED
      BY <3>1
  <2>2. QED
    BY <1>1, <1>3, <2>1 DEF Path, Top, ReadEnd, TakeNone, PauseGate, PauseBack, PauseAgain,
       InputNone, SpuriousWakeup, After, Flush, FlushPop, MayRead, At, Reading
<1>6. After(t) => th[t].at = "after"
  BY DEF After, At
<1>7. Tidy(th'[t], running)
  BY <1>0, <1>3, <1>5 DEF Tidy, AfterRead, Reading
<1>8. Emptied(th'[t])
  BY <1>0, <1>3, <1>4, <1>5, <1>6 DEF Tidy, Emptied, AfterRead, Reading
<1>9. QED
  BY <1>2, <1>3, <1>7, <1>8, OrderlyStep

LEMMA AppliedMarks ==
  ASSUME th \in [Thread -> ThreadState], NEW t \in Thread, NEW i \in Id, NEW n \in Nat,
         Apply(t, i, n)
  PROVE  th'[t].block = th[t].block /\ (~HasMulti => th'[t].qf = 1)
<1>0. th[t] \in ThreadState
  OBVIOUS
<1>1. CASE HasMulti
  <2>1. th'[t] = [th[t] EXCEPT !.at = "read", !.nread = @ + n, !.min = Append(@, i)]
    BY <1>1 DEF Apply
  <2>2. QED
    BY <1>0, <1>1, <2>1 DEF ThreadState
<1>2. CASE ~HasMulti
  <2>1. th'[t] = [th[t] EXCEPT !.at = "queue", !.nread = @ + n, !.r = i, !.qf = 1]
    BY <1>2 DEF Apply
  <2>2. QED
    BY <1>0, <2>1 DEF ThreadState
<1>3. QED
  BY <1>1, <1>2

LEMMA AcceptedOrderly ==
  ASSUME Typed, Orderly, NEW t \in Thread, NEW i \in Id, NEW n \in Nat \ {0},
         Apply(t, i, n), th[t].at \in Reading,
         UNCHANGED <<running, outClosed, inputClosed, ctl>>
  PROVE  Orderly'
<1>0. /\ th \in [Thread -> ThreadState] /\ Tidy(th[t], running) /\ th[t].nread \in Nat
  <2>1. th \in [Thread -> ThreadState] /\ Tidy(th[t], running)
    BY DEF Typed, TypeOK, Orderly
  <2>2. QED
    BY <2>1 DEF ThreadState
<1>1. Accepted(t, i, n)
  BY <1>0, Applied
<1>2. /\ Others(t) /\ th'[t].pending = th[t].pending /\ th'[t].held = th[t].held
      /\ th'[t].mout = th[t].mout /\ th'[t].nread = th[t].nread + n
      /\ HasMulti => th'[t].at = "read" /\ th'[t].r = th[t].r
      /\ ~HasMulti => th'[t].at = "queue" /\ th'[t].min = th[t].min
  BY <1>1 DEF Accepted
<1>3. th'[t].nread # 0
  BY <1>0, <1>2
<1>4. Tidy(th'[t], running)
  BY <1>0, <1>2 DEF Tidy, Reading
<1>5. Emptied(th'[t])
  BY <1>2, <1>3 DEF Emptied, Reading
<1>6. QED
  BY <1>2, <1>4, <1>5, OrderlyStep

LEMMA ReadingOrderly ==
  ASSUME Typed, Orderly, NEW t \in Thread, Take(t) \/ \E i \in Id : Input(t, i)
  PROVE  Orderly'
<1>0. /\ th \in [Thread -> ThreadState] /\ Tidy(th[t], running) /\ Emptied(th[t])
      /\ inputQueue \in Seq(Id)
  BY DEF Typed, TypeOK, Orderly
<1>1. UNCHANGED <<running, outClosed, inputClosed, ctl>> /\ th[t].at \in Reading
  BY DEF Take, Input, MayRead, At, Reading, outVars, ctlVars
<1>2. CASE \E i \in Id, n \in Nat \ {0} : Apply(t, i, n)
  BY <1>1, <1>2, AcceptedOrderly
<1>3. CASE th' = [th EXCEPT ![t].at = AfterRead]
  <2>1. Walks(t, AfterRead, th[t].readMax, th[t].nread)
    BY <1>0, <1>3, Walked DEF AfterRead, Place
  <2>2. Others(t) /\ SameContent(t) /\ th'[t].at = AfterRead
    BY <2>1 DEF Walks
  <2>3. Tidy(th'[t], running) /\ Emptied(th'[t])
    BY <1>0, <1>1, <2>2 DEF Tidy, Emptied, SameContent, AfterRead, Reading
  <2>4. QED
    BY <1>1, <2>2, <2>3, OrderlyStep, SMTT(30)
<1>4. CASE th' = th
  BY <1>0, <1>1, <1>4, OrderlyStep DEF Others
<1>5. QED
  <2>1. CASE Take(t)
    <3>1. Head(inputQueue) \in Id
      BY <1>0, <2>1, Rest DEF Take
    <3>2. th' = [th EXCEPT ![t].at = AfterRead] \/ Apply(t, Head(inputQueue), 2)
      BY <2>1 DEF Take, Goto
    <3>3. 2 \in Nat \ {0}
      OBVIOUS
    <3>4. QED
      BY <1>2, <1>3, <3>1, <3>2, <3>3
  <2>2. ASSUME NEW i \in Id, Input(t, i) PROVE Orderly'
    <3>1. th' = th \/ Apply(t, i, 1)
      BY <2>2 DEF Input
    <3>2. 1 \in Nat \ {0}
      OBVIOUS
    <3>3. QED
      BY <1>2, <1>4, <3>1, <3>2
  <2>3. QED
    BY <2>1, <2>2

\* QueueResource leaves block alone.
LEMMA QueuedMarks ==
  ASSUME th \in [Thread -> ThreadState], NEW t \in Thread, Queueing(t),
         \/ th' = [th EXCEPT ![t] = QueuedNext(t)]
         \/ th' = [th EXCEPT ![t] = RefusedNext(t)]
  PROVE  th'[t].block = th[t].block
<1>0. th[t] \in ThreadState /\ (th'[t] = QueuedNext(t) \/ th'[t] = RefusedNext(t))
  OBVIOUS
<1>1. CASE th[t].at = "queue"
  <2>1. \/ th'[t] = [th[t] EXCEPT !.at = "read", !.r = NoId]
        \/ th'[t] = [th[t] EXCEPT !.at = "ended", !.r = NoId]
    BY <1>0, <1>1 DEF QueuedNext, RefusedNext, At
  <2>2. QED
    BY <1>0, <2>1 DEF ThreadState
<1>2. CASE th[t].at = "qres"
  <2>1. \/ th'[t] = [th[t] EXCEPT !.at = "out", !.r = NoId, !.nqueued = @ + 1]
        \/ th'[t] = [th[t] EXCEPT !.at = "after", !.pending = th[t].r, !.r = NoId]
    BY <1>0, <1>2 DEF QueuedNext, RefusedNext, At
  <2>2. QED
    BY <1>0, <2>1 DEF ThreadState
<1>3. CASE th[t].at = "qpend"
  <2>1. \/ th'[t] = [th[t] EXCEPT !.at = "qres", !.pending = NoId, !.qf = 1, !.nqueued = @ + 1]
        \/ th'[t] = [th[t] EXCEPT !.at = "after", !.r = NoId]
    BY <1>0, <1>3 DEF QueuedNext, RefusedNext, At
  <2>2. QED
    BY <1>0, <2>1 DEF ThreadState
<1>4. QED
  BY <1>1, <1>2, <1>3 DEF Queueing

LEMMA QueueOrderly ==
  ASSUME Typed, Orderly, NEW t \in Thread, QueuePut(t) \/ QueueDrop(t)
  PROVE  Orderly'
<1>0. /\ th \in [Thread -> ThreadState] /\ Tidy(th[t], running) /\ Emptied(th[t]) /\ Queueing(t)
      /\ th' = [th EXCEPT ![t] = QueuedNext(t)]
      /\ UNCHANGED <<running, outClosed, inputClosed, ctl>>
  BY DEF Typed, TypeOK, Orderly, QueuePut, QueueDrop, inVars, ctlVars
<1>1. th[t].at # "qpend"
  BY <1>0 DEF Tidy
<1>2. /\ Released(t) /\ th'[t].r = NoId /\ th'[t].pending = th[t].pending
      /\ \/ th[t].at = "queue" /\ th'[t].at = "read"
         \/ th[t].at = "qres" /\ th'[t].at = "out"
  BY <1>0, <1>1, Queued
<1>3. th'[t].block = th[t].block
  BY <1>0, QueuedMarks
<1>4. /\ Others(t) /\ th'[t].min = th[t].min /\ th'[t].held = th[t].held
      /\ th'[t].mout = th[t].mout
  BY <1>2 DEF Released
<1>5. Tidy(th'[t], running)
  BY <1>0, <1>2, <1>4 DEF Tidy
<1>6. Emptied(th'[t])
  BY <1>0, <1>2, <1>3, <1>4 DEF Tidy, Emptied, Reading
<1>7. QED
  BY <1>0, <1>4, <1>5, <1>6, OrderlyStep

\* QueueResource is refused only once the queues are stopped.
LEMMA RefusedClosed ==
  ASSUME Unhindered, Typed, Orderly, NEW t \in Thread, QueueRefused(t)
  PROVE  outClosed /\ ~running
<1>1. Tidy(th[t], running) /\ Queueing(t) /\ th[t].qf \in Filter
  BY DEF Orderly, QueueRefused, Matches
<1>2. CASE th[t].at = "queue"
  BY <1>2 DEF QueueRefused, WaitsForSpace, At, Orderly, Open
<1>3. CASE th[t].at = "qres"
  <2>1. HasSpace(th[t].qf)
    BY <1>1, <1>3 DEF Tidy, Unhindered, HasSpace
  <2>2. QED
    BY <2>1 DEF QueueRefused, Orderly, Open
<1>4. QED
  BY <1>1, <1>2, <1>3 DEF Tidy, Queueing

LEMMA RefusedOrderly ==
  ASSUME Unhindered, Typed, Orderly, NEW t \in Thread, QueueRefused(t)
  PROVE  Orderly'
<1>0. /\ th \in [Thread -> ThreadState] /\ Tidy(th[t], running) /\ Emptied(th[t]) /\ Queueing(t)
      /\ th' = [th EXCEPT ![t] = RefusedNext(t)]
      /\ UNCHANGED <<running, outClosed, inputClosed, ctl>>
  BY DEF Typed, TypeOK, Orderly, QueueRefused, inVars, outVars, ctlVars
<1>1. ~running /\ th[t].at # "qpend"
  BY <1>0, RefusedClosed DEF Tidy
<1>2. /\ Released(t) /\ th'[t].r = NoId
      /\ th'[t].at = IF th[t].at = "queue" THEN "ended" ELSE "after"
      /\ th'[t].pending = IF th[t].at = "qres" THEN th[t].r ELSE th[t].pending
  BY <1>0, Refused
<1>3. th'[t].block = th[t].block
  BY <1>0, QueuedMarks
<1>4. /\ Others(t) /\ th'[t].min = th[t].min /\ th'[t].held = th[t].held
      /\ th'[t].mout = th[t].mout
  BY <1>2 DEF Released
<1>5. th[t].at = "queue" \/ th[t].at = "qres"
  BY <1>0, <1>1 DEF Queueing
<1>6. Tidy(th'[t], running)
  BY <1>0, <1>1, <1>2, <1>4, <1>5 DEF Tidy
<1>7. Emptied(th'[t])
  BY <1>0, <1>2, <1>3, <1>4, <1>5 DEF Emptied, Reading
<1>8. QED
  BY <1>0, <1>4, <1>6, <1>7, OrderlyStep

LEMMA OutOrderly ==
  ASSUME Typed, Orderly, NEW t \in Thread, Out(t)
  PROVE  /\ Orderly'
         /\ th[t].mout # <<>> => th'[t].at = "qres" /\ th'[t].qf = 1
<1>0. /\ th \in [Thread -> ThreadState] /\ Tidy(th[t], running) /\ Emptied(th[t])
      /\ th[t].at = "out" /\ th[t] \in ThreadState
      /\ UNCHANGED <<running, outClosed, inputClosed, ctl>>
  BY DEF Typed, TypeOK, Orderly, Out, At, inVars, outVars, ctlVars
<1>1. th[t].pending = NoId
  BY <1>0 DEF Tidy
<1>2. CASE th[t].mout = <<>>
  <2>1. th'[t] = [th[t] EXCEPT !.at = "after"] /\ Others(t)
    BY <1>0, <1>2 DEF Out, Goto, Others
  <2>2. /\ th'[t].r = th[t].r /\ th'[t].pending = th[t].pending /\ th'[t].min = th[t].min
        /\ th'[t].held = th[t].held /\ th'[t].mout = th[t].mout /\ th'[t].at = "after"
        /\ th'[t].block = th[t].block
    BY <1>0, <2>1 DEF ThreadState
  <2>3. Tidy(th'[t], running) /\ Emptied(th'[t])
    BY <1>0, <1>1, <1>2, <2>2 DEF Tidy, Emptied, Reading
  <2>4. QED
    BY <1>0, <1>2, <2>1, <2>3, OrderlyStep
<1>3. CASE th[t].mout # <<>>
  <2>1. /\ th'[t] = [th[t] EXCEPT !.r = Head(th[t].mout), !.mout = Tail(@), !.qf = 1,
                                  !.at = "qres"]
        /\ Others(t)
    BY <1>0, <1>1, <1>3 DEF Out, Others
  <2>2. /\ th'[t].pending = th[t].pending /\ th'[t].min = th[t].min
        /\ th'[t].held = th[t].held /\ th'[t].at = "qres"
        /\ th'[t].block = th[t].block /\ th'[t].qf = 1
    BY <1>0, <2>1 DEF ThreadState
  <2>3. Tidy(th'[t], running) /\ Emptied(th'[t])
    BY <1>0, <1>1, <2>2 DEF Tidy, Emptied, Reading
  <2>4. QED
    BY <1>0, <2>1, <2>2, <2>3, OrderlyStep
<1>4. QED
  BY <1>2, <1>3

\* The MULTI module keeps all it gets; it takes all its input, and a thread
\* that is told to block has nothing left in it.
LEMMA MultiEmpties ==
  ASSUME Typed, NotOverloaded, NEW t \in Thread, Multi(t)
  PROVE  th'[t].min = <<>> /\ (th'[t].block => th'[t].held = <<>>)
<1> DEFINE room == IF Len(th[t].held) <= MAX_RESOURCES
                     THEN MAX_RESOURCES + 1 - Len(th[t].held) ELSE 0
           k == SeqMin(room, Len(th[t].min))
           all == th[t].held \o SubSeq(th[t].min, 1, k)
           left == SubSeq(th[t].min, k + 1, Len(th[t].min))
           b == SeqMin(Burst, Len(all))
           kept == SubSeq(all, b + 1, Len(all))
           first == SubSeq(all, 1, b)
<1>0. /\ th[t] \in ThreadState /\ th[t].min \in Seq(Id) /\ th[t].held \in Seq(Id)
      /\ Len(th[t].min) \in Nat /\ Len(th[t].held) \in Nat /\ MAX_RESOURCES \in Nat
      /\ Len(th[t].held) + Len(th[t].min) <= MAX_RESOURCES
      /\ th \in [Thread -> ThreadState]
  <2>1. th \in [Thread -> ThreadState] /\ Len(th[t].held) + Len(th[t].min) <= MAX_RESOURCES
    BY DEF Typed, TypeOK, NotOverloaded
  <2>2. th[t] \in ThreadState
    BY <2>1
  <2>3. th[t].min \in Seq(Id) /\ th[t].held \in Seq(Id)
    BY <2>2 DEF ThreadState
  <2>4. Len(th[t].min) \in Nat /\ Len(th[t].held) \in Nat
    BY <2>3
  <2>5. MAX_RESOURCES \in Nat
    BY ProcessorAssumption
  <2>6. QED
    BY <2>1, <2>2, <2>3, <2>4, <2>5
<1>1. k = Len(th[t].min)
  <2>0. PICK h \in Nat, m \in Nat : h = Len(th[t].held) /\ m = Len(th[t].min)
    BY <1>0
  <2>1. h <= MAX_RESOURCES /\ ~(MAX_RESOURCES + 1 - h < m)
    <3>1. h + m <= MAX_RESOURCES /\ MAX_RESOURCES \in Nat
      BY <1>0, <2>0, Zenon
    <3>2. QED
      BY <3>1
  <2>2. room = MAX_RESOURCES + 1 - h /\ ~(room < Len(th[t].min))
    BY <2>0, <2>1
  <2> HIDE DEF room
  <2>3. QED
    BY <2>2 DEF SeqMin
<1>2. left = <<>> /\ left \in Seq(Id) /\ SubSeq(th[t].min, 1, k) \in Seq(Id)
  <2>1. left \in Seq(Id) /\ Len(left) = 0 /\ SubSeq(th[t].min, 1, k) \in Seq(Id)
    <3> HIDE DEF k
    <3>1. k \in Nat /\ k <= Len(th[t].min) /\ Len(th[t].min) - k = 0
      BY <1>0, <1>1
    <3>2. QED
      BY <1>0, <3>1, Cut
  <2> HIDE DEF left, k
  <2>2. QED
    BY <2>1
<1>3. CASE all = <<>>
  <2>1. th'[t] = [th[t] EXCEPT !.at = "out", !.min = left, !.block = TRUE,
                        !.readMax = MAX_RESOURCES - Len(left), !.nqueued = 0]
    BY <1>0, <1>3 DEF Multi
  <2>2. th'[t].min = left /\ th'[t].held = th[t].held
    BY <1>0, <2>1 DEF ThreadState
  <2>3. th[t].held = <<>>
    <3> HIDE DEF k
    <3>1. Len(all) = Len(th[t].held) + Len(SubSeq(th[t].min, 1, k)) /\ Len(all) = 0
          /\ Len(SubSeq(th[t].min, 1, k)) \in Nat
      <4>1. Len(all) = Len(th[t].held) + Len(SubSeq(th[t].min, 1, k))
        BY <1>0, <1>2, Joined
      <4>2. Len(all) = 0
        <5> HIDE DEF all
        <5>1. QED
          BY <1>3
      <4>3. Len(SubSeq(th[t].min, 1, k)) \in Nat
        BY <1>2
      <4>4. QED
        BY <4>1, <4>2, <4>3
    <3>2. Len(th[t].held) = 0
      <4>1. PICK h \in Nat, m \in Nat : h = Len(th[t].held) /\ m = Len(SubSeq(th[t].min, 1, k))
        BY <1>0, <3>1
      <4>2. 0 = h + m
        BY <3>1, <4>1
      <4>3. h = 0
        BY <4>2
      <4>4. QED
        BY <4>1, <4>3
    <3>3. QED
      BY <1>0, <3>2
  <2>4. QED
    BY <1>2, <2>2, <2>3
<1>4. CASE all # <<>>
  <2>1. th'[t] = [th[t] EXCEPT !.at = "out", !.min = left, !.held = kept,
                        !.mout = @ \o first, !.block = kept = <<>>,
                        !.readMax = MAX_RESOURCES - Len(kept) - Len(left),
                        !.nqueued = 0]
    BY <1>0, <1>4 DEF Multi
  <2> HIDE DEF left, kept, first
  <2>2. th'[t].min = left /\ th'[t].held = kept /\ th'[t].block = (kept = <<>>)
    BY <1>0, <2>1 DEF ThreadState
  <2>3. QED
    BY <1>2, <2>2
<1>5. QED
  BY <1>3, <1>4

LEMMA MultiKeeps ==
  ASSUME Typed, Owned, NEW t \in Thread, Multi(t)
  PROVE  \A i : Has(th'[t], i) <=> Has(th[t], i)
<1>0. /\ th \in [Thread -> ThreadState] /\ Apart(th[t]) /\ th[t].min \in Seq(Id)
      /\ th[t].held \in Seq(Id) /\ th[t].mout \in Seq(Id)
  <2>1. th \in [Thread -> ThreadState] /\ Apart(th[t])
    BY DEF Typed, TypeOK, Owned
  <2>2. th[t].min \in Seq(Id) /\ th[t].held \in Seq(Id) /\ th[t].mout \in Seq(Id)
    BY <2>1 DEF ThreadState
  <2>3. QED
    BY <2>1, <2>2
<1>1. PICK k \in Nat, b \in Nat : Fed(t, k, b)
  BY <1>0, MultiFeeds
<1> DEFINE pre == SubSeq(th[t].min, 1, k)
           left == SubSeq(th[t].min, k + 1, Len(th[t].min))
           all == th[t].held \o pre
           first == SubSeq(all, 1, b)
           kept == SubSeq(all, b + 1, Len(all))
<1>2. /\ k <= Len(th[t].min) /\ b <= Len(all)
      /\ th'[t].min = left /\ th'[t].r = th[t].r /\ th'[t].pending = th[t].pending
      /\ \/ all = <<>> /\ th'[t].held = th[t].held /\ th'[t].mout = th[t].mout
         \/ th'[t].held = kept /\ th'[t].mout = th[t].mout \o first
  BY <1>1 DEF Fed
<1>3. /\ pre \in Seq(Id) /\ \A i : In(i, th[t].min) <=> In(i, pre) \/ In(i, left)
  BY <1>0, <1>2, Cut
<1> HIDE DEF pre, left
<1>4. all \in Seq(Id) /\ \A i : In(i, all) <=> In(i, th[t].held) \/ In(i, pre)
  BY <1>0, <1>3, Joined
<1> HIDE DEF all
<1>5. first \in Seq(Id) /\ \A i : In(i, all) <=> In(i, first) \/ In(i, kept)
  BY <1>2, <1>4, Cut
<1> HIDE DEF first, kept
<1>6. CASE all = <<>> /\ th'[t].held = th[t].held /\ th'[t].mout = th[t].mout
  <2>1. \A i : ~In(i, all)
    BY <1>6 DEF In
  <2>2. QED
    BY <1>2, <1>3, <1>4, <1>6, <2>1 DEF Has
<1>7. CASE th'[t].held = kept /\ th'[t].mout = th[t].mout \o first
  <2>1. \A i : In(i, th'[t].mout) <=> In(i, th[t].mout) \/ In(i, first)
    BY <1>0, <1>5, <1>7, Joined
  <2>2. QED
    BY <1>2, <1>3, <1>4, <1>5, <1>7, <2>1 DEF Has
<1>8. QED
  BY <1>2, <1>6, <1>7, SMTT(30)

LEMMA MultiOrderly ==
  ASSUME Typed, Orderly, NotOverloaded, NEW t \in Thread, Multi(t)
  PROVE  Orderly'
<1>0. /\ th \in [Thread -> ThreadState] /\ Tidy(th[t], running) /\ th[t].at = "multi"
      /\ UNCHANGED <<running, outClosed, inputClosed, ctl>>
  BY DEF Typed, TypeOK, Orderly, Multi, At, inVars, outVars, ctlVars
<1>1. PICK k \in Nat, b \in Nat : Fed(t, k, b)
  BY <1>0, MultiFeeds
<1>2. /\ Others(t) /\ th'[t].at = "out" /\ th'[t].r = th[t].r /\ th'[t].pending = th[t].pending
  BY <1>1 DEF Fed
<1>3. Tidy(th'[t], running)
  BY <1>0, <1>2 DEF Tidy
<1>4. Emptied(th'[t])
  BY <1>2, MultiEmpties DEF Emptied
<1>5. QED
  BY <1>0, <1>2, <1>3, <1>4, OrderlyStep

LEMMA WokenMarks ==
  ASSUME th \in [Thread -> ThreadState], th' = Signalled(th), NEW t \in Thread
  PROVE  th'[t].block = th[t].block /\ th'[t].qf = th[t].qf
<1>1. th[t] \in ThreadState /\ (th'[t] = th[t] \/ th'[t] = [th[t] EXCEPT !.at = "pauseWoken"])
  BY DEF Signalled
<1>2. QED
  BY <1>1 DEF ThreadState

LEMMA ElsewhereOrderly ==
  ASSUME Typed, Orderly, Elsewhere
  PROVE  Orderly'
<1>0. th \in [Thread -> ThreadState] /\ Open
  BY DEF Typed, TypeOK, Orderly
<1>1. running' = running \/ running' = FALSE
  BY DEF Elsewhere, Arrive, Consume, SetPauseInput, StopRunning, StopStep, StopInputQueue,
         StopSignal, StopJoin, CloseOut, ctlVars
<1>2. Open'
  BY <1>0 DEF Open, Elsewhere, Arrive, Consume, SetPauseInput, StopRunning, StopStep,
     StopInputQueue, StopSignal, StopJoin, CloseOut, inVars, outVars, ctlVars
<1>3. th' = th \/ th' = Signalled(th)
  BY DEF Elsewhere, Arrive, Consume, SetPauseInput, StopRunning, StopStep, StopInputQueue,
         StopSignal, StopJoin, CloseOut
<1>4. ASSUME NEW t \in Thread PROVE Tidy(th'[t], running') /\ Emptied(th'[t])
  <2>0. Tidy(th[t], running) /\ Emptied(th[t])
    BY DEF Orderly
  <2>1. /\ th'[t].r = th[t].r /\ th'[t].pending = th[t].pending /\ th'[t].min = th[t].min
        /\ th'[t].held = th[t].held /\ th'[t].mout = th[t].mout /\ th'[t].block = th[t].block
        /\ th'[t].nread = th[t].nread
        /\ \/ th'[t].at = th[t].at
           \/ th[t].at = "pauseWait" /\ th'[t].at = "pauseWoken"
    BY <1>0, <1>3, Woken, WokenMarks DEF SameContent
  <2>2. Tidy(th'[t], running')
    BY <1>1, <2>0, <2>1 DEF Tidy
  <2>3. Emptied(th'[t])
    BY <2>0, <2>1 DEF Emptied, Reading
  <2>4. QED
    BY <2>2, <2>3
<1>5. QED
  BY <1>2, <1>4 DEF Orderly, Tidy, Emptied

LEMMA InitOrderly ==
  ASSUME Init
  PROVE  Orderly
<1>1. ASSUME NEW t \in Thread
      PROVE  /\ th[t].at = "new" /\ th[t].min = <<>> /\ th[t].held = <<>> /\ th[t].mout = <<>>
             /\ th[t].r = NoId /\ th[t].pending = NoId
  BY DEF Init
<1>2. ASSUME NEW t \in Thread PROVE Tidy(th[t], running) /\ Emptied(th[t])
  BY <1>1 DEF Tidy, Emptied
<1>3. Open
  BY DEF Init, Open
<1>4. QED
  BY <1>2, <1>3 DEF Orderly

LEMMA NextOrderly ==
  ASSUME Unhindered, Typed, Orderly, NotOverloaded, [Next]_vars
  PROVE  Orderly'
<1>1. CASE Next
  BY <1>1, Steps, MovesOrderly, ReadingOrderly, QueueOrderly, RefusedOrderly, MultiOrderly,
     OutOrderly, ElsewhereOrderly
<1>2. CASE UNCHANGED vars
  <2>1. UNCHANGED <<th, running, outClosed, inputClosed, ctl>>
    BY <1>2 DEF vars
  <2>2. QED
    BY <2>1 DEF Orderly, Open, Tidy, Emptied
<1>3. QED
  BY <1>1, <1>2

(***************************************************************************)
(* A filter sees a resource once.  A resource that waits, anywhere, was    *)
(* seen by no filter; one that QueueResource has was seen at most by the   *)
(* filters before qf.                                                      *)
(***************************************************************************)
Unseen(i) == \A f \in Filter : passed[f][i] = 0
Waits(s, i) == In(i, s.min) \/ In(i, s.held) \/ In(i, s.mout)
Ahead(s, i) == \A f \in Filter : f >= s.qf => passed[f][i] = 0

Passing(i) ==
  /\ \A f \in Filter : passed[f][i] <= 1
  /\ i \in fresh \/ In(i, inputQueue) => Unseen(i)
  /\ \A t \in Thread : /\ Waits(th[t], i) => Unseen(i)
                       /\ i = th[t].r => Ahead(th[t], i)

\* A step in which no filter sees i.
LEMMA PassingKept ==
  ASSUME NEW i \in Id, Passing(i), \A f \in Filter : passed'[f][i] = passed[f][i],
         i \in fresh' \/ In(i, inputQueue') => i \in fresh \/ In(i, inputQueue),
         \A t \in Thread :
           /\ Waits(th'[t], i) => Waits(th[t], i) \/ i \in fresh \/ In(i, inputQueue)
           /\ i = th'[t].r => \/ Waits(th[t], i) \/ i \in fresh \/ In(i, inputQueue)
                              \/ i = th[t].r /\ th'[t].qf >= th[t].qf,
         th \in [Thread -> ThreadState], th' \in [Thread -> ThreadState]
  PROVE  Passing(i)'
<1>0. Filter \subseteq Nat /\ \A t \in Thread : th[t].qf \in Nat /\ th'[t].qf \in Nat
  <2>1. ASSUME NEW t \in Thread PROVE th[t].qf \in Nat /\ th'[t].qf \in Nat
    <3>1. th[t] \in ThreadState /\ th'[t] \in ThreadState
      OBVIOUS
    <3>2. QED
      BY <3>1 DEF ThreadState
  <2>2. Filter \subseteq Nat
    BY ProcessorAssumption DEF Filter
  <2>3. QED
    BY <2>1, <2>2
<1>1. Unseen(i) => (\A f \in Filter : passed'[f][i] = 0)
  BY DEF Unseen
<1>2. ASSUME NEW t \in Thread, i = th'[t].r
      PROVE  \A f \in Filter : f >= th'[t].qf => passed'[f][i] = 0
  <2>1. CASE Unseen(i)
    BY <1>1, <2>1
  <2>2. CASE i = th[t].r /\ th'[t].qf >= th[t].qf
    <3>1. \A f \in Filter : f >= th'[t].qf => f >= th[t].qf
      BY <1>0, <2>2
    <3>2. \A f \in Filter : f >= th[t].qf => passed[f][i] = 0
      BY <2>2 DEF Passing, Ahead
    <3>3. QED
      BY <3>1, <3>2
  <2>3. QED
    BY <1>2, <2>1, <2>2 DEF Passing
<1>3. /\ \A f \in Filter : passed'[f][i] <= 1
      /\ i \in fresh' \/ In(i, inputQueue') => \A f \in Filter : passed'[f][i] = 0
      /\ \A t \in Thread : Waits(th'[t], i) => \A f \in Filter : passed'[f][i] = 0
  BY <1>1 DEF Passing
<1>4. QED
  BY <1>2, <1>3, Zenon DEF Passing, Unseen, Ahead, Waits, In

\* Filter qf sees the resource that QueueResource has.
LEMMA PassingSeen ==
  ASSUME Typed, Owned, Orderly, NEW t \in Thread, NEW i \in Id, QueueCopy(t) \/ QueuePut(t),
         i = Current(t), Passing(i), th' \in [Thread -> ThreadState], Others(t),
         \A x \in Id : Has(th'[t], x) => Has(th[t], x),
         th'[t].min = th[t].min, th'[t].held = th[t].held, th'[t].mout = th[t].mout,
         th'[t].r = NoId \/ th'[t].qf = th[t].qf + 1,
         UNCHANGED <<fresh, inputQueue>>
  PROVE  Passing(i)'
<1>0. /\ Queueing(t) /\ th[t].at # "qpend" /\ Apart(th[t]) /\ Owner(i)
  BY DEF QueueCopy, QueuePut, Orderly, Tidy, Owned
<1>1. i = th[t].r
  BY <1>0 DEF Current, At
<1>2. PICK f \in Filter : f = th[t].qf /\ passed' = [passed EXCEPT ![f][i] = @ + 1]
  BY DEF QueueCopy, QueuePut, Matches
<1>3. passed \in [Filter -> [Id -> Nat]] /\ Filter \subseteq Nat
  BY ProcessorAssumption DEF Typed, TypeOK, Filter
<1>4. passed[f][i] = 0
  <2>1. Ahead(th[t], i) /\ f >= th[t].qf
    BY <1>1, <1>2, <1>3 DEF Passing
  <2>2. QED
    BY <2>1 DEF Ahead
<1>5. passed'[f][i] = 1 /\ \A g \in Filter \ {f} : passed'[g][i] = passed[g][i]
  BY <1>2, <1>3, <1>4
<1>6. \A g \in Filter : passed'[g][i] <= 1
  BY <1>5 DEF Passing
<1>7. Has(th[t], i) /\ i \notin fresh' /\ ~In(i, inputQueue')
  BY <1>0, <1>1 DEF Has, Owner
<1>8. ASSUME NEW u \in Thread PROVE ~Waits(th'[u], i)
  <2>1. CASE u = t
    BY <1>0, <1>1, <2>1 DEF Apart, Waits
  <2>2. CASE u # t
    BY <1>0, <1>7, <2>2 DEF Owner, Others, Waits, Has
  <2>3. QED
    BY <2>1, <2>2
<1>9. ASSUME NEW u \in Thread, i = th'[u].r, NEW g \in Filter, g >= th'[u].qf
      PROVE  passed'[g][i] = 0
  <2>1. u = t
    BY <1>0, <1>7, <1>9 DEF Owner, Others, Has
  <2>2. th'[t].qf = f + 1
    BY <1>2, <1>9, <2>1, ProcessorAssumption
  <2>3. g # f /\ g >= f
    BY <1>3, <1>9, <2>1, <2>2
  <2>4. passed[g][i] = 0
    BY <1>1, <1>2, <2>3 DEF Passing, Ahead
  <2>5. QED
    BY <1>5, <2>3, <2>4
<1>10. QED
  BY <1>6, <1>7, <1>8, <1>9, Zenon DEF Passing, Unseen, Ahead, Waits, In

\* Every step, resource by resource.
LEMMA MovesPassing ==
  ASSUME Typed, Owned, Orderly, NEW t \in Thread, Moves(t), NEW i \in Id, Passing(i)
  PROVE  Passing(i)'
<1>0. Typed' /\ Others(t) /\ SameContent(t) /\ th \in [Thread -> ThreadState]
  BY MovesTyped DEF Typed, TypeOK
<1>1. th' \in [Thread -> ThreadState] /\ th[t].qf \in Nat
  <2>1. th[t] \in ThreadState
    BY <1>0
  <2>2. QED
    BY <1>0, <2>1 DEF Typed, TypeOK, ThreadState
<1>2. UNCHANGED <<fresh, inputQueue>>
  BY DEF Moves, Top, ReadEnd, TakeNone, PauseGate, PauseBack, PauseAgain, InputNone,
         SpuriousWakeup, After, QueueSkip, QueueCopy, Flush, FlushPop, inVars
<1>3. th'[t].qf = IF QueueSkip(t) \/ QueueCopy(t) THEN th[t].qf + 1 ELSE th[t].qf
  BY <1>0, MovesMarks
<1>4. CASE QueueCopy(t) /\ i = Current(t)
  <2>1. \A x : Has(th'[t], x) <=> Has(th[t], x)
    BY <1>0 DEF Has, SameContent
  <2>2. th'[t].qf = th[t].qf + 1
    BY <1>3, <1>4
  <2>3. QED
    BY <1>0, <1>1, <1>2, <1>4, <2>1, <2>2, PassingSeen DEF SameContent
<1>5. CASE ~(QueueCopy(t) /\ i = Current(t))
  <2>1. \A f \in Filter : passed'[f][i] = passed[f][i]
    <3>1. CASE QueueCopy(t)
      <4>1. PICK f \in Filter, c \in Id : c = Current(t) /\ passed' = [passed EXCEPT ![f][c] = @ + 1]
        BY <3>1, CurrentId DEF QueueCopy, Matches
      <4>2. passed \in [Filter -> [Id -> Nat]] /\ i # c
        BY <1>5, <3>1, <4>1 DEF Typed, TypeOK
      <4>3. QED
        BY <4>1, <4>2
    <3>2. CASE ~QueueCopy(t)
      BY <3>2 DEF Moves, Top, ReadEnd, TakeNone, PauseGate, PauseBack, PauseAgain, InputNone,
         SpuriousWakeup, After, QueueSkip, Flush, FlushPop, outVars
    <3>3. QED
      BY <3>1, <3>2
  <2>2. th'[t].qf >= th[t].qf
    BY <1>1, <1>3
  <2>3. ASSUME NEW u \in Thread
        PROVE  /\ Waits(th'[u], i) => Waits(th[u], i)
               /\ i = th'[u].r => i = th[u].r /\ th'[u].qf >= th[u].qf
    <3>1. CASE u = t
      BY <1>0, <2>2, <3>1 DEF Waits, SameContent
    <3>2. CASE u # t
      <4>1. th'[u] = th[u] /\ th[u].qf \in Nat
        <5>1. th[u] \in ThreadState /\ th'[u] = th[u]
          BY <1>0, <3>2 DEF Others
        <5>2. QED
          BY <5>1 DEF ThreadState
      <4>2. QED
        BY <4>1
    <3>3. QED
      BY <3>1, <3>2
  <2>4. QED
    BY <1>0, <1>1, <1>2, <2>1, <2>3, PassingKept
<1>6. QED
  BY <1>4, <1>5

\* A step of thread t in which no filter sees anything.
LEMMA ThreadPassing ==
  ASSUME Typed, Typed', NEW t \in Thread, Others(t), UNCHANGED passed, NEW i \in Id, Passing(i),
         i \in fresh' \/ In(i, inputQueue') => i \in fresh \/ In(i, inputQueue),
         Waits(th'[t], i) => Waits(th[t], i) \/ i \in fresh \/ In(i, inputQueue),
         i = th'[t].r => \/ Waits(th[t], i) \/ i \in fresh \/ In(i, inputQueue)
                         \/ i = th[t].r /\ th'[t].qf >= th[t].qf
  PROVE  Passing(i)'
<1>0. th \in [Thread -> ThreadState] /\ th' \in [Thread -> ThreadState]
  BY DEF Typed, TypeOK
<1>1. ASSUME NEW u \in Thread, u # t
      PROVE  /\ Waits(th'[u], i) => Waits(th[u], i)
             /\ i = th'[u].r => i = th[u].r /\ th'[u].qf >= th[u].qf
  <2>1. th[u] \in ThreadState /\ th'[u] = th[u]
    BY <1>0, <1>1 DEF Others
  <2>2. th[u].qf \in Nat
    BY <2>1 DEF ThreadState
  <2>3. QED
    BY <2>1, <2>2
<1>2. QED
  BY <1>0, <1>1, PassingKept

LEMMA ReadingPassing ==
  ASSUME Typed, Owned, Orderly, NEW t \in Thread, Take(t) \/ (\E x \in Id : Input(t, x)),
         NEW i \in Id, Passing(i)
  PROVE  Passing(i)'
<1>0. /\ th \in [Thread -> ThreadState] /\ inputQueue \in Seq(Id)
      /\ Tidy(th[t], running) /\ th[t].at \in Reading /\ UNCHANGED passed
  BY DEF Typed, TypeOK, Orderly, Take, Input, MayRead, At, Reading, outVars
<1>1. Typed'
  BY TakeTyped, InputTyped
<1>2. i # th[t].r
  BY <1>0, ProcessorAssumption DEF Tidy, Reading
<1>3. ASSUME NEW x \in Id, NEW n \in Nat, Apply(t, x, n), x \in fresh \/ In(x, inputQueue),
             i \in fresh' \/ In(i, inputQueue') => i \in fresh \/ In(i, inputQueue)
      PROVE  Passing(i)'
  <2>1. Accepted(t, x, n)
    BY <1>0, <1>3, Applied
  <2>2. Others(t) /\ th'[t].held = th[t].held /\ th'[t].mout = th[t].mout
    BY <2>1 DEF Accepted
  <2>3. /\ Waits(th'[t], i) => Waits(th[t], i) \/ i = x
        /\ i = th'[t].r => i = x
    <3>1. CASE HasMulti
      <4>1. th'[t].min = Append(th[t].min, x) /\ th'[t].r = th[t].r /\ th[t].min \in Seq(Id)
        <5>1. th[t].min \in Seq(Id)
          <6>1. th[t] \in ThreadState
            BY <1>0
          <6>2. QED
            BY <6>1 DEF ThreadState
        <5>2. QED
          BY <2>1, <3>1, <5>1 DEF Accepted
      <4>2. In(i, th'[t].min) <=> In(i, th[t].min) \/ i = x
        BY <4>1, Grown
      <4>3. QED
        BY <1>2, <2>2, <4>1, <4>2 DEF Waits
    <3>2. CASE ~HasMulti
      <4>1. th'[t].min = th[t].min /\ th'[t].r = x
        BY <2>1, <3>2 DEF Accepted
      <4>2. QED
        BY <2>2, <4>1 DEF Waits
    <3>3. QED
      BY <3>1, <3>2
  <2>4. QED
    BY <1>0, <1>1, <1>3, <2>2, <2>3, ThreadPassing
<1>4. CASE Take(t)
  <2>0. inputQueue # <<>> /\ inputQueue' = Tail(inputQueue) /\ fresh' = fresh
    BY <1>4 DEF Take
  <2>1. /\ Head(inputQueue) \in Id /\ In(Head(inputQueue), inputQueue)
        /\ In(i, inputQueue') => In(i, inputQueue)
    BY <1>0, <2>0, Rest
  <2>2. CASE Head(inputQueue) \in Doomed
    <3>1. th' = [th EXCEPT ![t].at = AfterRead]
      BY <1>4, <2>2, SMTT(30) DEF Take, Goto
    <3>2. Walks(t, AfterRead, th[t].readMax, th[t].nread)
      BY <1>0, <3>1, Walked DEF AfterRead, Place
    <3>3. Others(t) /\ SameContent(t)
      BY <3>2 DEF Walks
    <3>4. (Waits(th'[t], i) <=> Waits(th[t], i)) /\ i # th'[t].r
      BY <1>2, <3>3 DEF Waits, SameContent
    <3>5. QED
      BY <1>0, <1>1, <2>0, <2>1, <3>3, <3>4, ThreadPassing
  <2>3. CASE Head(inputQueue) \notin Doomed
    <3>1. Apply(t, Head(inputQueue), 2) /\ 2 \in Nat
      BY <1>4, <2>3 DEF Take
    <3>2. QED
      BY <1>3, <2>0, <2>1, <3>1
  <2>4. QED
    BY <2>2, <2>3
<1>5. ASSUME NEW x \in Id, Input(t, x) PROVE Passing(i)'
  <2>0. x \in fresh /\ fresh' = fresh \ {x} /\ inputQueue' = inputQueue
    BY <1>5 DEF Input
  <2>1. CASE x \in Doomed
    <3>1. th' = th
      BY <1>5, <2>1 DEF Input
    <3>2. Others(t) /\ (Waits(th'[t], i) <=> Waits(th[t], i)) /\ i # th'[t].r
      BY <1>2, <3>1 DEF Others
    <3>3. QED
      BY <1>0, <1>1, <2>0, <3>2, ThreadPassing
  <2>2. CASE x \notin Doomed
    <3>1. Apply(t, x, 1) /\ 1 \in Nat
      BY <1>5, <2>2 DEF Input
    <3>2. QED
      BY <1>3, <2>0, <3>1
  <2>3. QED
    BY <2>1, <2>2
<1>6. QED
  BY <1>4, <1>5

LEMMA QueuePassing ==
  ASSUME Typed, Owned, Orderly, NEW t \in Thread, QueuePut(t) \/ QueueDrop(t) \/ QueueRefused(t),
         NEW i \in Id, Passing(i)
  PROVE  Passing(i)'
<1>0. /\ th \in [Thread -> ThreadState] /\ Queueing(t) /\ th[t].at # "qpend"
      /\ UNCHANGED <<fresh, inputQueue>>
      /\ passed \in [Filter -> [Id -> Nat]]
  BY DEF Typed, TypeOK, Orderly, Tidy, QueuePut, QueueDrop, QueueRefused, inVars
<1>1. Typed'
  BY QueueTyped
<1>2. Released(t) /\ th'[t].r = NoId
      /\ th'[t].pending \in {th[t].pending, th[t].r}
  <2>1. CASE QueuePut(t) \/ QueueDrop(t)
    <3>1. th' = [th EXCEPT ![t] = QueuedNext(t)]
      BY <2>1 DEF QueuePut, QueueDrop
    <3>2. QED
      BY <1>0, <3>1, Queued
  <2>2. CASE QueueRefused(t)
    <3>1. th' = [th EXCEPT ![t] = RefusedNext(t)]
      BY <2>2 DEF QueueRefused
    <3>2. QED
      BY <1>0, <3>1, Refused
  <2>3. QED
    BY <2>1, <2>2
<1>3. /\ Others(t) /\ th'[t].min = th[t].min /\ th'[t].held = th[t].held
      /\ th'[t].mout = th[t].mout /\ th' \in [Thread -> ThreadState]
  BY <1>2 DEF Released
<1>4. /\ Waits(th'[t], i) <=> Waits(th[t], i)
      /\ i # th'[t].r /\ \A x \in Id : Has(th'[t], x) => Has(th[t], x)
  BY <1>2, <1>3, ProcessorAssumption DEF Waits, Has
<1>5. CASE ~QueuePut(t)
  <2>1. UNCHANGED passed
    BY <1>5 DEF QueueDrop, QueueRefused, outVars
  <2>2. QED
    BY <1>0, <1>1, <1>3, <1>4, <2>1, ThreadPassing
<1>6. CASE QueuePut(t) /\ i = Current(t)
  BY <1>0, <1>2, <1>3, <1>4, <1>6, PassingSeen
<1>7. CASE QueuePut(t) /\ i # Current(t)
  <2>1. PICK f \in Filter, c \in Id : c = Current(t) /\ passed' = [passed EXCEPT ![f][c] = @ + 1]
    BY <1>0, <1>7, CurrentId DEF QueuePut, Matches
  <2>2. \A g \in Filter : passed'[g][i] = passed[g][i]
    BY <1>0, <1>7, <2>1
  <2>3. ASSUME NEW u \in Thread
        PROVE  /\ Waits(th'[u], i) => Waits(th[u], i)
               /\ i = th'[u].r => i = th[u].r /\ th'[u].qf >= th[u].qf
    <3>1. CASE u = t
      BY <1>4, <3>1
    <3>2. CASE u # t
      <4>1. th[u] \in ThreadState /\ th'[u] = th[u]
        BY <1>0, <1>3, <3>2 DEF Others
      <4>2. th[u].qf \in Nat
        BY <4>1 DEF ThreadState
      <4>3. QED
        BY <4>1, <4>2
    <3>3. QED
      BY <3>1, <3>2
  <2>4. QED
    BY <1>0, <1>3, <2>2, <2>3, PassingKept
<1>8. QED
  BY <1>5, <1>6, <1>7

LEMMA MultiPassing ==
  ASSUME Typed, Owned, Orderly, NEW t \in Thread, Multi(t) \/ Out(t), NEW i \in Id, Passing(i)
  PROVE  Passing(i)'
<1>0. /\ th \in [Thread -> ThreadState] /\ UNCHANGED <<fresh, inputQueue, passed>>
      /\ th[t].at \in {"multi", "out"} /\ Tidy(th[t], running)
  BY DEF Typed, TypeOK, Orderly, Multi, Out, At, inVars, outVars
<1>1. Typed'
  BY MultiOutTyped
<1>2. th[t].r = NoId /\ i # NoId /\ th[t].mout \in Seq(Id) /\ th[t].pending = NoId
  <2>1. th[t] \in ThreadState
    BY <1>0
  <2>2. th[t].mout \in Seq(Id)
    BY <2>1 DEF ThreadState
  <2>3. QED
    BY <1>0, <2>2, ProcessorAssumption DEF Tidy
<1>3. CASE Multi(t)
  <2>1. PICK k \in Nat, b \in Nat : Fed(t, k, b)
    BY <1>0, <1>3, MultiFeeds
  <2>2. Others(t) /\ th'[t].r = th[t].r /\ th'[t].pending = th[t].pending
    BY <2>1 DEF Fed
  <2>3. Has(th'[t], i) <=> Has(th[t], i)
    BY <1>3, MultiKeeps
  <2>4. Waits(th'[t], i) => Waits(th[t], i)
    BY <1>2, <2>2, <2>3 DEF Has, Waits
  <2>5. QED
    BY <1>0, <1>1, <1>2, <2>2, <2>4, ThreadPassing
<1>4. CASE Out(t)
  <2>1. CASE Walks(t, "after", th[t].readMax, th[t].nread)
    <3>1. Others(t) /\ th'[t].r = th[t].r /\ (Waits(th'[t], i) <=> Waits(th[t], i))
      BY <2>1 DEF Walks, SameContent, Waits
    <3>2. QED
      BY <1>0, <1>1, <1>2, <3>1, ThreadPassing
  <2>2. CASE Fetched(t)
    <3>1. /\ Others(t) /\ th'[t].min = th[t].min /\ th'[t].held = th[t].held
          /\ th'[t].r = Head(th[t].mout) /\ th'[t].mout = Tail(th[t].mout)
          /\ th[t].mout # <<>>
      BY <2>2 DEF Fetched
    <3>2. /\ In(i, th'[t].mout) => In(i, th[t].mout)
          /\ In(th'[t].r, th[t].mout)
      BY <1>2, <3>1, Rest
    <3>3. (Waits(th'[t], i) => Waits(th[t], i)) /\ (i = th'[t].r => Waits(th[t], i))
      BY <3>1, <3>2 DEF Waits
    <3>4. QED
      BY <1>0, <1>1, <3>1, <3>3, ThreadPassing
  <2>3. QED
    BY <1>0, <1>4, <2>1, <2>2, OutTakes
<1>5. QED
  BY <1>3, <1>4

LEMMA ElsewherePassing ==
  ASSUME Typed, Owned, Elsewhere, NEW i \in Id, Passing(i)
  PROVE  Passing(i)'
<1>0. th \in [Thread -> ThreadState] /\ inputQueue \in Seq(Id)
  BY DEF Typed, TypeOK
<1>1. UNCHANGED passed
  BY DEF Elsewhere, Arrive, Consume, SetPauseInput, StopRunning, StopStep, StopInputQueue,
         StopSignal, StopJoin, CloseOut, outVars
<1>2. th' = th \/ th' = Signalled(th)
  BY DEF Elsewhere, Arrive, Consume, SetPauseInput, StopRunning, StopStep, StopInputQueue,
         StopSignal, StopJoin, CloseOut
<1>3. th' \in [Thread -> ThreadState]
  BY <1>0, <1>2, Woken
<1>4. ASSUME NEW u \in Thread
      PROVE  /\ Waits(th'[u], i) <=> Waits(th[u], i)
             /\ th'[u].r = th[u].r /\ th'[u].qf >= th[u].qf
  <2>1. SameContent(u) /\ th'[u].qf = th[u].qf
    BY <1>0, <1>2, Woken, WokenMarks DEF SameContent
  <2>2. th[u] \in ThreadState
    BY <1>0
  <2>3. th[u].qf \in Nat
    BY <2>2 DEF ThreadState
  <2>4. QED
    BY <2>1, <2>3 DEF SameContent, Waits
<1>5. i \in fresh' \/ In(i, inputQueue') => i \in fresh \/ In(i, inputQueue)
  <2>1. ASSUME NEW x \in Id, Arrive(x) PROVE i \in fresh' \/ In(i, inputQueue') => i \in fresh \/ In(i, inputQueue)
    <3>1. x \in fresh /\ fresh' = fresh \ {x} /\ inputQueue' = Append(inputQueue, x)
      BY <2>1 DEF Arrive
    <3>2. In(i, inputQueue') <=> In(i, inputQueue) \/ i = x
      BY <1>0, <3>1, Grown
    <3>3. QED
      BY <3>1, <3>2
  <2>2. CASE ~\E x \in Id : Arrive(x)
    <3>1. fresh' = fresh /\ (inputQueue' = inputQueue \/ inputQueue' = <<>>)
      BY <2>2 DEF Elsewhere, Consume, SetPauseInput, StopRunning, StopStep, StopInputQueue,
           StopSignal, StopJoin, CloseOut, inVars
    <3>2. ~In(i, <<>>)
      BY DEF In
    <3>3. QED
      BY <3>1, <3>2
  <2>3. QED
    BY <2>1, <2>2
<1>6. QED
  BY <1>0, <1>1, <1>3, <1>4, <1>5, PassingKept

LEMMA InitPassing ==
  ASSUME Init, NEW i \in Id
  PROVE  Passing(i)
<1>1. Unseen(i) /\ \A f \in Filter : passed[f][i] <= 1
  BY DEF Init, Unseen
<1>2. QED
  BY <1>1 DEF Passing, Ahead, Unseen

LEMMA NextPassing ==
  ASSUME Typed, Owned, Orderly, [Next]_vars, NEW i \in Id, Passing(i)
  PROVE  Passing(i)'
<1>1. CASE Next
  BY <1>1, Steps, MovesPassing, ReadingPassing, QueuePassing, MultiPassing, ElsewherePassing
<1>2. CASE UNCHANGED vars
  BY <1>2 DEF vars, Passing, Unseen, Ahead, Waits, In
<1>3. QED
  BY <1>1, <1>2

\* Where a refused resource is not offered again (no MULTI module, or no limits)
\* a filter passes a resource or its copy on once, for any number of threads,
\* filters and resources and with Stop at any time.
THEOREM Once == Spec => [](Unhindered => PassedOnce)
<1> DEFINE Inv == Typed /\ Owned /\ (Unhindered => Orderly /\ \A i \in Id : Passing(i))
<1>1. Init => Inv
  BY InitTyped, InitOwned, InitOrderly, InitPassing
<1>2. Inv /\ NotOverloaded /\ [Next]_vars => Inv'
  <2> SUFFICES ASSUME Inv, NotOverloaded, [Next]_vars PROVE Inv'
    OBVIOUS
  <2>1. Typed' /\ Owned'
    BY NextTyped, NextOwned
  <2>2. ASSUME Unhindered PROVE Orderly' /\ \A i \in Id : Passing(i)'
    BY <2>2, NextOrderly, NextPassing
  <2>3. QED
    BY <2>1, <2>2 DEF Unhindered
<1>3. Inv => (Unhindered => PassedOnce)
  BY DEF PassedOnce, Passing
<1> HIDE DEF Inv
<1>4. QED
  BY <1>1, <1>2, <1>3, Loads, PTL DEF Spec

(***************************************************************************)
(* What the threads have with them, while the processor runs.              *)
(***************************************************************************)
\* A sequence is its head and its tail.
LEMMA HeadRest ==
  ASSUME NEW s \in Seq(Id), s # <<>>
  PROVE  \A y : In(y, s) <=> In(y, Tail(s)) \/ y = Head(s)
<1>1. /\ Len(s) \in Nat \ {0} /\ Len(Tail(s)) = Len(s) - 1 /\ Head(s) = s[1] /\ 1 \in 1..Len(s)
      /\ \A k \in 1..Len(Tail(s)) : Tail(s)[k] = s[k + 1] /\ k + 1 \in 1..Len(s)
  OBVIOUS
<1>2. ASSUME NEW k \in 1..Len(s), k # 1 PROVE \E m \in 1..Len(Tail(s)) : Tail(s)[m] = s[k]
  <2>1. k - 1 \in 1..Len(Tail(s)) /\ (k - 1) + 1 = k
    BY <1>1, <1>2
  <2>2. QED
    BY <1>1, <2>1
<1>3. QED
  BY <1>1, <1>2 DEF In

LEMMA CarriesHas ==
  ASSUME NEW t \in Thread, NEW i \in Id
  PROVE  Carries(t, i) <=> th[t].at # "ended" /\ Has(th[t], i)
  BY DEF Carries, Has

LEMMA CarriesHasNext ==
  ASSUME NEW t \in Thread, NEW i \in Id
  PROVE  Carries(t, i)' <=> th'[t].at # "ended" /\ Has(th'[t], i)
  BY DEF Carries, Has, In

\* Thread t takes a step: what the others carry stays.
LEMMA CarriedStep ==
  ASSUME NEW t \in Thread, Others(t), NEW i \in Id
  PROVE  /\ i \in Carried <=> Carries(t, i) \/ \E u \in Thread \ {t} : Carries(u, i)
         /\ i \in Carried' <=> Carries(t, i)' \/ \E u \in Thread \ {t} : Carries(u, i)
<1>1. ASSUME NEW u \in Thread \ {t} PROVE Carries(u, i)' <=> Carries(u, i)
  BY <1>1, CarriesHas, CarriesHasNext DEF Others
<1>2. i \in Carried' <=> \E u \in Thread : Carries(u, i)'
  BY DEF Carried
<1>3. QED
  BY <1>1, <1>2 DEF Carried

LEMMA CarriedSame ==
  ASSUME NEW t \in Thread, Others(t), \A i \in Id : Carries(t, i)' <=> Carries(t, i)
  PROVE  Carried' = Carried
<1>1. Carried \subseteq Id /\ Carried' \subseteq Id
  BY DEF Carried
<1>2. \A i \in Id : i \in Carried' <=> i \in Carried
  BY CarriedStep
<1>3. QED
  BY <1>1, <1>2

\* A thread that ends while the processor runs has nothing with it.
LEMMA EndsEmpty ==
  ASSUME Typed, Orderly, running, NEW t \in Thread, Moves(t), th'[t].at = "ended", NEW i \in Id
  PROVE  ~Has(th[t], i)
<1>0. th \in [Thread -> ThreadState] /\ Tidy(th[t], running) /\ Emptied(th[t]) /\ Open
  BY DEF Typed, TypeOK, Orderly
<1>1. th[t] \in ThreadState
  BY <1>0
<1>2. PICK a \in Place, m \in Int, n \in Nat : Walks(t, a, m, n) /\ Path(t, a, m, n)
  BY <1>0, MovesWalk
<1>3. a = "ended"
  BY <1>2 DEF Walks
<1>4. ~TakeNone(t)
  <2>1. SUFFICES ASSUME TakeNone(t) PROVE FALSE
    OBVIOUS
  <2>2. th'[t].at = IF Blocks(t) THEN "ended" ELSE AfterRead
    BY <1>0, <1>1, <2>1 DEF TakeNone, Goto, ThreadState
  <2>3. ~Blocks(t)
    BY <1>0, <2>1 DEF TakeNone, Open
  <2>4. QED
    BY <2>2, <2>3 DEF AfterRead
<1>5. ~PauseBack(t) /\ ~Top(t)
  <2>1. ASSUME PauseBack(t) \/ Top(t) PROVE FALSE
    <3>1. th'[t].at = "pauseLock" \/ th'[t].at = "read"
      BY <1>0, <1>1, <2>1 DEF PauseBack, Top, Goto, ThreadState
    <3>2. QED
      BY <3>1
  <2>2. QED
    BY <2>1
<1>6. ~After(t)
  <2>1. SUFFICES ASSUME After(t) PROVE FALSE
    OBVIOUS
  <2>2. th[t].mout = <<>>
    BY <1>0, <2>1 DEF After, At, Tidy
  <2>3. th'[t].at = "flush"
    <3>1. CASE HasMulti
      <4>1. th'[t] = [th[t] EXCEPT !.at = "flush"]
        BY <1>0, <2>1, <2>2, <3>1 DEF After
      <4>2. QED
        BY <1>1, <4>1 DEF ThreadState
    <3>2. CASE ~HasMulti
      <4>1. th'[t] = [th[t] EXCEPT !.at = "flush", !.block = TRUE, !.readMax = 1]
        BY <1>0, <2>1, <3>2 DEF After
      <4>2. QED
        BY <1>1, <4>1 DEF ThreadState
    <3>3. QED
      BY <3>1, <3>2
  <2>4. QED
    BY <2>3
<1>7. th[t].at # "ended"
  BY DEF Moves, Top, ReadEnd, TakeNone, PauseGate, PauseBack, PauseAgain, InputNone,
     SpuriousWakeup, After, Flush, FlushPop, QueueSkip, QueueCopy, Queueing, MayRead, At
<1>8. InputNone(t)
  BY <1>2, <1>3, <1>4, <1>5, <1>6, <1>7 DEF Path, AfterRead
<1>9. th[t].at = "input" /\ Blocks(t)
  <2>1. th'[t].at = IF Blocks(t) THEN "ended" ELSE AfterRead
    BY <1>0, <1>1, <1>8 DEF InputNone, Goto, ThreadState
  <2>2. QED
    BY <1>8, <2>1 DEF InputNone, AfterRead, At
<1>10. /\ th[t].min = <<>> /\ th[t].held = <<>> /\ th[t].mout = <<>>
       /\ th[t].r = NoId /\ th[t].pending = NoId
  BY <1>0, <1>9 DEF Blocks, Emptied, Tidy, Reading
<1>11. ~In(i, <<>>) /\ i # NoId
  BY ProcessorAssumption DEF In
<1>12. QED
  BY <1>10, <1>11 DEF Has

LEMMA MovesCarried ==
  ASSUME Typed, Orderly, running, NEW t \in Thread, Moves(t)
  PROVE  Carried' = Carried
<1>0. Others(t) /\ SameContent(t)
  BY MovesTyped
<1>1. th[t].at # "ended"
  BY DEF Moves, Top, ReadEnd, TakeNone, PauseGate, PauseBack, PauseAgain, InputNone,
     SpuriousWakeup, After, Flush, FlushPop, QueueSkip, QueueCopy, Queueing, MayRead, At
<1>2. ASSUME NEW i \in Id PROVE Carries(t, i)' <=> Carries(t, i)
  <2>1. Has(th'[t], i) <=> Has(th[t], i)
    BY <1>0 DEF Has, SameContent
  <2>2. th'[t].at = "ended" => ~Has(th[t], i)
    BY EndsEmpty
  <2>3. QED
    BY <1>1, <2>1, <2>2, CarriesHas, CarriesHasNext
<1>3. QED
  BY <1>0, <1>2, CarriedSame

\* The threads take x.
Gains(x) == x \notin Carried /\ Carried' = Carried \cup {x}

LEMMA AcceptedCarried ==
  ASSUME Typed, Owned, Orderly, NEW t \in Thread, NEW x \in Id, NEW n \in Nat, Apply(t, x, n),
         x \in fresh \/ In(x, inputQueue), th[t].at \in Reading
  PROVE  Gains(x)
<1>0. /\ th \in [Thread -> ThreadState] /\ th[t].min \in Seq(Id) /\ Owner(x)
      /\ th[t].r = NoId /\ NoId \notin Id /\ th[t].at # "ended"
  <2>1. th \in [Thread -> ThreadState] /\ Owner(x) /\ Tidy(th[t], running)
    BY DEF Typed, TypeOK, Owned, Orderly
  <2>2. th[t] \in ThreadState
    BY <2>1
  <2>3. th[t].min \in Seq(Id)
    BY <2>2 DEF ThreadState
  <2>4. QED
    BY <2>1, <2>3, ProcessorAssumption DEF Tidy, Reading
<1>1. Accepted(t, x, n)
  BY <1>0, Applied
<1>2. /\ Others(t) /\ th'[t].pending = th[t].pending /\ th'[t].held = th[t].held
      /\ th'[t].mout = th[t].mout /\ th'[t].at # "ended"
  BY <1>1 DEF Accepted
<1>3. ASSUME NEW i \in Id PROVE Has(th'[t], i) <=> Has(th[t], i) \/ i = x
  <2>1. CASE HasMulti
    <3>1. th'[t].min = Append(th[t].min, x) /\ th'[t].r = th[t].r
      BY <1>1, <2>1 DEF Accepted
    <3>2. In(i, th'[t].min) <=> In(i, th[t].min) \/ i = x
      BY <1>0, <3>1, Grown
    <3>3. QED
      BY <1>2, <3>1, <3>2 DEF Has
  <2>2. CASE ~HasMulti
    <3>1. th'[t].min = th[t].min /\ th'[t].r = x
      BY <1>1, <2>2 DEF Accepted
    <3>2. QED
      BY <1>0, <1>2, <3>1 DEF Has
  <2>3. QED
    BY <2>1, <2>2
<1>4. x \notin Carried
  <2>1. \A u \in Thread : ~Has(th[u], x)
    BY <1>0 DEF Owner
  <2>2. QED
    BY <2>1, CarriesHas DEF Carried
<1>5. ASSUME NEW i \in Id PROVE i \in Carried' <=> i \in Carried \/ i = x
  <2>1. Carries(t, i)' <=> Carries(t, i) \/ i = x
    BY <1>0, <1>2, <1>3, CarriesHas, CarriesHasNext
  <2>2. QED
    BY <1>2, <2>1, CarriedStep
<1>6. Carried \subseteq Id /\ Carried' \subseteq Id
  BY DEF Carried
<1>7. QED
  BY <1>4, <1>5, <1>6 DEF Gains

LEMMA ReadingCarried ==
  ASSUME Typed, Owned, Orderly, NEW t \in Thread
  PROVE  /\ Take(t) => IF Head(inputQueue) \in Doomed THEN Carried' = Carried
                                                     ELSE Gains(Head(inputQueue))
         /\ \A x \in Id : Input(t, x) => IF x \in Doomed THEN Carried' = Carried ELSE Gains(x)
<1>0. th \in [Thread -> ThreadState] /\ inputQueue \in Seq(Id)
  BY DEF Typed, TypeOK
<1>1. ASSUME Take(t)
      PROVE  IF Head(inputQueue) \in Doomed THEN Carried' = Carried ELSE Gains(Head(inputQueue))
  <2>0. inputQueue # <<>> /\ th[t].at \in Reading /\ th[t].at # "ended"
    BY <1>1 DEF Take, MayRead, At, Reading
  <2>1. Head(inputQueue) \in Id /\ In(Head(inputQueue), inputQueue)
    BY <1>0, <2>0, Rest
  <2>2. CASE Head(inputQueue) \in Doomed
    <3>1. th' = [th EXCEPT ![t].at = AfterRead]
      BY <1>1, <2>2, SMTT(30) DEF Take, Goto
    <3>2. Walks(t, AfterRead, th[t].readMax, th[t].nread)
      BY <1>0, <3>1, Walked DEF AfterRead, Place
    <3>3. Others(t) /\ SameContent(t) /\ th'[t].at # "ended"
      BY <3>2 DEF Walks, AfterRead
    <3>4. \A i \in Id : Has(th'[t], i) <=> Has(th[t], i)
      BY <3>3 DEF Has, SameContent
    <3>5. \A i \in Id : Carries(t, i)' <=> Carries(t, i)
      BY <2>0, <3>3, <3>4, CarriesHas, CarriesHasNext
    <3>6. QED
      BY <2>2, <3>3, <3>5, CarriedSame
  <2>3. CASE Head(inputQueue) \notin Doomed
    <3>1. Apply(t, Head(inputQueue), 2) /\ 2 \in Nat
      BY <1>1, <2>3 DEF Take
    <3>2. QED
      BY <2>0, <2>1, <2>3, <3>1, AcceptedCarried
  <2>4. QED
    BY <2>2, <2>3
<1>2. ASSUME NEW x \in Id, Input(t, x)
      PROVE  IF x \in Doomed THEN Carried' = Carried ELSE Gains(x)
  <2>0. x \in fresh /\ th[t].at \in Reading
    BY <1>2 DEF Input, At, Reading
  <2>1. CASE x \in Doomed
    <3>1. th' = th
      BY <1>2, <2>1 DEF Input
    <3>2. \A i \in Id : Carries(t, i)' <=> Carries(t, i)
      BY <3>1, CarriesHas, CarriesHasNext
    <3>3. QED
      BY <2>1, <3>1, <3>2, CarriedSame DEF Others
  <2>2. CASE x \notin Doomed
    <3>1. Apply(t, x, 1) /\ 1 \in Nat
      BY <1>2, <2>2 DEF Input
    <3>2. QED
      BY <2>0, <2>2, <3>1, AcceptedCarried
  <2>3. QED
    BY <2>1, <2>2
<1>3. QED
  BY <1>1, <1>2

\* QueueResource gives up c.
Loses(c) == c \in Carried /\ Carried' = Carried \ {c}

LEMMA QueueCarried ==
  ASSUME Typed, Owned, Orderly, NEW t \in Thread, QueuePut(t) \/ QueueDrop(t)
  PROVE  Loses(Current(t))
<1>0. /\ th \in [Thread -> ThreadState] /\ Queueing(t) /\ th[t].at # "qpend"
      /\ th' = [th EXCEPT ![t] = QueuedNext(t)] /\ Apart(th[t])
  BY DEF Typed, TypeOK, Orderly, Tidy, Owned, QueuePut, QueueDrop
<1>1. PICK c \in Id : c = Current(t)
  BY <1>0, CurrentId
<1>2. /\ Released(t) /\ th'[t].r = NoId /\ th'[t].pending = th[t].pending
      /\ th'[t].at # "ended"
  BY <1>0, Queued
<1>3. c = th[t].r /\ th[t].at # "ended" /\ Owner(c) /\ NoId \notin Id
  BY <1>0, <1>1, ProcessorAssumption DEF Current, At, Queueing, Owned
<1>4. /\ Others(t) /\ th'[t].min = th[t].min /\ th'[t].held = th[t].held
      /\ th'[t].mout = th[t].mout
  BY <1>2 DEF Released
<1>5. ASSUME NEW i \in Id PROVE Has(th'[t], i) <=> Has(th[t], i) /\ i # c
  BY <1>0, <1>2, <1>3, <1>4 DEF Apart, Has
<1>6. \A u \in Thread \ {t} : ~Carries(u, c)
  <2>1. Has(th[t], c)
    BY <1>3 DEF Has
  <2>2. \A u \in Thread \ {t} : ~Has(th[u], c)
    BY <1>3, <2>1 DEF Owner
  <2>3. QED
    BY <2>2, CarriesHas
<1>7. ASSUME NEW i \in Id PROVE i \in Carried' <=> i \in Carried /\ i # c
  <2>1. Carries(t, i)' <=> Carries(t, i) /\ i # c
    BY <1>2, <1>3, <1>5, CarriesHas, CarriesHasNext
  <2>2. QED
    BY <1>4, <1>6, <2>1, CarriedStep
<1>8. c \in Carried
  <2>1. Carries(t, c)
    BY <1>3, CarriesHas DEF Has
  <2>2. QED
    BY <2>1 DEF Carried
<1>9. Carried \subseteq Id /\ Carried' \subseteq Id
  BY DEF Carried
<1>10. QED
  BY <1>1, <1>7, <1>8, <1>9 DEF Loses

LEMMA MultiCarried ==
  ASSUME Typed, Owned, Orderly, NEW t \in Thread, Multi(t) \/ Out(t)
  PROVE  Carried' = Carried
<1>0. /\ th \in [Thread -> ThreadState] /\ th[t].at \in {"multi", "out"} /\ th[t].at # "ended"
      /\ th[t].mout \in Seq(Id) /\ th[t].r = NoId /\ NoId \notin Id
  <2>1. th \in [Thread -> ThreadState] /\ th[t].at \in {"multi", "out"} /\ Tidy(th[t], running)
    BY DEF Typed, TypeOK, Orderly, Multi, Out, At
  <2>2. th[t] \in ThreadState
    BY <2>1
  <2>3. th[t].mout \in Seq(Id)
    BY <2>2 DEF ThreadState
  <2>4. QED
    BY <2>1, <2>3, ProcessorAssumption DEF Tidy
<1>1. ASSUME Others(t), th'[t].at # "ended", \A i \in Id : Has(th'[t], i) <=> Has(th[t], i)
      PROVE  Carried' = Carried
  <2>1. \A i \in Id : Carries(t, i)' <=> Carries(t, i)
    BY <1>0, <1>1, CarriesHas, CarriesHasNext
  <2>2. QED
    BY <1>1, <2>1, CarriedSame
<1>2. CASE Multi(t)
  <2>1. PICK k \in Nat, b \in Nat : Fed(t, k, b)
    BY <1>0, <1>2, MultiFeeds
  <2>2. Others(t) /\ th'[t].at # "ended"
    BY <2>1 DEF Fed
  <2>3. QED
    BY <1>1, <1>2, <2>2, MultiKeeps
<1>3. CASE Out(t)
  <2>1. CASE Walks(t, "after", th[t].readMax, th[t].nread)
    <3>1. Others(t) /\ th'[t].at # "ended" /\ \A i \in Id : Has(th'[t], i) <=> Has(th[t], i)
      BY <2>1 DEF Walks, SameContent, Has
    <3>2. QED
      BY <1>1, <3>1
  <2>2. CASE Fetched(t)
    <3>1. /\ Others(t) /\ th'[t].min = th[t].min /\ th'[t].held = th[t].held
          /\ th'[t].r = Head(th[t].mout) /\ th'[t].mout = Tail(th[t].mout)
          /\ th[t].mout # <<>> /\ th'[t].pending = th[t].pending /\ th'[t].at # "ended"
      BY <2>2 DEF Fetched
    <3>2. \A i : In(i, th[t].mout) <=> In(i, th'[t].mout) \/ i = th'[t].r
      BY <1>0, <3>1, HeadRest
    <3>3. \A i \in Id : Has(th'[t], i) <=> Has(th[t], i)
      BY <1>0, <3>1, <3>2 DEF Has
    <3>4. QED
      BY <1>1, <3>1, <3>3
  <2>3. QED
    BY <1>0, <1>3, <2>1, <2>2, OutTakes
<1>4. QED
  BY <1>2, <1>3

LEMMA ElsewhereCarried ==
  ASSUME Typed, Elsewhere
  PROVE  Carried' = Carried
<1>0. th \in [Thread -> ThreadState]
  BY DEF Typed, TypeOK
<1>1. th' = th \/ th' = Signalled(th)
  BY DEF Elsewhere, Arrive, Consume, SetPauseInput, StopRunning, StopStep, StopInputQueue,
         StopSignal, StopJoin, CloseOut
<1>2. ASSUME NEW u \in Thread, NEW i \in Id PROVE Carries(u, i)' <=> Carries(u, i)
  <2>1. SameContent(u) /\ (th'[u].at = "ended" <=> th[u].at = "ended")
    BY <1>0, <1>1, Woken DEF SameContent
  <2>2. Has(th'[u], i) <=> Has(th[u], i)
    BY <2>1 DEF Has, SameContent
  <2>3. QED
    BY <2>1, <2>2, CarriesHas, CarriesHasNext
<1>3. Carried' = {i \in Id : \E t \in Thread : Carries(t, i)'}
  BY DEF Carried
<1>4. QED
  BY <1>2, <1>3 DEF Carried

(***************************************************************************)
(* Configurations in which no two threads share deletedResources, and in   *)
(* which a resource is counted before it can be marked as deleted.         *)
(***************************************************************************)
Alone == Doomed = {} \/ (~HasInput /\ \A t, u \in Thread : t = u)

\* The threads between the two steps that hand a deleted resource on.
Popping == {t \in Thread : At(t, "flushPop")}

Flushing ==
  /\ \A i \in Id : In(i, deletedResources) => i \in Doomed
  /\ \A t \in Thread : th[t].at = "flushPop" =>
       deletedResources # <<>> /\ gone[Head(deletedResources)] > 0

\* The steps of thread t outside the loop that empties deletedResources.
Aside(t) ==
  \/ Moves(t) /\ ~Flush(t) /\ ~FlushPop(t)
  \/ Take(t) \/ (\E i \in Id : Input(t, i)) \/ QueuePut(t) \/ QueueDrop(t) \/ QueueRefused(t)
  \/ Multi(t) \/ Out(t)

LEMMA AsideQuiet ==
  ASSUME Typed, Orderly, NEW t \in Thread, Aside(t)
  PROVE  Others(t) /\ th[t].at # "flushPop" /\ th'[t].at # "flushPop" /\ UNCHANGED gone
<1>0. th \in [Thread -> ThreadState] /\ Tidy(th[t], running) /\ inputQueue \in Seq(Id)
  BY DEF Typed, TypeOK, Orderly
<1>1. CASE Moves(t) /\ ~Flush(t) /\ ~FlushPop(t)
  <2>1. PICK a \in Place, m \in Int, n \in Nat : Walks(t, a, m, n) /\ Path(t, a, m, n)
    BY <1>0, <1>1, MovesWalk
  <2>2. Others(t) /\ th'[t].at = a
    BY <2>1 DEF Walks
  <2>3. th[t].at # "flushPop"
    BY <1>1 DEF Moves, Top, ReadEnd, TakeNone, PauseGate, PauseBack, PauseAgain, InputNone,
       SpuriousWakeup, After, QueueSkip, QueueCopy, Queueing, MayRead, At
  <2>4. a # "flushPop"
    BY <1>1, <2>1, <2>3 DEF Path, AfterRead
  <2>5. UNCHANGED gone
    BY <1>1 DEF Moves, Top, ReadEnd, TakeNone, PauseGate, PauseBack, PauseAgain, InputNone,
       SpuriousWakeup, After, QueueSkip, QueueCopy, delVars
  <2>6. QED
    BY <2>2, <2>3, <2>4, <2>5
<1>2. CASE Take(t) \/ \E i \in Id : Input(t, i)
  <2>1. UNCHANGED gone /\ th[t].at # "flushPop"
    BY <1>2 DEF Take, Input, MayRead, At
  <2>2. ASSUME NEW x \in Id, NEW n \in Nat, Apply(t, x, n)
        PROVE  Others(t) /\ th'[t].at # "flushPop"
    <3>1. Accepted(t, x, n)
      BY <1>0, <2>2, Applied
    <3>2. QED
      BY <3>1 DEF Accepted
  <2>3. ASSUME th' = [th EXCEPT ![t].at = AfterRead]
        PROVE  Others(t) /\ th'[t].at # "flushPop"
    <3>1. Walks(t, AfterRead, th[t].readMax, th[t].nread)
      BY <1>0, <2>3, Walked DEF AfterRead, Place
    <3>2. QED
      BY <3>1, SMTT(30) DEF Walks, AfterRead
  <2>4. CASE Take(t)
    <3>1. Head(inputQueue) \in Id
      BY <1>0, <2>4, Rest DEF Take
    <3>2. th' = [th EXCEPT ![t].at = AfterRead] \/ (Apply(t, Head(inputQueue), 2) /\ 2 \in Nat)
      BY <2>4 DEF Take, Goto
    <3>3. QED
      BY <2>1, <2>2, <2>3, <3>1, <3>2
  <2>5. ASSUME NEW x \in Id, Input(t, x) PROVE Others(t) /\ th'[t].at # "flushPop"
    <3>1. th' = th \/ (Apply(t, x, 1) /\ 1 \in Nat)
      BY <2>5 DEF Input
    <3>2. QED
      BY <2>1, <2>2, <3>1 DEF Others
  <2>6. QED
    BY <1>2, <2>1, <2>4, <2>5
<1>3. CASE QueuePut(t) \/ QueueDrop(t) \/ QueueRefused(t)
  <2>0. UNCHANGED gone /\ Queueing(t) /\ th[t].at # "flushPop"
    BY <1>3 DEF QueuePut, QueueDrop, QueueRefused, Queueing, delVars
  <2>1. CASE th' = [th EXCEPT ![t] = QueuedNext(t)]
    <3>1. Released(t) /\ th'[t].at # "flushPop"
      BY <1>0, <2>0, <2>1, Queued
    <3>2. QED
      BY <2>0, <3>1 DEF Released
  <2>2. CASE th' = [th EXCEPT ![t] = RefusedNext(t)]
    <3>1. Released(t) /\ th'[t].at # "flushPop"
      BY <1>0, <2>0, <2>2, Refused
    <3>2. QED
      BY <2>0, <3>1 DEF Released
  <2>3. QED
    BY <1>3, <2>1, <2>2 DEF QueuePut, QueueDrop, QueueRefused
<1>4. CASE Multi(t)
  <2>1. PICK k \in Nat, b \in Nat : Fed(t, k, b)
    BY <1>0, <1>4, MultiFeeds
  <2>2. Others(t) /\ th'[t].at # "flushPop"
    BY <2>1 DEF Fed
  <2>3. QED
    BY <1>4, <2>2 DEF Multi, At, delVars
<1>5. CASE Out(t)
  <2>1. Others(t) /\ th'[t].at # "flushPop"
    <3>1. CASE Walks(t, "after", th[t].readMax, th[t].nread)
      BY <3>1 DEF Walks
    <3>2. CASE Fetched(t)
      BY <3>2 DEF Fetched
    <3>3. QED
      BY <1>0, <1>5, <3>1, <3>2, OutTakes
  <2>2. QED
    BY <1>5, <2>1 DEF Out, At, delVars
<1>6. QED
  BY <1>1, <1>2, <1>3, <1>4, <1>5 DEF Aside

\* What the loop does.
LEMMA FlushSteps ==
  ASSUME Typed, Flushing, NEW t \in Thread
  PROVE  /\ Flush(t) => /\ Others(t) /\ th[t].at = "flush" /\ UNCHANGED deletedResources
                        /\ \/ th'[t].at = "top" /\ UNCHANGED <<gone, resourceCount>>
                           \/ /\ th'[t].at = "flushPop" /\ deletedResources # <<>>
                              /\ gone' = [gone EXCEPT ![Head(deletedResources)] = @ + 1]
                              /\ resourceCount' = resourceCount - 1
         /\ FlushPop(t) => /\ Others(t) /\ th[t].at = "flushPop" /\ th'[t].at = "flush"
                           /\ deletedResources # <<>> /\ UNCHANGED <<gone, resourceCount>>
                           /\ deletedResources' = Tail(deletedResources)
<1>0. th \in [Thread -> ThreadState] /\ "top" \in Place /\ "flush" \in Place /\ "flushPop" \in Place
  BY DEF Typed, TypeOK, Place
<1>1. ASSUME NEW a \in Place, \/ th' = [th EXCEPT ![t].at = a]
                              \/ th' = [th EXCEPT ![t].at = a, ![t].readMax = 0]
      PROVE  Others(t) /\ th'[t].at = a
  <2>1. Walks(t, a, th[t].readMax, th[t].nread) \/ Walks(t, a, 0, th[t].nread)
    BY <1>0, <1>1, Walked
  <2>2. QED
    BY <2>1 DEF Walks
<1>2. ASSUME Flush(t)
      PROVE  /\ Others(t) /\ th[t].at = "flush" /\ UNCHANGED deletedResources
             /\ \/ th'[t].at = "top" /\ UNCHANGED <<gone, resourceCount>>
                \/ /\ th'[t].at = "flushPop" /\ deletedResources # <<>>
                   /\ gone' = [gone EXCEPT ![Head(deletedResources)] = @ + 1]
                   /\ resourceCount' = resourceCount - 1
  <2>1. th[t].at = "flush" /\ UNCHANGED deletedResources
    BY <1>2 DEF Flush, At
  <2>2. CASE deletedResources = <<>>
    <3>1. th' = [th EXCEPT ![t].at = "top"] /\ UNCHANGED <<gone, resourceCount>>
      BY <1>2, <2>2 DEF Flush, Goto
    <3>2. QED
      BY <1>0, <1>1, <2>1, <3>1
  <2>3. CASE deletedResources # <<>> /\ EngineQueue /\ (outClosed \/ \E f \in ToEngine : ~HasSpace(f))
    <3>1. th' = [th EXCEPT ![t].at = "top", ![t].readMax = 0] /\ UNCHANGED <<gone, resourceCount>>
      BY <1>2, <2>3 DEF Flush
    <3>2. QED
      BY <1>0, <1>1, <2>1, <3>1
  <2>4. CASE deletedResources # <<>> /\ ~(EngineQueue /\ (outClosed \/ \E f \in ToEngine : ~HasSpace(f)))
    <3>1. /\ th' = [th EXCEPT ![t].at = "flushPop"] /\ resourceCount' = resourceCount - 1
          /\ gone' = [gone EXCEPT ![Head(deletedResources)] = @ + 1]
      BY <1>2, <2>4 DEF Flush, Goto
    <3>2. QED
      BY <1>0, <1>1, <2>1, <2>4, <3>1
  <2>5. QED
    BY <2>2, <2>3, <2>4
<1>3. ASSUME FlushPop(t)
      PROVE  /\ Others(t) /\ th[t].at = "flushPop" /\ th'[t].at = "flush"
             /\ deletedResources # <<>> /\ UNCHANGED <<gone, resourceCount>>
             /\ deletedResources' = Tail(deletedResources)
  <2>1. th[t].at = "flushPop" /\ deletedResources # <<>>
    BY <1>3 DEF FlushPop, At, Flushing
  <2>2. /\ th' = [th EXCEPT ![t].at = "flush"] /\ deletedResources' = Tail(deletedResources)
        /\ UNCHANGED <<gone, resourceCount>>
    BY <1>3, <2>1 DEF FlushPop, Goto
  <2>3. QED
    BY <1>0, <1>1, <2>1, <2>2
<1>4. QED
  BY <1>2, <1>3

\* A resource that is marked as deleted comes from the queue, and the thread
\* that marks it is the only one.
LEMMA Marked ==
  ASSUME Alone, Typed, Orderly, NEW t \in Thread, Aside(t)
  PROVE  \/ UNCHANGED deletedResources
         \/ /\ Take(t) /\ Head(inputQueue) \in Doomed /\ inputQueue # <<>>
            /\ deletedResources' = Append(deletedResources, Head(inputQueue))
            /\ \A u \in Thread : u = t
<1>1. ASSUME NEW x \in Id, Input(t, x) PROVE UNCHANGED deletedResources
  <2>1. HasInput
    BY <1>1 DEF Input, At, Orderly, Tidy
  <2>2. QED
    BY <1>1, <2>1 DEF Input, Alone
<1>2. CASE Take(t)
  <2>1. CASE Head(inputQueue) \in Doomed
    BY <1>2, <2>1 DEF Take, Alone
  <2>2. CASE Head(inputQueue) \notin Doomed
    BY <1>2, <2>2, SMTT(30) DEF Take
  <2>3. QED
    BY <2>1, <2>2
<1>3. CASE ~Take(t) /\ ~\E i \in Id : Input(t, i)
  BY <1>3 DEF Aside, Moves, Top, ReadEnd, TakeNone, PauseGate, PauseBack, PauseAgain, InputNone,
     SpuriousWakeup, After, QueueSkip, QueueCopy, QueuePut, QueueDrop, QueueRefused, Multi, Out,
     delVars
<1>4. QED
  BY <1>1, <1>2, <1>3

LEMMA NextFlushing ==
  ASSUME Alone, Typed, Orderly, Flushing, Next
  PROVE  Flushing'
<1>0. deletedResources \in Seq(Id) /\ gone \in [Id -> Nat] /\ inputQueue \in Seq(Id)
      /\ th \in [Thread -> ThreadState]
  BY DEF Typed, TypeOK
<1>1. ASSUME NEW t \in Thread, Aside(t) PROVE Flushing'
  <2>1. Others(t) /\ th'[t].at # "flushPop" /\ UNCHANGED gone
    BY <1>1, AsideQuiet
  <2>2. CASE UNCHANGED deletedResources
    BY <2>1, <2>2 DEF Flushing, Others, In
  <2>3. CASE ~(UNCHANGED deletedResources)
    <3>1. PICK x \in Id : /\ x = Head(inputQueue) /\ x \in Doomed
                          /\ deletedResources' = Append(deletedResources, x)
                          /\ \A u \in Thread : u = t
      BY <1>0, <1>1, <2>3, Marked, Rest
    <3>2. \A i : In(i, deletedResources') <=> In(i, deletedResources) \/ i = x
      BY <1>0, <3>1, Grown
    <3>3. \A i \in Id : In(i, deletedResources') => i \in Doomed
      BY <3>1, <3>2 DEF Flushing
    <3>4. \A u \in Thread : th'[u].at # "flushPop"
      BY <2>1, <3>1
    <3>5. QED
      BY <3>3, <3>4, Zenon DEF Flushing, In
  <2>4. QED
    BY <2>2, <2>3
<1>2. ASSUME NEW t \in Thread, Flush(t) PROVE Flushing'
  <2>1. /\ Others(t) /\ th[t].at = "flush" /\ UNCHANGED deletedResources
        /\ \/ th'[t].at = "top" /\ UNCHANGED gone
           \/ /\ th'[t].at = "flushPop" /\ deletedResources # <<>>
              /\ gone' = [gone EXCEPT ![Head(deletedResources)] = @ + 1]
    BY <1>2, FlushSteps
  <2>2. \A i \in Id : In(i, deletedResources') => i \in Doomed
    BY <2>1 DEF Flushing
  <2>3. CASE th'[t].at = "top" /\ UNCHANGED gone
    <3>1. \A u \in Thread : th'[u].at = "flushPop" => th[u].at = "flushPop"
      BY <2>1, <2>3 DEF Others
    <3>2. \A u \in Thread : th'[u].at = "flushPop" =>
            deletedResources' # <<>> /\ gone'[Head(deletedResources')] > 0
      BY <2>1, <2>3, <3>1 DEF Flushing
    <3>3. QED
      BY <2>2, <3>2, Zenon DEF Flushing, In
  <2>4. CASE /\ deletedResources # <<>>
             /\ gone' = [gone EXCEPT ![Head(deletedResources)] = @ + 1]
    <3>1. PICK h \in Id : h = Head(deletedResources)
      BY <1>0, <2>4, Rest
    <3>2. gone'[h] > 0
      BY <1>0, <2>4, <3>1
    <3>3. deletedResources' # <<>> /\ gone'[Head(deletedResources')] > 0
      BY <2>1, <2>4, <3>1, <3>2
    <3>4. QED
      BY <2>2, <3>3, Zenon DEF Flushing, In
  <2>5. QED
    BY <2>1, <2>3, <2>4
<1>3. ASSUME NEW t \in Thread, FlushPop(t) PROVE Flushing'
  <2>1. /\ Others(t) /\ th'[t].at = "flush" /\ deletedResources # <<>>
        /\ deletedResources' = Tail(deletedResources)
    BY <1>3, FlushSteps
  <2>2. /\ Head(deletedResources) \in Id /\ In(Head(deletedResources), deletedResources)
        /\ \A i : In(i, deletedResources') => In(i, deletedResources)
    BY <1>0, <2>1, Rest
  <2>3. \A u \in Thread : u = t
    BY <2>2 DEF Flushing, Alone
  <2>4. \A u \in Thread : th'[u].at # "flushPop"
    BY <2>1, <2>3
  <2>5. \A i \in Id : In(i, deletedResources') => i \in Doomed
    BY <2>2 DEF Flushing
  <2>6. QED
    BY <2>4, <2>5, Zenon DEF Flushing, In
<1>4. CASE Elsewhere
  <2>1. UNCHANGED <<deletedResources, gone>>
    BY <1>4 DEF Elsewhere, Arrive, Consume, SetPauseInput, StopRunning, StopStep, StopInputQueue,
       StopSignal, StopJoin, CloseOut, delVars
  <2>2. th' = th \/ th' = Signalled(th)
    BY <1>4 DEF Elsewhere, Arrive, Consume, SetPauseInput, StopRunning, StopStep, StopInputQueue,
       StopSignal, StopJoin, CloseOut
  <2>3. \A u \in Thread : th'[u].at = "flushPop" => th[u].at = "flushPop"
    BY <1>0, <2>2, Woken
  <2>4. QED
    BY <2>1, <2>3 DEF Flushing, In
<1>5. QED
  BY <1>1, <1>2, <1>3, <1>4, Steps DEF Aside

\* Which threads are in the middle of the loop.
LEMMA PoppingSteps ==
  ASSUME Typed, Orderly, Flushing, NEW t \in Thread
  PROVE  /\ Aside(t) => Popping' = Popping
         /\ Flush(t) => \/ Popping' = Popping /\ UNCHANGED resourceCount
                        \/ /\ t \notin Popping /\ Popping' = Popping \cup {t}
                           /\ resourceCount' = resourceCount - 1
         /\ FlushPop(t) => t \in Popping /\ Popping' = Popping \ {t}
<1>1. ASSUME Others(t)
      PROVE  /\ Popping \subseteq Thread /\ Popping' \subseteq Thread
             /\ \A u \in Thread \ {t} : u \in Popping' <=> u \in Popping
             /\ t \in Popping <=> th[t].at = "flushPop"
             /\ t \in Popping' <=> th'[t].at = "flushPop"
  BY <1>1 DEF Popping, Others, At
<1>2. ASSUME Aside(t) PROVE Popping' = Popping
  <2>1. Others(t) /\ th[t].at # "flushPop" /\ th'[t].at # "flushPop"
    BY <1>2, AsideQuiet
  <2>2. QED
    BY <1>1, <2>1
<1>3. ASSUME Flush(t)
      PROVE  \/ Popping' = Popping /\ UNCHANGED resourceCount
             \/ /\ t \notin Popping /\ Popping' = Popping \cup {t}
                /\ resourceCount' = resourceCount - 1
  <2>1. /\ Others(t) /\ th[t].at = "flush"
        /\ \/ th'[t].at = "top" /\ UNCHANGED resourceCount
           \/ th'[t].at = "flushPop" /\ resourceCount' = resourceCount - 1
    BY <1>3, FlushSteps
  <2>2. CASE th'[t].at = "top" /\ UNCHANGED resourceCount
    BY <1>1, <2>1, <2>2
  <2>3. CASE th'[t].at = "flushPop" /\ resourceCount' = resourceCount - 1
    BY <1>1, <2>1, <2>3
  <2>4. QED
    BY <2>1, <2>2, <2>3
<1>4. ASSUME FlushPop(t) PROVE t \in Popping /\ Popping' = Popping \ {t}
  <2>1. Others(t) /\ th[t].at = "flushPop" /\ th'[t].at = "flush"
    BY <1>4, FlushSteps
  <2>2. QED
    BY <1>1, <2>1
<1>5. QED
  BY <1>2, <1>3, <1>4

(***************************************************************************)
(* resourceCount.                                                          *)
(***************************************************************************)
Counted ==
  running =>
    /\ IsFiniteSet(Carried) /\ IsFiniteSet(Popping)
    /\ resourceCount = Len(inputQueue) + Len(deletedResources) + downstream
                       + Cardinality(Carried) - Cardinality(Popping)

\* How many resources there are more in the queue, among the deleted ones, at
\* the other processors and with the threads, and how many threads in the loop.
Change(q, d, w, c, p) ==
  /\ Len(inputQueue') = Len(inputQueue) + q
  /\ Len(deletedResources') = Len(deletedResources) + d
  /\ downstream' = downstream + w
  /\ IsFiniteSet(Carried') /\ Cardinality(Carried') = Cardinality(Carried) + c
  /\ IsFiniteSet(Popping') /\ Cardinality(Popping') = Cardinality(Popping) + p
  /\ resourceCount' = resourceCount + (q + d + w + c - p)

LEMMA Balance ==
  ASSUME Typed, Counted, running, NEW q \in Int, NEW d \in Int, NEW w \in Int, NEW c \in Int,
         NEW p \in Int, Change(q, d, w, c, p)
  PROVE  Counted'
<1>1. /\ resourceCount = Len(inputQueue) + Len(deletedResources) + downstream
                         + Cardinality(Carried) - Cardinality(Popping)
      /\ IsFiniteSet(Carried) /\ IsFiniteSet(Popping)
  BY DEF Counted
<1>2. Cardinality(Carried) \in Nat /\ Cardinality(Popping) \in Nat
  BY <1>1, FS_CardinalityType
<1>3. inputQueue \in Seq(Id) /\ deletedResources \in Seq(Id) /\ downstream \in Nat
  BY DEF Typed, TypeOK
<1>4. Len(inputQueue) \in Nat /\ Len(deletedResources) \in Nat
  BY <1>3
<1>5. PICK l \in Nat, e \in Nat, x \in Nat, y \in Nat, z \in Nat :
        /\ l = Len(inputQueue) /\ e = Len(deletedResources) /\ z = downstream
        /\ x = Cardinality(Carried) /\ y = Cardinality(Popping)
  BY <1>2, <1>3, <1>4
<1>6. resourceCount = l + e + z + x - y
  BY <1>1, <1>5
<1>7. resourceCount' = (l + q) + (e + d) + (z + w) + (x + c) - (y + p)
  <2>1. (l + e + z + x - y) + (q + d + w + c - p)
          = (l + q) + (e + d) + (z + w) + (x + c) - (y + p)
    OBVIOUS
  <2>2. QED
    BY <1>6, <2>1 DEF Change
<1>8. resourceCount' = Len(inputQueue') + Len(deletedResources') + downstream'
                       + Cardinality(Carried') - Cardinality(Popping')
  BY <1>5, <1>7 DEF Change
<1>9. QED
  BY <1>8 DEF Counted, Change

\* A step in which only the places of resources change that are named.
LEMMA CarriedCount ==
  ASSUME Counted, running
  PROVE  /\ Carried' = Carried => IsFiniteSet(Carried') /\ Cardinality(Carried') = Cardinality(Carried) + 0
         /\ \A x : Gains(x) => IsFiniteSet(Carried') /\ Cardinality(Carried') = Cardinality(Carried) + 1
         /\ \A x : Loses(x) => IsFiniteSet(Carried') /\ Cardinality(Carried') = Cardinality(Carried) + (-1)
<1>1. IsFiniteSet(Carried)
  BY DEF Counted
<1>2. PICK n \in Nat : n = Cardinality(Carried)
  BY <1>1, FS_CardinalityType
<1>3. ASSUME Carried' = Carried
      PROVE  IsFiniteSet(Carried') /\ Cardinality(Carried') = Cardinality(Carried) + 0
  <2>1. n = n + 0
    OBVIOUS
  <2>2. QED
    BY <1>1, <1>2, <1>3, <2>1
<1>4. ASSUME NEW x, Gains(x)
      PROVE  IsFiniteSet(Carried') /\ Cardinality(Carried') = Cardinality(Carried) + 1
  BY <1>1, <1>4, FS_AddElement DEF Gains
<1>5. ASSUME NEW x, Loses(x)
      PROVE  IsFiniteSet(Carried') /\ Cardinality(Carried') = Cardinality(Carried) + (-1)
  <2>1. IsFiniteSet(Carried \ {x}) /\ Cardinality(Carried \ {x}) = Cardinality(Carried) - 1
    BY <1>1, <1>5, FS_RemoveElement DEF Loses
  <2>2. n - 1 = n + (-1)
    OBVIOUS
  <2>3. QED
    BY <1>2, <1>5, <2>1, <2>2 DEF Loses
<1>6. QED
  BY <1>3, <1>4, <1>5

LEMMA PoppingCount ==
  ASSUME Counted, running
  PROVE  /\ Popping' = Popping => IsFiniteSet(Popping') /\ Cardinality(Popping') = Cardinality(Popping) + 0
         /\ \A t : t \notin Popping /\ Popping' = Popping \cup {t} =>
              IsFiniteSet(Popping') /\ Cardinality(Popping') = Cardinality(Popping) + 1
         /\ \A t : t \in Popping /\ Popping' = Popping \ {t} =>
              IsFiniteSet(Popping') /\ Cardinality(Popping') = Cardinality(Popping) + (-1)
<1>1. IsFiniteSet(Popping)
  BY DEF Counted
<1>2. PICK n \in Nat : n = Cardinality(Popping)
  BY <1>1, FS_CardinalityType
<1>3. n = n + 0 /\ n - 1 = n + (-1)
  OBVIOUS
<1>4. ASSUME Popping' = Popping
      PROVE  IsFiniteSet(Popping') /\ Cardinality(Popping') = Cardinality(Popping) + 0
  BY <1>1, <1>2, <1>3, <1>4
<1>5. ASSUME NEW t, t \notin Popping, Popping' = Popping \cup {t}
      PROVE  IsFiniteSet(Popping') /\ Cardinality(Popping') = Cardinality(Popping) + 1
  BY <1>1, <1>5, FS_AddElement
<1>6. ASSUME NEW t, t \in Popping, Popping' = Popping \ {t}
      PROVE  IsFiniteSet(Popping') /\ Cardinality(Popping') = Cardinality(Popping) + (-1)
  <2>1. IsFiniteSet(Popping \ {t}) /\ Cardinality(Popping \ {t}) = Cardinality(Popping) - 1
    BY <1>1, <1>6, FS_RemoveElement
  <2>2. QED
    BY <1>2, <1>3, <1>6, <2>1
<1>7. QED
  BY <1>4, <1>5, <1>6

\* Lengths.
LEMMA Lengths ==
  ASSUME NEW s \in Seq(Id), NEW z
  PROVE  /\ z = s => Len(z) = Len(s) + 0
         /\ \A x \in Id : z = Append(s, x) => Len(z) = Len(s) + 1
         /\ s # <<>> /\ z = Tail(s) => Len(z) = Len(s) + (-1)
<1>1. Len(s) \in Nat
  OBVIOUS
<1>2. z = s => Len(z) = Len(s) + 0
  BY <1>1
<1>3. ASSUME NEW x \in Id, z = Append(s, x) PROVE Len(z) = Len(s) + 1
  BY <1>3
<1>4. ASSUME s # <<>>, z = Tail(s) PROVE Len(z) = Len(s) + (-1)
  <2>1. Len(z) = Len(s) - 1
    BY <1>4
  <2>2. QED
    BY <1>1, <2>1
<1>5. QED
  BY <1>2, <1>3, <1>4

\* No step starts the processor again.
LEMMA StaysRunning ==
  ASSUME Next, running'
  PROVE  running
<1>1. ASSUME NEW t \in Thread, Moves(t) PROVE UNCHANGED running
  BY <1>1 DEF Moves, Top, ReadEnd, TakeNone, PauseGate, PauseBack, PauseAgain, InputNone,
     SpuriousWakeup, After, QueueSkip, QueueCopy, Flush, FlushPop, ctlVars
<1>2. ASSUME NEW t \in Thread, Take(t) \/ \E i \in Id : Input(t, i) PROVE UNCHANGED running
  BY <1>2 DEF Take, Input, ctlVars
<1>3. ASSUME NEW t \in Thread, QueuePut(t) \/ QueueDrop(t) \/ QueueRefused(t)
      PROVE  UNCHANGED running
  BY <1>3 DEF QueuePut, QueueDrop, QueueRefused, ctlVars
<1>4. ASSUME NEW t \in Thread, Multi(t) \/ Out(t) PROVE UNCHANGED running
  <2>1. UNCHANGED ctlVars
    BY <1>4 DEF Multi, Out
  <2>2. QED
    BY <2>1 DEF ctlVars
<1>5. ASSUME Elsewhere PROVE UNCHANGED running \/ running' = FALSE
  BY <1>5 DEF Elsewhere, Arrive, Consume, SetPauseInput, StopRunning, StopStep, StopInputQueue,
     StopSignal, StopJoin, CloseOut, ctlVars
<1>6. UNCHANGED running \/ running' = FALSE
  BY <1>1, <1>2, <1>3, <1>4, <1>5, Steps
<1>7. QED
  BY <1>6

LEMMA ReadingCounted ==
  ASSUME Alone, Typed, Owned, Orderly, Flushing, Counted, running, NEW t \in Thread,
         Take(t) \/ \E i \in Id : Input(t, i)
  PROVE  Counted'
<1>0. /\ inputQueue \in Seq(Id) /\ deletedResources \in Seq(Id) /\ resourceCount \in Int
      /\ downstream \in Nat
  BY DEF Typed, TypeOK
<1>1. IsFiniteSet(Popping') /\ Cardinality(Popping') = Cardinality(Popping) + 0
  BY PoppingSteps, PoppingCount DEF Aside
<1>2. downstream' = downstream + 0
  BY <1>0 DEF Take, Input, outVars
<1>3. CASE Take(t)
  <2>1. inputQueue # <<>> /\ inputQueue' = Tail(inputQueue) /\ resourceCount' = resourceCount
    BY <1>3 DEF Take
  <2>2. Head(inputQueue) \in Id /\ Len(inputQueue') = Len(inputQueue) + (-1)
    BY <1>0, <2>1, Rest, Lengths
  <2>3. CASE Head(inputQueue) \in Doomed
    <3>1. deletedResources' = Append(deletedResources, Head(inputQueue))
      BY <1>3, <2>3 DEF Take
    <3>2. Len(deletedResources') = Len(deletedResources) + 1
      BY <1>0, <2>2, <3>1, Lengths
    <3>3. Carried' = Carried
      BY <1>3, <2>3, ReadingCarried
    <3>4. IsFiniteSet(Carried') /\ Cardinality(Carried') = Cardinality(Carried) + 0
      BY <3>3, CarriedCount
    <3>5. resourceCount' = resourceCount + ((-1) + 1 + 0 + 0 - 0)
      BY <1>0, <2>1
    <3>6. Change(-1, 1, 0, 0, 0)
      BY <1>1, <1>2, <2>2, <3>2, <3>4, <3>5 DEF Change
    <3>7. QED
      BY <3>6, Balance
  <2>4. CASE Head(inputQueue) \notin Doomed
    <3>1. deletedResources' = deletedResources
      BY <1>3, <2>4 DEF Take
    <3>2. Len(deletedResources') = Len(deletedResources) + 0
      BY <1>0, <3>1, Lengths
    <3>3. Gains(Head(inputQueue))
      BY <1>3, <2>4, ReadingCarried
    <3>4. IsFiniteSet(Carried') /\ Cardinality(Carried') = Cardinality(Carried) + 1
      BY <3>3, CarriedCount
    <3>5. resourceCount' = resourceCount + ((-1) + 0 + 0 + 1 - 0)
      BY <1>0, <2>1
    <3>6. Change(-1, 0, 0, 1, 0)
      BY <1>1, <1>2, <2>2, <3>2, <3>4, <3>5 DEF Change
    <3>7. QED
      BY <3>6, Balance
  <2>5. QED
    BY <2>3, <2>4
<1>4. ASSUME NEW x \in Id, Input(t, x) PROVE Counted'
  <2>1. HasInput
    BY <1>4 DEF Input, At, Orderly, Tidy
  <2>2. x \notin Doomed
    BY <2>1 DEF Alone, Flushing
  <2>3. inputQueue' = inputQueue /\ deletedResources' = deletedResources
        /\ resourceCount' = resourceCount + 1
    BY <1>4, <2>2 DEF Input
  <2>4. /\ Len(inputQueue') = Len(inputQueue) + 0
        /\ Len(deletedResources') = Len(deletedResources) + 0
    BY <1>0, <2>3, Lengths
  <2>5. Gains(x)
    BY <1>4, <2>2, ReadingCarried
  <2>6. IsFiniteSet(Carried') /\ Cardinality(Carried') = Cardinality(Carried) + 1
    BY <2>5, CarriedCount
  <2>7. resourceCount' = resourceCount + (0 + 0 + 0 + 1 - 0)
    BY <2>3
  <2>8. Change(0, 0, 0, 1, 0)
    BY <1>1, <1>2, <2>4, <2>6, <2>7 DEF Change
  <2>9. QED
    BY <2>8, Balance
<1>5. QED
  BY <1>3, <1>4

LEMMA QueueCounted ==
  ASSUME Typed, Owned, Orderly, Flushing, Counted, running, NEW t \in Thread,
         QueuePut(t) \/ QueueDrop(t)
  PROVE  Counted'
<1>0. /\ inputQueue \in Seq(Id) /\ deletedResources \in Seq(Id) /\ resourceCount \in Int
      /\ downstream \in Nat
  BY DEF Typed, TypeOK
<1>1. IsFiniteSet(Popping') /\ Cardinality(Popping') = Cardinality(Popping) + 0
  BY PoppingSteps, PoppingCount DEF Aside
<1>2. inputQueue' = inputQueue /\ deletedResources' = deletedResources
  BY DEF QueuePut, QueueDrop, inVars, delVars
<1>3. /\ Len(inputQueue') = Len(inputQueue) + 0
      /\ Len(deletedResources') = Len(deletedResources) + 0
  BY <1>0, <1>2, Lengths
<1>4. IsFiniteSet(Carried') /\ Cardinality(Carried') = Cardinality(Carried) + (-1)
  BY QueueCarried, CarriedCount
<1>5. \/ downstream' = downstream + 0 /\ resourceCount' = resourceCount + (0 + 0 + 0 + (-1) - 0)
      \/ downstream' = downstream + 1 /\ resourceCount' = resourceCount + (0 + 0 + 1 + (-1) - 0)
  <2>1. \/ downstream' = downstream /\ resourceCount' = resourceCount - 1
        \/ downstream' = downstream + 1 /\ resourceCount' = resourceCount
    BY DEF QueuePut, QueueDrop
  <2>2. QED
    BY <1>0, <2>1
<1>6. Change(0, 0, 0, -1, 0) \/ Change(0, 0, 1, -1, 0)
  BY <1>1, <1>3, <1>4, <1>5 DEF Change
<1>7. QED
  BY <1>6, Balance

LEMMA FlushCounted ==
  ASSUME Typed, Orderly, Flushing, Counted, running, NEW t \in Thread, Flush(t) \/ FlushPop(t)
  PROVE  Counted'
<1>0. /\ inputQueue \in Seq(Id) /\ deletedResources \in Seq(Id) /\ resourceCount \in Int
      /\ downstream \in Nat
  BY DEF Typed, TypeOK
<1>1. inputQueue' = inputQueue /\ downstream' = downstream + 0
  BY <1>0 DEF Flush, FlushPop, inVars, outVars
<1>2. Len(inputQueue') = Len(inputQueue) + 0
  BY <1>0, <1>1, Lengths
<1>3. IsFiniteSet(Carried') /\ Cardinality(Carried') = Cardinality(Carried) + 0
  BY MovesCarried, CarriedCount DEF Moves
<1>4. CASE Flush(t)
  <2>1. deletedResources' = deletedResources
    BY <1>4 DEF Flush
  <2>2. Len(deletedResources') = Len(deletedResources) + 0
    BY <1>0, <2>1, Lengths
  <2>3. CASE Popping' = Popping /\ UNCHANGED resourceCount
    <3>1. IsFiniteSet(Popping') /\ Cardinality(Popping') = Cardinality(Popping) + 0
      BY <2>3, PoppingCount
    <3>2. resourceCount' = resourceCount + (0 + 0 + 0 + 0 - 0)
      BY <1>0, <2>3
    <3>3. Change(0, 0, 0, 0, 0)
      BY <1>1, <1>2, <1>3, <2>2, <3>1, <3>2 DEF Change
    <3>4. QED
      BY <3>3, Balance
  <2>4. CASE t \notin Popping /\ Popping' = Popping \cup {t} /\ resourceCount' = resourceCount - 1
    <3>1. IsFiniteSet(Popping') /\ Cardinality(Popping') = Cardinality(Popping) + 1
      BY <2>4, PoppingCount
    <3>2. resourceCount' = resourceCount + (0 + 0 + 0 + 0 - 1)
      BY <1>0, <2>4
    <3>3. Change(0, 0, 0, 0, 1)
      BY <1>1, <1>2, <1>3, <2>2, <3>1, <3>2 DEF Change
    <3>4. QED
      BY <3>3, Balance
  <2>5. QED
    BY <1>4, <2>3, <2>4, PoppingSteps
<1>5. CASE FlushPop(t)
  <2>1. /\ deletedResources # <<>> /\ deletedResources' = Tail(deletedResources)
        /\ resourceCount' = resourceCount
    BY <1>5, FlushSteps
  <2>2. Len(deletedResources') = Len(deletedResources) + (-1)
    BY <1>0, <2>1, Lengths
  <2>3. IsFiniteSet(Popping') /\ Cardinality(Popping') = Cardinality(Popping) + (-1)
    BY <1>5, PoppingSteps, PoppingCount
  <2>4. resourceCount' = resourceCount + (0 + (-1) + 0 + 0 - (-1))
    BY <1>0, <2>1
  <2>5. Change(0, -1, 0, 0, -1)
    BY <1>1, <1>2, <1>3, <2>2, <2>3, <2>4 DEF Change
  <2>6. QED
    BY <2>5, Balance
<1>6. QED
  BY <1>4, <1>5

LEMMA OtherCounted ==
  ASSUME Typed, Owned, Orderly, Flushing, Counted, running, NEW t \in Thread,
         (Moves(t) /\ ~Flush(t) /\ ~FlushPop(t)) \/ Multi(t) \/ Out(t)
  PROVE  Counted'
<1>0. /\ inputQueue \in Seq(Id) /\ deletedResources \in Seq(Id) /\ resourceCount \in Int
      /\ downstream \in Nat
  BY DEF Typed, TypeOK
<1>1. IsFiniteSet(Popping') /\ Cardinality(Popping') = Cardinality(Popping) + 0
  BY PoppingSteps, PoppingCount DEF Aside
<1>2. inputQueue' = inputQueue /\ deletedResources' = deletedResources
  BY DEF Moves, Top, ReadEnd, TakeNone, PauseGate, PauseBack, PauseAgain, InputNone,
     SpuriousWakeup, After, QueueSkip, QueueCopy, Multi, Out, inVars, delVars
<1>3. /\ Len(inputQueue') = Len(inputQueue) + 0
      /\ Len(deletedResources') = Len(deletedResources) + 0
  BY <1>0, <1>2, Lengths
<1>4. IsFiniteSet(Carried') /\ Cardinality(Carried') = Cardinality(Carried) + 0
  BY MovesCarried, MultiCarried, CarriedCount
<1>5. \/ downstream' = downstream + 0 /\ resourceCount' = resourceCount + (0 + 0 + 0 + 0 - 0)
      \/ downstream' = downstream + 1 /\ resourceCount' = resourceCount + (0 + 0 + 1 + 0 - 0)
  <2>1. \/ downstream' = downstream /\ resourceCount' = resourceCount
        \/ downstream' = downstream + 1 /\ resourceCount' = resourceCount + 1
    BY DEF Moves, Top, ReadEnd, TakeNone, PauseGate, PauseBack, PauseAgain, InputNone,
       SpuriousWakeup, After, QueueSkip, QueueCopy, Multi, Out, outVars
  <2>2. QED
    BY <1>0, <2>1
<1>6. Change(0, 0, 0, 0, 0) \/ Change(0, 0, 1, 0, 0)
  BY <1>1, <1>3, <1>4, <1>5 DEF Change
<1>7. QED
  BY <1>6, Balance

LEMMA ElsewhereCounted ==
  ASSUME Typed, Orderly, Counted, running, running', Elsewhere
  PROVE  Counted'
<1>0. /\ inputQueue \in Seq(Id) /\ deletedResources \in Seq(Id) /\ resourceCount \in Int
      /\ downstream \in Nat /\ th \in [Thread -> ThreadState] /\ ctl = "run"
  BY DEF Typed, TypeOK, Orderly, Open
<1>1. IsFiniteSet(Popping') /\ Cardinality(Popping') = Cardinality(Popping) + 0
  <2>1. th' = th \/ th' = Signalled(th)
    BY DEF Elsewhere, Arrive, Consume, SetPauseInput, StopRunning, StopStep, StopInputQueue,
           StopSignal, StopJoin, CloseOut
  <2>2. \A u \in Thread : th'[u].at = "flushPop" <=> th[u].at = "flushPop"
    BY <1>0, <2>1, Woken
  <2>3. Popping' = Popping
    BY <2>2 DEF Popping, At
  <2>4. QED
    BY <2>3, PoppingCount
<1>2. IsFiniteSet(Carried') /\ Cardinality(Carried') = Cardinality(Carried) + 0
  BY ElsewhereCarried, CarriedCount
<1>3. deletedResources' = deletedResources /\ downstream' = downstream + 0
  BY <1>0 DEF Elsewhere, Arrive, Consume, SetPauseInput, StopRunning, StopStep, StopInputQueue,
           StopSignal, StopJoin, CloseOut, delVars, outVars
<1>4. Len(deletedResources') = Len(deletedResources) + 0
  BY <1>0, <1>3, Lengths
<1>5. ASSUME NEW x \in Id, Arrive(x) PROVE Counted'
  <2>1. inputQueue' = Append(inputQueue, x) /\ resourceCount' = resourceCount + 1
    BY <1>5 DEF Arrive
  <2>2. Len(inputQueue') = Len(inputQueue) + 1
    BY <1>0, <2>1, Lengths
  <2>3. resourceCount' = resourceCount + (1 + 0 + 0 + 0 - 0)
    BY <2>1
  <2>4. Change(1, 0, 0, 0, 0)
    BY <1>1, <1>2, <1>3, <1>4, <2>2, <2>3 DEF Change
  <2>5. QED
    BY <2>4, Balance
<1>6. CASE ~\E x \in Id : Arrive(x)
  <2>1. inputQueue' = inputQueue /\ resourceCount' = resourceCount
    BY <1>0, <1>6 DEF Elsewhere, Consume, SetPauseInput, StopRunning, StopStep, StopInputQueue,
           StopSignal, StopJoin, CloseOut, inVars
  <2>2. Len(inputQueue') = Len(inputQueue) + 0
    BY <1>0, <2>1, Lengths
  <2>3. resourceCount' = resourceCount + (0 + 0 + 0 + 0 - 0)
    BY <1>0, <2>1
  <2>4. Change(0, 0, 0, 0, 0)
    BY <1>1, <1>2, <1>3, <1>4, <2>2, <2>3 DEF Change
  <2>5. QED
    BY <2>4, Balance
<1>7. QED
  BY <1>5, <1>6

LEMMA NextCounted ==
  ASSUME Unhindered, Alone, Typed, Owned, Orderly, Flushing, Counted, Next
  PROVE  Counted'
<1>1. CASE ~running'
  BY <1>1 DEF Counted
<1>2. CASE running'
  <2>1. running
    BY <1>2, StaysRunning
  <2>2. ASSUME NEW t \in Thread, QueueRefused(t) PROVE FALSE
    BY <2>1, <2>2, RefusedClosed
  <2>3. QED
    BY <1>2, <2>1, <2>2, Steps, ReadingCounted, QueueCounted, FlushCounted, OtherCounted,
       ElsewhereCounted
<1>3. QED
  BY <1>1, <1>2
(***************************************************************************)
(* Nothing is lost.                                                        *)
(***************************************************************************)
Placed(i) ==
  \/ In(i, inputQueue) \/ In(i, deletedResources) \/ i \in Carried
  \/ HandedOn(i) \/ gone[i] > 0 \/ i \in dropped

Kept == running => \A i \in Id \ fresh : Placed(i)

\* What was handed on or released stays so.
LEMMA LeftStays ==
  ASSUME Typed, Next, NEW i \in Id
  PROVE  /\ HandedOn(i) => HandedOn(i)'
         /\ gone[i] > 0 => gone'[i] > 0
         /\ i \in dropped => i \in dropped'
<1>0. passed \in [Filter -> [Id -> Nat]] /\ gone \in [Id -> Nat] /\ deletedResources \in Seq(Id)
  BY DEF Typed, TypeOK
<1>1. ASSUME NEW t \in Thread, QueueCopy(t) \/ QueuePut(t) PROVE HandedOn(i) => HandedOn(i)'
  <2>0. Queueing(t)
    BY <1>1 DEF QueueCopy, QueuePut
  <2>1. PICK f \in Filter, c \in Id : passed' = [passed EXCEPT ![f][c] = @ + 1]
    BY <1>1, <2>0, CurrentId DEF QueueCopy, QueuePut, Matches
  <2>2. \A g \in Filter : passed[g][i] > 0 => passed'[g][i] > 0
    BY <1>0, <2>1
  <2>3. QED
    BY <2>2 DEF HandedOn
<1>2. UNCHANGED passed => (HandedOn(i) => HandedOn(i)')
  BY DEF HandedOn
<1>3. ASSUME NEW t \in Thread, Flush(t) PROVE gone[i] > 0 => gone'[i] > 0
  <2>1. \/ gone' = gone
        \/ deletedResources # <<>> /\ gone' = [gone EXCEPT ![Head(deletedResources)] = @ + 1]
    BY <1>3 DEF Flush
  <2>2. CASE gone' = gone
    BY <2>2
  <2>3. CASE deletedResources # <<>> /\ gone' = [gone EXCEPT ![Head(deletedResources)] = @ + 1]
    <3>1. PICK h \in Id : h = Head(deletedResources)
      BY <1>0, <2>3, Rest
    <3>2. gone' = [gone EXCEPT ![h] = @ + 1]
      BY <2>3, <3>1
    <3>3. QED
      BY <1>0, <3>2
  <2>4. QED
    BY <2>1, <2>2, <2>3
<1>4. ASSUME NEW t \in Thread, Moves(t)
      PROVE  /\ QueueCopy(t) \/ UNCHANGED passed
             /\ Flush(t) \/ UNCHANGED gone
             /\ UNCHANGED dropped
  BY <1>4 DEF Moves, Top, ReadEnd, TakeNone, PauseGate, PauseBack, PauseAgain, InputNone,
     SpuriousWakeup, After, QueueSkip, QueueCopy, Flush, FlushPop, outVars, delVars
<1>5. ASSUME NEW t \in Thread, Take(t) \/ \E x \in Id : Input(t, x)
      PROVE  UNCHANGED <<passed, gone, dropped>>
  BY <1>5 DEF Take, Input, outVars
<1>6. ASSUME NEW t \in Thread, QueuePut(t) \/ QueueDrop(t) \/ QueueRefused(t)
      PROVE  (QueuePut(t) \/ UNCHANGED passed) /\ UNCHANGED gone /\ dropped \subseteq dropped'
  BY <1>6 DEF QueuePut, QueueDrop, QueueRefused, outVars, delVars
<1>7. ASSUME NEW t \in Thread, Multi(t) \/ Out(t) PROVE UNCHANGED <<passed, gone, dropped>>
  <2>1. UNCHANGED <<outVars, delVars>>
    BY <1>7 DEF Multi, Out
  <2>2. QED
    BY <2>1 DEF outVars, delVars
<1>8. ASSUME Elsewhere PROVE UNCHANGED <<passed, gone, dropped>>
  BY <1>8 DEF Elsewhere, Arrive, Consume, SetPauseInput, StopRunning, StopStep, StopInputQueue,
     StopSignal, StopJoin, CloseOut, outVars, delVars
<1>9. QED
  BY <1>1, <1>2, <1>3, <1>4, <1>5, <1>6, <1>7, <1>8, Steps

LEMMA NextKept ==
  ASSUME Unhindered, Alone, Typed, Owned, Orderly, Flushing, Kept, Next
  PROVE  Kept'
<1> SUFFICES ASSUME running', NEW i \in Id \ fresh' PROVE Placed(i)'
  BY DEF Kept
<1>0. /\ inputQueue \in Seq(Id) /\ deletedResources \in Seq(Id) /\ gone \in [Id -> Nat]
      /\ passed \in [Filter -> [Id -> Nat]] /\ running /\ i \in Id
  BY StaysRunning DEF Typed, TypeOK
<1>1. i \notin fresh => Placed(i)
  BY <1>0 DEF Kept
<1>2. /\ HandedOn(i) => HandedOn(i)'
      /\ gone[i] > 0 => gone'[i] > 0
      /\ i \in dropped => i \in dropped'
  BY LeftStays
<1>3. ASSUME i \notin fresh,
             In(i, inputQueue) \/ In(i, deletedResources) \/ i \in Carried =>
               \/ In(i, inputQueue') \/ In(i, deletedResources') \/ i \in Carried'
               \/ HandedOn(i)' \/ gone'[i] > 0 \/ i \in dropped'
      PROVE  Placed(i)'
  <2>1. \/ In(i, inputQueue') \/ In(i, deletedResources') \/ i \in Carried'
        \/ HandedOn(i)' \/ gone'[i] > 0 \/ i \in dropped'
    BY <1>1, <1>2, <1>3 DEF Placed
  <2>2. QED
    BY <2>1, Zenon DEF Placed, In
<1>4. ASSUME NEW t \in Thread, Moves(t) PROVE Placed(i)'
  <2>1. UNCHANGED <<fresh, inputQueue>> /\ Carried' = Carried
    <3>1. UNCHANGED <<fresh, inputQueue>>
      BY <1>4 DEF Moves, Top, ReadEnd, TakeNone, PauseGate, PauseBack, PauseAgain, InputNone,
         SpuriousWakeup, After, QueueSkip, QueueCopy, Flush, FlushPop, inVars
    <3>2. QED
      BY <1>0, <1>4, <3>1, MovesCarried
  <2>2. CASE ~FlushPop(t)
    <3>1. UNCHANGED deletedResources
      BY <1>4, <2>2 DEF Moves, Top, ReadEnd, TakeNone, PauseGate, PauseBack, PauseAgain,
         InputNone, SpuriousWakeup, After, QueueSkip, QueueCopy, Flush, delVars
    <3>2. QED
      BY <1>3, <2>1, <3>1
  <2>3. CASE FlushPop(t)
    <3>1. /\ deletedResources # <<>> /\ deletedResources' = Tail(deletedResources)
          /\ UNCHANGED gone /\ th[t].at = "flushPop"
      BY <2>3, FlushSteps
    <3>2. gone[Head(deletedResources)] > 0
      BY <3>1 DEF Flushing
    <3>3. In(i, deletedResources) => In(i, deletedResources') \/ i = Head(deletedResources)
      BY <1>0, <3>1, HeadRest
    <3>4. QED
      BY <1>3, <2>1, <3>1, <3>2, <3>3
  <2>4. QED
    BY <2>2, <2>3
<1>5. ASSUME NEW t \in Thread, Take(t) PROVE Placed(i)'
  <2>1. fresh' = fresh /\ inputQueue # <<>> /\ inputQueue' = Tail(inputQueue)
    BY <1>5 DEF Take
  <2>2. Head(inputQueue) \in Id /\ (In(i, inputQueue) => In(i, inputQueue') \/ i = Head(inputQueue))
    BY <1>0, <2>1, HeadRest, Rest
  <2>3. CASE Head(inputQueue) \in Doomed
    <3>1. deletedResources' = Append(deletedResources, Head(inputQueue)) /\ Carried' = Carried
      BY <1>5, <2>3, ReadingCarried DEF Take
    <3>2. In(i, deletedResources') <=> In(i, deletedResources) \/ i = Head(inputQueue)
      BY <1>0, <2>2, <3>1, Grown
    <3>3. QED
      BY <1>3, <2>1, <2>2, <3>1, <3>2
  <2>4. CASE Head(inputQueue) \notin Doomed
    <3>1. deletedResources' = deletedResources /\ Gains(Head(inputQueue))
      BY <1>5, <2>4, ReadingCarried DEF Take
    <3>2. QED
      BY <1>3, <2>1, <2>2, <3>1 DEF Gains
  <2>5. QED
    BY <2>3, <2>4
<1>6. ASSUME NEW t \in Thread, NEW x \in Id, Input(t, x) PROVE Placed(i)'
  <2>1. x \notin Doomed
    BY <1>6 DEF Input, At, Orderly, Tidy, Alone
  <2>2. fresh' = fresh \ {x} /\ UNCHANGED <<inputQueue, deletedResources>> /\ Gains(x)
    BY <1>6, <2>1, ReadingCarried DEF Input
  <2>3. CASE i = x
    <3>1. i \in Carried'
      BY <2>2, <2>3 DEF Gains
    <3>2. QED
      BY <3>1, Zenon DEF Placed
  <2>4. CASE i # x
    BY <1>3, <2>2, <2>4 DEF Gains
  <2>5. QED
    BY <2>3, <2>4
<1>7. ASSUME NEW t \in Thread, QueuePut(t) \/ QueueDrop(t) PROVE Placed(i)'
  <2>1. UNCHANGED <<fresh, inputQueue, deletedResources>> /\ Loses(Current(t)) /\ Queueing(t)
    BY <1>7, QueueCarried DEF QueuePut, QueueDrop, inVars, delVars
  <2>2. CASE i # Current(t)
    BY <1>3, <2>1, <2>2 DEF Loses
  <2>3. CASE i = Current(t)
    <3>1. CASE QueueDrop(t)
      BY <1>3, <2>1, <2>3, <3>1 DEF QueueDrop
    <3>2. CASE QueuePut(t)
      <4>1. PICK f \in Filter : f \notin Copy /\ passed' = [passed EXCEPT ![f][i] = @ + 1]
        BY <2>3, <3>2 DEF QueuePut, Matches
      <4>2. passed'[f][i] > 0
        BY <1>0, <4>1
      <4>3. HandedOn(i)'
        BY <4>1, <4>2 DEF HandedOn
      <4>4. QED
        BY <1>3, <2>1, <4>3
    <3>3. QED
      BY <1>7, <3>1, <3>2
  <2>4. QED
    BY <2>2, <2>3
<1>8. ASSUME NEW t \in Thread, Multi(t) \/ Out(t) PROVE Placed(i)'
  <2>1. UNCHANGED <<inVars, delVars>> /\ Carried' = Carried
    BY <1>8, MultiCarried, Zenon DEF Multi, Out
  <2>2. QED
    BY <1>3, <2>1 DEF inVars, delVars
<1>9. ASSUME NEW t \in Thread, QueueRefused(t) PROVE Placed(i)'
  BY <1>0, <1>9, RefusedClosed
<1>10. ASSUME Elsewhere PROVE Placed(i)'
  <2>1. Carried' = Carried /\ UNCHANGED deletedResources
    BY <1>10, ElsewhereCarried DEF Elsewhere, Arrive, Consume, SetPauseInput, StopRunning,
       StopStep, StopInputQueue, StopSignal, StopJoin, CloseOut, delVars
  <2>2. ASSUME NEW x \in Id, Arrive(x) PROVE Placed(i)'
    <3>1. fresh' = fresh \ {x} /\ inputQueue' = Append(inputQueue, x)
      BY <2>2 DEF Arrive
    <3>2. In(i, inputQueue') <=> In(i, inputQueue) \/ i = x
      BY <1>0, <3>1, Grown
    <3>3. CASE i = x
      BY <3>2, <3>3, Zenon DEF Placed, In
    <3>4. CASE i # x
      BY <1>3, <2>1, <3>1, <3>2, <3>4
    <3>5. QED
      BY <3>3, <3>4
  <2>3. CASE ~\E x \in Id : Arrive(x)
    <3>1. ctl = "run"
      BY <1>0 DEF Orderly, Open
    <3>2. UNCHANGED <<fresh, inputQueue>>
      BY <1>10, <2>3, <3>1 DEF Elsewhere, Consume, SetPauseInput, StopRunning, StopStep,
         StopInputQueue, StopSignal, StopJoin, CloseOut, inVars
    <3>3. QED
      BY <1>3, <2>1, <3>2
  <2>4. QED
    BY <2>2, <2>3
<1>11. QED
  BY <1>4, <1>5, <1>6, <1>7, <1>8, <1>9, <1>10, Steps

LEMMA InitExact ==
  ASSUME Init
  PROVE  Flushing /\ Counted /\ Kept
<1>1. /\ fresh = Id /\ inputQueue = <<>> /\ deletedResources = <<>> /\ resourceCount = 0
      /\ downstream = 0
  BY DEF Init
<1>2. ASSUME NEW t \in Thread
      PROVE  /\ th[t].min = <<>> /\ th[t].held = <<>> /\ th[t].mout = <<>>
             /\ th[t].r = NoId /\ th[t].pending = NoId /\ th[t].at = "new"
  BY DEF Init
<1>3. \A i : ~In(i, <<>>)
  BY DEF In
<1>4. Carried = {} /\ Popping = {}
  BY <1>2, <1>3, ProcessorAssumption DEF Carried, Carries, Popping, At
<1>5. Flushing
  BY <1>1, <1>2, <1>3 DEF Flushing
<1>6. Kept
  BY <1>1 DEF Kept
<1>7. Counted
  <2>1. IsFiniteSet(Carried) /\ Cardinality(Carried) = 0
    BY <1>4, FS_EmptySet
  <2>2. IsFiniteSet(Popping) /\ Cardinality(Popping) = 0
    BY <1>4, FS_EmptySet
  <2>3. Len(inputQueue) = 0 /\ Len(deletedResources) = 0
    BY <1>1
  <2>4. resourceCount = Len(inputQueue) + Len(deletedResources) + downstream
                        + Cardinality(Carried) - Cardinality(Popping)
    BY <1>1, <2>1, <2>2, <2>3
  <2>5. QED
    BY <2>1, <2>2, <2>4 DEF Counted
<1>8. QED
  BY <1>5, <1>6, <1>7

\* While the processor runs, every resource that came in is at one place, with
\* one owner at most, or was handed on or released on purpose, and resourceCount
\* counts it once.  The hypotheses are the two ways in which the code may break
\* this: a full queue behind a MULTI module, and a second thread, or an INPUT
\* module, in front of deletedResources.
THEOREM Exact == Spec => [](Unhindered /\ Alone => ResourcesExact)
<1> DEFINE Inv == /\ Typed /\ Owned
                  /\ Unhindered /\ Alone => Orderly /\ Flushing /\ Counted /\ Kept
<1>1. Init => Inv
  BY InitTyped, InitOwned, InitOrderly, InitExact
<1>2. Inv /\ NotOverloaded /\ [Next]_vars => Inv'
  <2> SUFFICES ASSUME Inv, NotOverloaded, [Next]_vars PROVE Inv'
    OBVIOUS
  <2>1. Typed' /\ Owned'
    BY NextTyped, NextOwned
  <2>2. ASSUME Unhindered, Alone PROVE Orderly' /\ Flushing' /\ Counted' /\ Kept'
    <3>1. Orderly'
      BY <2>2, NextOrderly
    <3>2. CASE Next
      BY <2>2, <3>1, <3>2, NextFlushing, NextCounted, NextKept
    <3>3. CASE UNCHANGED vars
      <4>1. Carried' = Carried /\ Popping' = Popping
        BY <3>3 DEF vars, Carried, Carries, In, Popping, At
      <4>2. Flushing'
        BY <2>2, <3>3 DEF vars, Flushing, In
      <4>3. Counted'
        BY <2>2, <3>3, <4>1 DEF vars, Counted
      <4>4. Kept'
        BY <2>2, <3>3, <4>1 DEF vars, Kept, Placed, In, HandedOn
      <4>5. QED
        BY <3>1, <4>2, <4>3, <4>4
    <3>4. QED
      BY <3>2, <3>3
  <2>3. QED
    BY <2>1, <2>2 DEF Unhindered, Alone
<1>3. Inv /\ OneHolder => (Unhindered /\ Alone => ResourcesExact)
  <2> SUFFICES ASSUME Inv, OneHolder, Unhindered, Alone PROVE ResourcesExact
    OBVIOUS
  <2>1. TypeOK
    BY DEF Typed
  <2>2. NoLoss
    BY DEF NoLoss, Kept, Placed, Carried
  <2>3. CountExact
    BY DEF CountExact, Counted, Popping
  <2>4. QED
    BY <2>1, <2>2, <2>3 DEF ResourcesExact
<1> HIDE DEF Inv
<1>4. QED
  BY <1>1, <1>2, <1>3, Loads, Owners, PTL DEF Spec

=============================================================================
