--------------------------- MODULE SyncQueueProofs ---------------------------
(***************************************************************************)
(* Proofs about lib/SyncQueue.h, for any number of readers, writers, items *)
(* and sub-queues, any limits and any number of stops.                     *)
(***************************************************************************)
EXTENDS SyncQueue, FiniteSetTheorems, TLAPS

(***************************************************************************)
(* The inductive invariant, in parts.  Shape is TypeOK without the         *)
(* Boolean variables and with the counters in Int: that they do not get    *)
(* negative needs CountersAgree.                                           *)
(***************************************************************************)
Shape ==
  /\ queue \in [Prio -> Seq(Item)]
  /\ queueSize \in [Prio -> Int]
  /\ waitingReaders \in Int
  /\ waitingWriters \in Int
  /\ pc \in [Thread -> PC]
  /\ timeout \in [Thread -> Timeout]
  /\ prio \in [Writers -> Prio]
  /\ held \in [Thread -> Item \cup {NoItem}]
  /\ ctl \in {"idle", "readers", "writers"}
  /\ stops \in Nat

\* A writer in a call has its argument, a reader in a call has no item.
Calls ==
  /\ \A w \in Writers : pc[w] # "idle" => held[w] # NoItem
  /\ \A r \in Readers : pc[r] # "idle" => held[r] = NoItem

\* While Stop is under way the queue is cancelled, and in its second loop
\* no reader is inside a wait.
StopStage ==
  /\ ctl # "idle" => cancel
  /\ ctl = "writers" => \A r \in Readers : ~Waiting(r)

(***************************************************************************)
(* The critical sections of PutItem and GetItem, whether they are entered  *)
(* from the call (n = 0) or from the return of a wait (n = -1).            *)
(***************************************************************************)
Entered(t, n) ==
  \/ n = 0 /\ pc[t] = "lock"
  \/ n = -1 /\ pc[t] \in {"woken", "timedout"}

PutSection(w, n) ==
  /\ Entered(w, n)
  /\ UNCHANGED <<waitingReaders, cancel, paused, prio, ctl, stops>>

GetSection(r, n) ==
  /\ Entered(r, n)
  /\ UNCHANGED <<waitingWriters, cancel, paused, prio, ctl, stops>>

LEMMA PutCases ==
  ASSUME NEW w \in Writers, PutEnter(w) \/ PutWake(w)
  PROVE  \E n \in {0, -1} :
           /\ PutSection(w, n)
           /\ \/ PutFalse(w, n)
              \/ ~cancel /\ PutWait(w, n)
              \/ ~cancel /\ PutTrue(w, n)
BY DEF PutEnter, PutWake, PutSection, Entered

LEMMA GetCases ==
  ASSUME NEW r \in Readers, GetEnter(r) \/ GetWake(r)
  PROVE  \E n \in {0, -1} :
           /\ GetSection(r, n)
           /\ \/ GetNull(r, n)
              \/ ~cancel /\ GetWait(r, n)
              \/ ~cancel /\ GetFirst(r, n)
BY DEF GetEnter, GetWake, GetSection, Entered

LEMMA ShapeInit == Init => Shape /\ Calls
<1> SUFFICES ASSUME Init PROVE Shape /\ Calls
  OBVIOUS
<1>1. Shape
  BY DEF Init, Shape, PC, Timeout
<1>2. Calls
  BY DEF Init, Calls, Thread
<1>3. QED
  BY <1>1, <1>2

LEMMA ShapeNext == Shape /\ Calls /\ [Next]_vars => Shape' /\ Calls'
<1> SUFFICES ASSUME Shape, Calls, [Next]_vars
             PROVE  Shape' /\ Calls'
  OBVIOUS
<1> USE SyncQueueAssumption DEF Shape, Calls, PC, Timeout, Thread
<1>1. ASSUME NEW w \in Writers, NEW i \in Item, NEW p \in Prio,
             NEW t \in Timeout, CallPut(w, i, p, t)
      PROVE  Shape' /\ Calls'
  BY <1>1 DEF CallPut
<1>2. ASSUME NEW w \in Writers, NEW n \in {0, -1}, PutSection(w, n), PutFalse(w, n)
      PROVE  Shape' /\ Calls'
  BY <1>2 DEF PutSection, PutFalse, Return
<1>3. ASSUME NEW w \in Writers, NEW n \in {0, -1}, PutSection(w, n), PutWait(w, n)
      PROVE  Shape' /\ Calls'
  BY <1>3 DEF PutSection, Entered, PutWait
<1>4. ASSUME NEW w \in Writers, NEW n \in {0, -1}, PutSection(w, n), PutTrue(w, n)
      PROVE  Shape' /\ Calls'
  <2>1. held[w] \in Item /\ Size[held[w]] \in Int /\ prio[w] \in Prio
    BY <1>4 DEF PutSection, Entered
  <2>2. PICK p \in Prio, x \in Item : p = prio[w] /\ x = held[w]
    BY <2>1
  <2>2a. /\ queue' = [queue EXCEPT ![p] = Append(queue[p], x)]
         /\ queueSize' = [queueSize EXCEPT ![p] = queueSize[p] + Size[x]]
    BY <1>4, <2>2 DEF PutTrue
  <2>2b. queue' \in [Prio -> Seq(Item)] /\ queueSize' \in [Prio -> Int]
    BY <2>2a
  <2>3. pc' \in [Thread -> PC]
    BY <1>4 DEF PutTrue, SignalRecv
  <2>4. \A t \in Thread : pc'[t] # "idle" => pc[t] # "idle" /\ t # w
    BY <1>4 DEF PutTrue, SignalRecv
  <2>5. Shape'
    <3>1. /\ waitingReaders' \in Int
          /\ waitingWriters' \in Int
          /\ prio' \in [Writers -> Prio]
          /\ ctl' \in {"idle", "readers", "writers"}
          /\ stops' \in Nat
      BY <1>4 DEF PutSection, PutTrue
    <3>2. /\ timeout' \in [Thread -> Timeout]
          /\ held' \in [Thread -> Item \cup {NoItem}]
      BY <1>4 DEF PutTrue, Return
    <3>3. QED
      BY <2>2b, <2>3, <3>1, <3>2
  <2>6. Calls'
    BY <1>4, <2>4 DEF PutTrue
  <2>7. QED
    BY <2>5, <2>6
<1>5. ASSUME NEW r \in Readers, NEW t \in Timeout, CallGet(r, t)
      PROVE  Shape' /\ Calls'
  BY <1>5 DEF CallGet
<1>6. ASSUME NEW r \in Readers, NEW n \in {0, -1}, GetSection(r, n), GetNull(r, n)
      PROVE  Shape' /\ Calls'
  BY <1>6 DEF GetSection, GetNull, Return
<1>7. ASSUME NEW r \in Readers, NEW n \in {0, -1}, GetSection(r, n), GetWait(r, n)
      PROVE  Shape' /\ Calls'
  BY <1>7 DEF GetSection, Entered, GetWait
<1>8. ASSUME NEW r \in Readers, NEW n \in {0, -1}, GetSection(r, n), GetFirst(r, n)
      PROVE  Shape' /\ Calls'
  <2>1. PICK p \in NonEmpty :
          /\ held' = [held EXCEPT ![r] = Head(queue[p])]
          /\ queueSize' = [queueSize EXCEPT ![p] = @ - Size[Head(queue[p])]]
          /\ queue' = [queue EXCEPT ![p] = Tail(@)]
          /\ waitingReaders' = waitingReaders + n
          /\ Return(r)
          /\ pc' = SignalSend([pc EXCEPT ![r] = "idle"])
    BY <1>8 DEF GetFirst
  <2>2. p \in Prio /\ queue[p] \in Seq(Item) /\ queue[p] # <<>>
    BY DEF NonEmpty
  <2>3. Head(queue[p]) \in Item /\ Tail(queue[p]) \in Seq(Item)
    BY <2>2
  <2>4. /\ queue' \in [Prio -> Seq(Item)]
        /\ queueSize' \in [Prio -> Int]
    BY <2>1, <2>2, <2>3
  <2>5. pc' \in [Thread -> PC]
    BY <2>1 DEF SignalSend
  <2>6. \A t \in Thread : pc'[t] # "idle" => pc[t] # "idle" /\ t # r
    BY <2>1 DEF SignalSend
  <2>7. Shape'
    <3>1. /\ waitingReaders' \in Int
          /\ waitingWriters' \in Int
          /\ prio' \in [Writers -> Prio]
          /\ ctl' \in {"idle", "readers", "writers"}
          /\ stops' \in Nat
      BY <1>8, <2>1 DEF GetSection
    <3>2. /\ timeout' \in [Thread -> Timeout]
          /\ held' \in [Thread -> Item \cup {NoItem}]
      BY <2>1, <2>3 DEF Return
    <3>3. QED
      BY <2>4, <2>5, <3>1, <3>2
  <2>8. Calls'
    BY <2>1, <2>6
  <2>9. QED
    BY <2>7, <2>8
<1>9. ASSUME NEW t \in Thread, PassPause(t) \/ WaitTimesOut(t) \/ SpuriousWakeup(t)
      PROVE  Shape' /\ Calls'
  BY <1>9 DEF PassPause, WaitTimesOut, SpuriousWakeup, WaitReturns
<1>10. ASSUME NEW t \in Thread, Release(t)
       PROVE  Shape' /\ Calls'
  BY <1>10 DEF Release
<1>11. ASSUME NEW from, StopRound(from)
       PROVE  /\ queue' \in [Prio -> Seq(Item)]
              /\ queueSize' \in [Prio -> Int]
              /\ pc' \in [Thread -> PC]
              /\ ctl' \in {"idle", "readers", "writers"}
              /\ \A t \in Thread : pc'[t] # "idle" => pc[t] # "idle"
  <2>1. CASE pc' = SignalRecv(pc) /\ ctl' = "readers" /\ UNCHANGED <<queue, queueSize>>
    BY <2>1 DEF SignalRecv
  <2>2. CASE pc' = SignalSend(pc) /\ ctl' = "writers" /\ UNCHANGED <<queue, queueSize>>
    BY <2>2 DEF SignalSend
  <2>3. CASE queue' = [p \in Prio |-> <<>>] /\ ctl' = "idle" /\ UNCHANGED <<queueSize, pc>>
    BY <2>3
  <2>4. QED
    BY <1>11, <2>1, <2>2, <2>3 DEF StopRound
<1>12. CASE StopCall
  BY <1>11, <1>12 DEF StopCall
<1>13. CASE StopContinue
  BY <1>11, <1>13 DEF StopContinue
<1>14. CASE Start \/ Pause \/ Resume
  BY <1>14 DEF Start, Pause, Resume
<1>15. CASE UNCHANGED vars
  BY <1>15 DEF vars
<1> HIDE DEF Shape, Calls, PC, Timeout, Thread
<1>16. QED
  BY <1>1, <1>2, <1>3, <1>4, <1>5, <1>6, <1>7, <1>8, <1>9, <1>10, <1>12, <1>13,
     <1>14, <1>15, PutCases, GetCases DEF Next, WriterStep, ReaderStep, ThreadStep

-----------------------------------------------------------------------------
(***************************************************************************)
(* The counters.  A step moves at most one thread into or out of a wait;   *)
(* a signal moves none.                                                    *)
(***************************************************************************)
WaitingReaderSet == {r \in Readers : Waiting(r)}
WaitingWriterSet == {w \in Writers : Waiting(w)}

LEMMA WaitingFinite ==
  /\ IsFiniteSet(WaitingReaderSet) /\ Cardinality(WaitingReaderSet) \in Nat
  /\ IsFiniteSet(WaitingWriterSet) /\ Cardinality(WaitingWriterSet) \in Nat
BY SyncQueueAssumption, FS_Subset, FS_CardinalityType
   DEF WaitingReaderSet, WaitingWriterSet

\* A thread joins a finite set or leaves it.
LEMMA WaitingMoves ==
  ASSUME NEW S, IsFiniteSet(S), NEW t
  PROVE  /\ Cardinality(S \cup {t}) = Cardinality(S) + (IF t \in S THEN 0 ELSE 1)
         /\ Cardinality(S \ {t}) = Cardinality(S) - (IF t \in S THEN 1 ELSE 0)
<1>1. Cardinality(S) \in Nat
  BY FS_CardinalityType
<1>2. QED
  BY <1>1, FS_AddElement, FS_RemoveElement

LEMMA CountersNext == Shape /\ CountersAgree /\ [Next]_vars => CountersAgree'
<1> SUFFICES ASSUME Shape, CountersAgree, [Next]_vars
             PROVE  CountersAgree'
  OBVIOUS
<1> DEFINE R == WaitingReaderSet
           W == WaitingWriterSet
<1>0. /\ \A t \in Readers : t \in R <=> Waiting(t)
      /\ \A t \in Writers : t \in W <=> Waiting(t)
      /\ waitingReaders = Cardinality(R) /\ waitingWriters = Cardinality(W)
      /\ waitingReaders \in Int /\ waitingWriters \in Int
      /\ pc \in [Thread -> PC]
  BY DEF CountersAgree, WaitingReaderSet, WaitingWriterSet, Shape
<1>a. ASSUME waitingReaders' = Cardinality(R'), waitingWriters' = Cardinality(W')
      PROVE  CountersAgree'
  BY <1>a DEF CountersAgree, WaitingReaderSet, WaitingWriterSet
<1>b. ASSUME \A t \in Thread : Waiting(t)' <=> Waiting(t),
             UNCHANGED <<waitingReaders, waitingWriters>>
      PROVE  CountersAgree'
  <2>1. R' = R /\ W' = W
    BY <1>b DEF WaitingReaderSet, WaitingWriterSet, Thread
  <2>2. QED
    BY <1>0, <1>a, <1>b, <2>1
<1>1. ASSUME NEW t \in Thread, NEW to \in {"pause", "lock", "woken", "timedout"},
             pc[t] = "wait" <=> to \in {"woken", "timedout"},
             ~Waiting(t) \/ to \in {"woken", "timedout"},
             pc' = [pc EXCEPT ![t] = to],
             UNCHANGED <<waitingReaders, waitingWriters>>
      PROVE  CountersAgree'
  BY <1>0, <1>1, <1>b DEF Waiting
<1>2. ASSUME NEW w \in Writers, NEW n \in {0, -1}, PutSection(w, n),
             PutFalse(w, n) \/ PutWait(w, n) \/ PutTrue(w, n)
      PROVE  CountersAgree'
  <2>1. w \in W <=> n = -1
    BY <1>0, <1>2 DEF PutSection, Entered, Waiting
  <2>2. UNCHANGED waitingReaders
    BY <1>2 DEF PutSection
  <2>3. \A t \in Thread : t # w => (Waiting(t)' <=> Waiting(t))
    BY <1>0, <1>2 DEF PutFalse, PutWait, PutTrue, SignalRecv, Waiting
  <2>4. w \in Thread /\ R' = R
    BY <2>3, SyncQueueAssumption DEF WaitingReaderSet, Thread
  <2>5. CASE PutWait(w, n)
    <3>1. W' = W \cup {w} /\ waitingWriters' = waitingWriters + n + 1
      BY <1>0, <2>3, <2>4, <2>5 DEF PutWait, WaitingWriterSet, Waiting, Thread
    <3>2. Cardinality(W \cup {w}) = Cardinality(W) + (IF w \in W THEN 0 ELSE 1)
      BY WaitingMoves, WaitingFinite
    <3>3. waitingWriters' = Cardinality(W')
      BY <1>0, <2>1, <3>1, <3>2
    <3>4. QED
      BY <1>0, <1>a, <2>2, <2>4, <3>3
  <2>6. CASE PutFalse(w, n) \/ PutTrue(w, n)
    <3>1. ~Waiting(w)' /\ waitingWriters' = waitingWriters + n
      BY <1>0, <2>4, <2>6 DEF PutFalse, PutTrue, SignalRecv, Waiting
    <3>2. W' = W \ {w}
      BY <2>3, <3>1 DEF WaitingWriterSet, Thread
    <3>3. Cardinality(W \ {w}) = Cardinality(W) - (IF w \in W THEN 1 ELSE 0)
      BY WaitingMoves, WaitingFinite
    <3>4. waitingWriters' = Cardinality(W')
      BY <1>0, <2>1, <3>1, <3>2, <3>3
    <3>5. QED
      BY <1>0, <1>a, <2>2, <2>4, <3>4
  <2>7. QED
    BY <1>2, <2>5, <2>6
<1>3. ASSUME NEW r \in Readers, NEW n \in {0, -1}, GetSection(r, n),
             GetNull(r, n) \/ GetWait(r, n) \/ GetFirst(r, n)
      PROVE  CountersAgree'
  <2>1. r \in R <=> n = -1
    BY <1>0, <1>3 DEF GetSection, Entered, Waiting
  <2>2. UNCHANGED waitingWriters
    BY <1>3 DEF GetSection
  <2>3. \A t \in Thread : t # r => (Waiting(t)' <=> Waiting(t))
    BY <1>0, <1>3 DEF GetNull, GetWait, GetFirst, SignalSend, Waiting
  <2>4. r \in Thread /\ W' = W
    BY <2>3, SyncQueueAssumption DEF WaitingWriterSet, Thread
  <2>5. CASE GetWait(r, n)
    <3>1. R' = R \cup {r} /\ waitingReaders' = waitingReaders + n + 1
      BY <1>0, <2>3, <2>4, <2>5 DEF GetWait, WaitingReaderSet, Waiting, Thread
    <3>2. Cardinality(R \cup {r}) = Cardinality(R) + (IF r \in R THEN 0 ELSE 1)
      BY WaitingMoves, WaitingFinite
    <3>3. waitingReaders' = Cardinality(R')
      BY <1>0, <2>1, <3>1, <3>2
    <3>4. QED
      BY <1>0, <1>a, <2>2, <2>4, <3>3
  <2>6. CASE GetNull(r, n) \/ GetFirst(r, n)
    <3>1. ~Waiting(r)' /\ waitingReaders' = waitingReaders + n
      BY <1>0, <2>4, <2>6 DEF GetNull, GetFirst, SignalSend, Waiting
    <3>2. R' = R \ {r}
      BY <2>3, <3>1 DEF WaitingReaderSet, Thread
    <3>3. Cardinality(R \ {r}) = Cardinality(R) - (IF r \in R THEN 1 ELSE 0)
      BY WaitingMoves, WaitingFinite
    <3>4. waitingReaders' = Cardinality(R')
      BY <1>0, <2>1, <3>1, <3>2, <3>3
    <3>5. QED
      BY <1>0, <1>a, <2>2, <2>4, <3>4
  <2>7. QED
    BY <1>3, <2>5, <2>6
<1>4. ASSUME NEW w \in Writers, NEW i \in Item, NEW p \in Prio,
             NEW t \in Timeout, CallPut(w, i, p, t)
      PROVE  CountersAgree'
  BY <1>1, <1>4 DEF CallPut, Waiting, Thread
<1>5. ASSUME NEW r \in Readers, NEW t \in Timeout, CallGet(r, t)
      PROVE  CountersAgree'
  BY <1>1, <1>5 DEF CallGet, Waiting, Thread
<1>6. ASSUME NEW t \in Thread, ThreadStep(t)
      PROVE  CountersAgree'
  BY <1>1, <1>6, <1>b DEF ThreadStep, PassPause, Release, WaitTimesOut,
                          SpuriousWakeup, WaitReturns, Waiting
<1>7. CASE StopCall \/ StopContinue
  <2>1. pc' \in {SignalRecv(pc), SignalSend(pc), pc}
    BY <1>7 DEF StopCall, StopContinue, StopRound
  <2>2. \A t \in Thread : Waiting(t)' <=> Waiting(t)
    BY <1>0, <2>1 DEF Waiting, SignalRecv, SignalSend
  <2>3. QED
    BY <1>7, <1>b, <2>2 DEF StopCall, StopContinue
<1>8. CASE Start \/ Pause \/ Resume \/ UNCHANGED vars
  BY <1>8, <1>b DEF Start, Pause, Resume, vars, Waiting
<1>9. QED
  BY <1>2, <1>3, <1>4, <1>5, <1>6, <1>7, <1>8, PutCases, GetCases
     DEF Next, WriterStep, ReaderStep

-----------------------------------------------------------------------------
(***************************************************************************)
(* Stop.                                                                   *)
(***************************************************************************)
LEMMA NoneWaiting ==
  ASSUME CountersAgree
  PROVE  /\ ~(waitingReaders > 0) => \A r \in Readers : ~Waiting(r)
         /\ ~(waitingWriters > 0) => \A w \in Writers : ~Waiting(w)
<1>1. /\ waitingReaders = Cardinality(WaitingReaderSet)
      /\ waitingWriters = Cardinality(WaitingWriterSet)
  BY DEF CountersAgree, WaitingReaderSet, WaitingWriterSet
<1>2. /\ ~(waitingReaders > 0) => WaitingReaderSet = {}
      /\ ~(waitingWriters > 0) => WaitingWriterSet = {}
  BY <1>1, WaitingFinite, FS_EmptySet
<1>3. QED
  BY <1>2 DEF WaitingReaderSet, WaitingWriterSet

LEMMA StopNext ==
  Shape /\ CountersAgree /\ StopStage /\ StoppedIsQuiet /\ [Next]_vars
    => StopStage' /\ StoppedIsQuiet'
<1> SUFFICES ASSUME Shape, CountersAgree, StopStage, StoppedIsQuiet, [Next]_vars
             PROVE  StopStage' /\ StoppedIsQuiet'
  OBVIOUS
<1>0. pc \in [Thread -> PC] /\ ctl \in {"idle", "readers", "writers"}
  BY DEF Shape
\* A step of a thread that moves no thread into a wait and adds no item.
<1>a. ASSUME \A t \in Thread : Waiting(t)' => Waiting(t),
             NonEmpty' \subseteq NonEmpty,
             UNCHANGED <<cancel, ctl>>
      PROVE  StopStage' /\ StoppedIsQuiet'
  BY <1>a DEF StopStage, StoppedIsQuiet, Thread
\* A step of an open queue.
<1>b. ASSUME ~cancel, UNCHANGED <<cancel, ctl>>
      PROVE  StopStage' /\ StoppedIsQuiet'
  BY <1>b DEF StopStage, StoppedIsQuiet
<1>1. ASSUME NEW w \in Writers, NEW i \in Item, NEW p \in Prio,
             NEW t \in Timeout, CallPut(w, i, p, t)
      PROVE  StopStage' /\ StoppedIsQuiet'
  BY <1>0, <1>1, <1>a DEF CallPut, Waiting, NonEmpty
<1>2. ASSUME NEW w \in Writers, NEW n \in {0, -1}, PutSection(w, n),
             \/ PutFalse(w, n)
             \/ ~cancel /\ PutWait(w, n)
             \/ ~cancel /\ PutTrue(w, n)
      PROVE  StopStage' /\ StoppedIsQuiet'
  <2>1. CASE PutFalse(w, n)
    BY <1>0, <1>2, <2>1, <1>a DEF PutSection, PutFalse, Waiting, NonEmpty
  <2>2. CASE ~cancel
    BY <1>2, <2>2, <1>b DEF PutSection
  <2>3. QED
    BY <1>2, <2>1, <2>2
<1>3. ASSUME NEW r \in Readers, NEW t \in Timeout, CallGet(r, t)
      PROVE  StopStage' /\ StoppedIsQuiet'
  BY <1>0, <1>3, <1>a DEF CallGet, Waiting, NonEmpty
<1>4. ASSUME NEW r \in Readers, NEW n \in {0, -1}, GetSection(r, n),
             \/ GetNull(r, n)
             \/ ~cancel /\ GetWait(r, n)
             \/ ~cancel /\ GetFirst(r, n)
      PROVE  StopStage' /\ StoppedIsQuiet'
  <2>1. CASE GetNull(r, n)
    BY <1>0, <1>4, <2>1, <1>a DEF GetSection, GetNull, Waiting, NonEmpty
  <2>2. CASE ~cancel
    BY <1>4, <2>2, <1>b DEF GetSection
  <2>3. QED
    BY <1>4, <2>1, <2>2
<1>5. ASSUME NEW t \in Thread, ThreadStep(t)
      PROVE  StopStage' /\ StoppedIsQuiet'
  BY <1>0, <1>5, <1>a DEF ThreadStep, PassPause, Release, WaitTimesOut,
                          SpuriousWakeup, WaitReturns, Waiting, NonEmpty
<1>6. ASSUME NEW from \in {"readers", "writers"}, StopRound(from), cancel',
             from = "writers" => \A r \in Readers : ~Waiting(r)
      PROVE  StopStage' /\ StoppedIsQuiet'
  <2>1. CASE pc' = SignalRecv(pc) /\ ctl' = "readers"
    BY <1>6, <2>1 DEF StopStage, StoppedIsQuiet
  <2>2. CASE /\ ~(from = "readers" /\ waitingReaders > 0)
             /\ pc' = SignalSend(pc) /\ ctl' = "writers"
    <3>1. \A r \in Readers : ~Waiting(r)
      BY <1>6, <2>2, NoneWaiting
    <3>2. \A r \in Readers : ~Waiting(r)'
      BY <1>0, <2>2, <3>1 DEF Waiting, SignalSend, Thread
    <3>3. QED
      BY <1>6, <2>2, <3>2 DEF StopStage, StoppedIsQuiet
  <2>3. CASE /\ ~(from = "readers" /\ waitingReaders > 0)
             /\ ~(waitingWriters > 0)
             /\ queue' = [p \in Prio |-> <<>>] /\ ctl' = "idle" /\ pc' = pc
    <3>1. \A t \in Thread : ~Waiting(t)
      BY <1>6, <2>3, NoneWaiting DEF Thread
    <3>2. \A t \in Thread : ~Waiting(t)'
      BY <2>3, <3>1 DEF Waiting
    <3>3. NonEmpty' = {}
      BY <2>3 DEF NonEmpty
    <3>4. QED
      BY <2>3, <3>2, <3>3 DEF StopStage, StoppedIsQuiet
  <2>4. QED
    BY <1>6, <2>1, <2>2, <2>3 DEF StopRound
<1>7. CASE StopCall
  BY <1>6, <1>7 DEF StopCall
<1>8. CASE StopContinue
  <2>1. /\ ctl \in {"readers", "writers"}
        /\ StopRound(ctl)
        /\ cancel'
        /\ ctl = "writers" => \A r \in Readers : ~Waiting(r)
    BY <1>0, <1>8 DEF StopContinue, StopStage
  <2>2. QED
    BY <1>6, <2>1
<1>9. CASE Start
  BY <1>9 DEF Start, StopStage, StoppedIsQuiet
<1>10. CASE Pause \/ Resume \/ UNCHANGED vars
  BY <1>10, <1>a DEF Pause, Resume, vars, Waiting, NonEmpty
<1>11. ASSUME NEW w \in Writers, PutEnter(w) \/ PutWake(w)
       PROVE  StopStage' /\ StoppedIsQuiet'
  <2>1. PICK n \in {0, -1} : /\ PutSection(w, n)
                             /\ \/ PutFalse(w, n)
                                \/ ~cancel /\ PutWait(w, n)
                                \/ ~cancel /\ PutTrue(w, n)
    BY <1>11, PutCases
  <2>2. QED
    BY <1>2, <2>1
<1>12. ASSUME NEW r \in Readers, GetEnter(r) \/ GetWake(r)
       PROVE  StopStage' /\ StoppedIsQuiet'
  <2>1. PICK n \in {0, -1} : /\ GetSection(r, n)
                             /\ \/ GetNull(r, n)
                                \/ ~cancel /\ GetWait(r, n)
                                \/ ~cancel /\ GetFirst(r, n)
    BY <1>12, GetCases
  <2>2. QED
    BY <1>4, <2>1
<1>13. QED
  BY <1>1, <1>3, <1>5, <1>7, <1>8, <1>9, <1>10, <1>11, <1>12
     DEF Next, WriterStep, ReaderStep

-----------------------------------------------------------------------------
(***************************************************************************)
(* Wakeups.                                                                *)
(***************************************************************************)
LEMMA WakeupNext ==
  (/\ Shape /\ Calls /\ CountersAgree
   /\ NoReaderAsleepOverItems /\ NoWriterAsleepOverSpace /\ [Next]_vars)
    => NoReaderAsleepOverItems' /\ NoWriterAsleepOverSpace'
<1> DEFINE Goal == NoReaderAsleepOverItems' /\ NoWriterAsleepOverSpace'
<1> SUFFICES ASSUME Shape, Calls, CountersAgree, NoReaderAsleepOverItems,
                    NoWriterAsleepOverSpace, [Next]_vars
             PROVE  Goal
  OBVIOUS
<1>0. /\ pc \in [Thread -> PC]
      /\ held \in [Thread -> Item \cup {NoItem}]
      /\ prio \in [Writers -> Prio]
      /\ Size \in [Item -> Nat]
      /\ \A t \in Thread : t \in Writers <=> t \notin Readers
      /\ \A w \in Writers : w \in Thread
      /\ \A r \in Readers : r \in Thread
  BY SyncQueueAssumption DEF Shape, Thread
\* The queue is left alone and only a thread with reason to sleep falls asleep.
<1>a. ASSUME UNCHANGED <<queue, queueSize>>,
             \A r \in Readers : pc'[r] = "wait" => pc[r] = "wait" \/ NonEmpty = {},
             \A w \in Writers : pc'[w] = "wait" =>
               /\ prio'[w] = prio[w] /\ held'[w] = held[w]
               /\ pc[w] = "wait" \/ ~IsSpaceFor(prio[w], Size[held[w]])
      PROVE  Goal
  BY <1>a DEF NoReaderAsleepOverItems, NoWriterAsleepOverSpace, NonEmpty, IsSpaceFor
<1>1. ASSUME NEW w \in Writers, NEW i \in Item, NEW p \in Prio,
             NEW t \in Timeout, CallPut(w, i, p, t)
      PROVE  Goal
  BY <1>0, <1>1, <1>a DEF CallPut
<1>2. ASSUME NEW w \in Writers, NEW n \in {0, -1}, PutSection(w, n),
             PutFalse(w, n) \/ PutWait(w, n)
      PROVE  Goal
  BY <1>0, <1>2, <1>a DEF PutSection, PutFalse, PutWait
<1>3. ASSUME NEW w \in Writers, NEW n \in {0, -1}, PutSection(w, n), PutTrue(w, n)
      PROVE  Goal
  <2>1. \A r \in Readers : pc'[r] # "wait"
    BY <1>0, <1>3 DEF PutTrue, SignalRecv
  <2>2. held[w] \in Item /\ Size[held[w]] \in Nat /\ prio[w] \in Prio
    BY <1>0, <1>3 DEF Calls, PutSection, Entered
  <2>3. ASSUME NEW v \in Writers, pc'[v] = "wait"
        PROVE  ~IsSpaceFor(prio[v], Size[held[v]])'
    <3>1. /\ pc[v] = "wait" /\ v # w /\ prio'[v] = prio[v] /\ held'[v] = held[v]
          /\ ~IsSpaceFor(prio[v], Size[held[v]])
      BY <1>0, <1>3, <2>3
         DEF PutSection, PutTrue, SignalRecv, NoWriterAsleepOverSpace
    <3>2. held[v] \in Item /\ Size[held[v]] \in Nat /\ prio[v] \in Prio
      BY <1>0, <3>1 DEF Calls
    <3>3. PICK p \in Prio, x \in Item, q \in Prio, y \in Nat :
            p = prio[w] /\ x = held[w] /\ q = prio[v] /\ y = Size[held[v]]
      BY <2>2, <3>2
    <3>4. /\ queue' = [queue EXCEPT ![p] = Append(queue[p], x)]
          /\ queueSize' = [queueSize EXCEPT ![p] = queueSize[p] + Size[x]]
      BY <1>3, <3>3 DEF PutTrue
    <3>5. Len(queue'[q]) >= Len(queue[q]) /\ queueSize'[q] >= queueSize[q]
          /\ Len(queue'[q]) \in Nat /\ Len(queue[q]) \in Nat
          /\ queueSize'[q] \in Int /\ queueSize[q] \in Int
      BY <1>0, <3>4 DEF Shape
    <3>6. MaxItems[q] \in Nat /\ MaxSize[q] \in Nat
      BY SyncQueueAssumption
    <3>7. QED
      BY <3>1, <3>3, <3>5, <3>6 DEF IsSpaceFor
  <2>4. QED
    BY <2>1, <2>3 DEF NoReaderAsleepOverItems, NoWriterAsleepOverSpace
<1>4. ASSUME NEW r \in Readers, NEW t \in Timeout, CallGet(r, t)
      PROVE  Goal
  BY <1>0, <1>4, <1>a DEF CallGet
<1>5. ASSUME NEW r \in Readers, NEW n \in {0, -1}, GetSection(r, n),
             GetNull(r, n) \/ GetWait(r, n)
      PROVE  Goal
  BY <1>0, <1>5, <1>a DEF GetSection, GetNull, GetWait
<1>6. ASSUME NEW r \in Readers, NEW n \in {0, -1}, GetSection(r, n), GetFirst(r, n)
      PROVE  Goal
  <2>1. NonEmpty # {}
    BY <1>6 DEF GetFirst
  <2>2. \A s \in Readers : pc[s] # "wait"
    BY <2>1 DEF NoReaderAsleepOverItems
  <2>3. \A t \in Thread : pc'[t] # "wait"
    BY <1>0, <1>6, <2>2 DEF GetFirst, SignalSend
  <2>4. QED
    BY <1>0, <2>3 DEF NoReaderAsleepOverItems, NoWriterAsleepOverSpace
<1>7. ASSUME NEW t \in Thread, PassPause(t) \/ WaitTimesOut(t) \/ SpuriousWakeup(t)
      PROVE  Goal
  BY <1>0, <1>7, <1>a DEF PassPause, WaitTimesOut, SpuriousWakeup, WaitReturns
<1>8. ASSUME NEW t \in Thread, Release(t)
      PROVE  Goal
  BY <1>0, <1>8, <1>a DEF Release
<1>9. ASSUME NEW from, StopRound(from), UNCHANGED <<prio, held>>
      PROVE  Goal
  <2>1. CASE pc' \in {SignalRecv(pc), SignalSend(pc)} /\ UNCHANGED <<queue, queueSize>>
    BY <1>0, <1>9, <2>1, <1>a DEF SignalRecv, SignalSend
  <2>2. CASE ~(waitingWriters > 0) /\ queue' = [p \in Prio |-> <<>>] /\ pc' = pc
    <3>1. \A w \in Writers : pc'[w] # "wait"
      BY <2>2, NoneWaiting DEF Waiting
    <3>2. NonEmpty' = {}
      BY <2>2 DEF NonEmpty
    <3>3. QED
      BY <3>1, <3>2 DEF NoReaderAsleepOverItems, NoWriterAsleepOverSpace
  <2>3. QED
    BY <1>9, <2>1, <2>2 DEF StopRound
<1>10. CASE StopCall \/ StopContinue
  BY <1>9, <1>10 DEF StopCall, StopContinue
<1>11. CASE Start \/ Pause \/ Resume \/ UNCHANGED vars
  BY <1>11, <1>a DEF Start, Pause, Resume, vars
<1> HIDE DEF Goal
<1>12. QED
  BY <1>1, <1>2, <1>3, <1>4, <1>5, <1>6, <1>7, <1>8, <1>10, <1>11, PutCases,
     GetCases DEF Next, WriterStep, ReaderStep, ThreadStep

-----------------------------------------------------------------------------
(***************************************************************************)
(* Limits and ownership.  These two say what an append and a removal do to *)
(* the places of a queue.                                                  *)
(***************************************************************************)
LEMMA PutPlaces ==
  ASSUME Shape, Calls, NEW w \in Writers, NEW n \in {0, -1},
         PutSection(w, n), PutTrue(w, n)
  PROVE  \E p \in Prio, x \in Item :
           /\ x = held[w]
           /\ MaxItems[p] = 0 \/ Len(queue[p]) < MaxItems[p]
           /\ \A q \in Prio :
                /\ Len(queue[q]) \in Nat
                /\ Len(queue'[q]) = IF q = p THEN Len(queue[q]) + 1 ELSE Len(queue[q])
                /\ \A j \in 1..Len(queue'[q]) :
                     queue'[q][j] = IF q = p /\ j = Len(queue[p]) + 1
                                    THEN x ELSE queue[q][j]
<1>1. w \in Thread /\ held[w] \in Item /\ prio[w] \in Prio
  BY DEF Shape, Calls, PutSection, Entered, Thread
<1>2. PICK p \in Prio, x \in Item : p = prio[w] /\ x = held[w]
  BY <1>1
<1>3. queue' = [queue EXCEPT ![p] = Append(queue[p], x)]
  BY <1>2 DEF PutTrue
<1>4. MaxItems[p] = 0 \/ Len(queue[p]) < MaxItems[p]
  BY <1>2 DEF PutTrue, IsSpaceFor
<1>5. ASSUME NEW q \in Prio
      PROVE  /\ Len(queue[q]) \in Nat
             /\ Len(queue'[q]) = IF q = p THEN Len(queue[q]) + 1 ELSE Len(queue[q])
             /\ \A j \in 1..Len(queue'[q]) :
                  queue'[q][j] = IF q = p /\ j = Len(queue[p]) + 1
                                 THEN x ELSE queue[q][j]
  BY <1>3 DEF Shape
<1>6. QED
  BY <1>2, <1>4, <1>5

LEMMA GetPlaces ==
  ASSUME Shape, NEW r \in Readers, NEW n \in {0, -1}, GetFirst(r, n)
  PROVE  \E p \in Prio :
           /\ held' = [held EXCEPT ![r] = queue[p][1]]
           /\ queue[p][1] \in Item
           /\ 1 \in 1..Len(queue[p])
           /\ \A q \in Prio :
                /\ Len(queue[q]) \in Nat
                /\ Len(queue'[q]) = IF q = p THEN Len(queue[q]) - 1 ELSE Len(queue[q])
                /\ \A j \in 1..Len(queue'[q]) :
                     queue'[q][j] = IF q = p THEN queue[q][j + 1] ELSE queue[q][j]
<1>1. PICK p \in NonEmpty :
        /\ held' = [held EXCEPT ![r] = Head(queue[p])]
        /\ queue' = [queue EXCEPT ![p] = Tail(queue[p])]
  BY DEF GetFirst
<1>2. p \in Prio /\ queue[p] \in Seq(Item) /\ queue[p] # <<>>
  BY DEF NonEmpty, Shape
<1>3. /\ 1 \in 1..Len(queue[p])
      /\ Head(queue[p]) = queue[p][1]
      /\ queue[p][1] \in Item
  BY <1>2
<1>4. ASSUME NEW q \in Prio
      PROVE  /\ Len(queue[q]) \in Nat
             /\ Len(queue'[q]) = IF q = p THEN Len(queue[q]) - 1 ELSE Len(queue[q])
             /\ \A j \in 1..Len(queue'[q]) :
                  queue'[q][j] = IF q = p THEN queue[q][j + 1] ELSE queue[q][j]
  BY <1>1, <1>2 DEF Shape
<1>5. QED
  BY <1>1, <1>2, <1>3, <1>4

LEMMA OwnerNext ==
  Shape /\ Calls /\ OneOwner /\ [Next]_vars => OneOwner'
<1> SUFFICES ASSUME Shape, Calls, OneOwner, [Next]_vars
             PROVE  OneOwner'
  OBVIOUS
<1>0. /\ held \in [Thread -> Item \cup {NoItem}]
      /\ \A w \in Writers : w \in Thread
      /\ \A r \in Readers : r \in Thread
      /\ NoItem \notin Item
  BY SyncQueueAssumption DEF Shape, Thread
<1>a. ASSUME UNCHANGED queue, UNCHANGED held
      PROVE  OneOwner'
  BY <1>a DEF OneOwner, InQueue
<1>b. ASSUME UNCHANGED queue, NEW t \in Thread, NEW x,
             held' = [held EXCEPT ![t] = x],
             x = NoItem \/ x = held[t] \/ Free(x)
      PROVE  OneOwner'
  BY <1>0, <1>b DEF OneOwner, InQueue, Free
<1>1. ASSUME NEW w \in Writers, NEW i \in Item, NEW p \in Prio,
             NEW t \in Timeout, CallPut(w, i, p, t)
      PROVE  OneOwner'
  BY <1>0, <1>1, <1>b DEF CallPut
<1>2. ASSUME NEW w \in Writers, NEW n \in {0, -1}, PutSection(w, n),
             PutFalse(w, n) \/ PutWait(w, n)
      PROVE  OneOwner'
  BY <1>2, <1>a DEF PutFalse, PutWait
<1>3. ASSUME NEW w \in Writers, NEW n \in {0, -1}, PutSection(w, n), PutTrue(w, n)
      PROVE  OneOwner'
  <2>1. PICK p \in Prio, x \in Item :
           /\ x = held[w]
           /\ \A q \in Prio :
                /\ Len(queue[q]) \in Nat
                /\ Len(queue'[q]) = IF q = p THEN Len(queue[q]) + 1 ELSE Len(queue[q])
                /\ \A j \in 1..Len(queue'[q]) :
                     queue'[q][j] = IF q = p /\ j = Len(queue[p]) + 1
                                    THEN x ELSE queue[q][j]
    BY <1>3, PutPlaces
  <2>2. \A t \in Thread : held'[t] = IF t = w THEN NoItem ELSE held[t]
    BY <1>0, <1>3 DEF PutTrue
  <2>3. \A q \in Prio : \A j \in 1..Len(queue[q]) : queue[q][j] # x
    BY <1>0, <2>1 DEF OneOwner, InQueue
  <2>4. \A t \in Thread : held'[t] # x
    BY <1>0, <2>1, <2>2 DEF OneOwner
  <2>5. \A q, s \in Prio : \A j \in 1..Len(queue'[q]), k \in 1..Len(queue'[s]) :
          queue'[q][j] = queue'[s][k] => q = s /\ j = k
    BY <2>1, <2>3 DEF OneOwner
  <2>6. ASSUME NEW t \in Thread, held'[t] # NoItem, InQueue(held[t])'
        PROVE  FALSE
    <3>1. PICK q \in Prio : \E j \in 1..Len(queue'[q]) : queue'[q][j] = held'[t]
      BY <2>6 DEF InQueue
    <3>1a. PICK j \in 1..Len(queue'[q]) : queue'[q][j] = held'[t]
      BY <3>1
    <3>2. held'[t] = held[t] /\ held[t] # NoItem /\ held'[t] # x
      BY <2>2, <2>4, <2>6
    <3>3. j \in 1..Len(queue[q]) /\ queue[q][j] = held[t]
      BY <2>1, <3>1a, <3>2
    <3>4. QED
      BY <3>2, <3>3 DEF OneOwner, InQueue
  <2>7. \A t, u \in Thread : held'[t] # NoItem /\ held'[t] = held'[u] => t = u
    BY <2>2 DEF OneOwner
  <2>8. QED
    BY <2>5, <2>6, <2>7 DEF OneOwner
<1>4. ASSUME NEW r \in Readers, NEW t \in Timeout, CallGet(r, t)
      PROVE  OneOwner'
  BY <1>4, <1>a DEF CallGet
<1>5. ASSUME NEW r \in Readers, NEW n \in {0, -1}, GetSection(r, n),
             GetNull(r, n) \/ GetWait(r, n)
      PROVE  OneOwner'
  BY <1>5, <1>a DEF GetNull, GetWait
<1>6. ASSUME NEW r \in Readers, NEW n \in {0, -1}, GetSection(r, n), GetFirst(r, n)
      PROVE  OneOwner'
  <2>1. PICK p \in Prio :
           /\ held' = [held EXCEPT ![r] = queue[p][1]]
           /\ queue[p][1] \in Item
           /\ 1 \in 1..Len(queue[p])
           /\ \A q \in Prio :
                /\ Len(queue[q]) \in Nat
                /\ Len(queue'[q]) = IF q = p THEN Len(queue[q]) - 1 ELSE Len(queue[q])
                /\ \A j \in 1..Len(queue'[q]) :
                     queue'[q][j] = IF q = p THEN queue[q][j + 1] ELSE queue[q][j]
    BY <1>6, GetPlaces
  <2>2. \A t \in Thread : held'[t] = IF t = r THEN queue[p][1] ELSE held[t]
    BY <1>0, <2>1
  <2>3. ASSUME NEW q \in Prio, NEW j \in 1..Len(queue'[q])
        PROVE  \E k \in 1..Len(queue[q]) :
                 /\ queue'[q][j] = queue[q][k]
                 /\ k = IF q = p THEN j + 1 ELSE j
                 /\ q = p => k # 1
    BY <2>1
  <2>4. \A q, s \in Prio : \A j \in 1..Len(queue'[q]), k \in 1..Len(queue'[s]) :
          queue'[q][j] = queue'[s][k] => q = s /\ j = k
    BY <2>3 DEF OneOwner
  <2>5. ASSUME NEW t \in Thread, held'[t] # NoItem, InQueue(held[t])'
        PROVE  FALSE
    <3>1. PICK q \in Prio : \E j \in 1..Len(queue'[q]) : queue'[q][j] = held'[t]
      BY <2>5 DEF InQueue
    <3>1a. PICK j \in 1..Len(queue'[q]) : queue'[q][j] = held'[t]
      BY <3>1
    <3>2. PICK k \in 1..Len(queue[q]) : queue[q][k] = held'[t] /\ (q = p => k # 1)
      BY <2>3, <3>1a
    <3>3. CASE t = r
      BY <2>1, <2>2, <3>2, <3>3 DEF OneOwner
    <3>4. CASE t # r
      BY <2>2, <2>5, <3>2, <3>4 DEF OneOwner, InQueue
    <3>5. QED
      BY <3>3, <3>4
  <2>6. \A t \in Thread : t # r => held[t] # queue[p][1]
    BY <1>0, <2>1 DEF OneOwner, InQueue
  <2>7. \A t, u \in Thread : held'[t] # NoItem /\ held'[t] = held'[u] => t = u
    BY <2>2, <2>6 DEF OneOwner
  <2>8. QED
    BY <2>4, <2>5, <2>7 DEF OneOwner
<1>7. ASSUME NEW t \in Thread, PassPause(t) \/ WaitTimesOut(t) \/ SpuriousWakeup(t)
      PROVE  OneOwner'
  BY <1>7, <1>a DEF PassPause, WaitTimesOut, SpuriousWakeup, WaitReturns
<1>8. ASSUME NEW t \in Thread, Release(t)
      PROVE  OneOwner'
  BY <1>8, <1>b DEF Release
<1>9. CASE StopCall \/ StopContinue
  <2>1. UNCHANGED held /\ (UNCHANGED queue \/ queue' = [p \in Prio |-> <<>>])
    BY <1>9 DEF StopCall, StopContinue, StopRound
  <2>2. CASE queue' = [p \in Prio |-> <<>>]
    <3>1. \A p \in Prio : Len(queue'[p]) = 0
      BY <2>2
    <3>2. QED
      BY <2>1, <3>1 DEF OneOwner, InQueue
  <2>3. QED
    BY <1>a, <2>1, <2>2
<1>10. CASE Start \/ Pause \/ Resume \/ UNCHANGED vars
  BY <1>10, <1>a DEF Start, Pause, Resume, vars
<1>11. QED
  BY <1>1, <1>2, <1>3, <1>4, <1>5, <1>6, <1>7, <1>8, <1>9, <1>10, PutCases,
     GetCases DEF Next, WriterStep, ReaderStep, ThreadStep

LEMMA LimitNext ==
  Shape /\ Calls /\ ItemsWithinLimit /\ [Next]_vars => ItemsWithinLimit'
<1> SUFFICES ASSUME Shape, Calls, ItemsWithinLimit, [Next]_vars
             PROVE  ItemsWithinLimit'
  OBVIOUS
<1>0. \A q \in Prio : Len(queue[q]) \in Nat /\ MaxItems[q] \in Nat
  BY SyncQueueAssumption DEF Shape
<1>a. ASSUME UNCHANGED queue
      PROVE  ItemsWithinLimit'
  BY <1>a DEF ItemsWithinLimit
<1>1. ASSUME NEW w \in Writers, NEW n \in {0, -1}, PutSection(w, n), PutTrue(w, n)
      PROVE  ItemsWithinLimit'
  <2>1. \E p \in Prio, x \in Item :
           /\ MaxItems[p] = 0 \/ Len(queue[p]) < MaxItems[p]
           /\ \A q \in Prio :
                Len(queue'[q]) = IF q = p THEN Len(queue[q]) + 1 ELSE Len(queue[q])
    BY <1>1, PutPlaces
  <2>2. QED
    BY <1>0, <2>1 DEF ItemsWithinLimit
<1>2. ASSUME NEW r \in Readers, NEW n \in {0, -1}, GetSection(r, n), GetFirst(r, n)
      PROVE  ItemsWithinLimit'
  <2>1. \E p \in Prio : \A q \in Prio :
           Len(queue'[q]) = IF q = p THEN Len(queue[q]) - 1 ELSE Len(queue[q])
    BY <1>2, GetPlaces
  <2>2. QED
    BY <1>0, <2>1 DEF ItemsWithinLimit
<1>3. ASSUME NEW w \in Writers, NEW n \in {0, -1}, PutFalse(w, n) \/ PutWait(w, n)
      PROVE  ItemsWithinLimit'
  BY <1>3, <1>a DEF PutFalse, PutWait
<1>4. ASSUME NEW r \in Readers, NEW n \in {0, -1}, GetNull(r, n) \/ GetWait(r, n)
      PROVE  ItemsWithinLimit'
  BY <1>4, <1>a DEF GetNull, GetWait
<1>5. CASE StopCall \/ StopContinue
  <2>1. UNCHANGED queue \/ queue' = [p \in Prio |-> <<>>]
    BY <1>5 DEF StopCall, StopContinue, StopRound
  <2>2. CASE queue' = [p \in Prio |-> <<>>]
    <3>1. \A q \in Prio : Len(queue'[q]) = 0
      BY <2>2
    <3>2. QED
      BY <1>0, <3>1 DEF ItemsWithinLimit
  <2>3. QED
    BY <1>a, <2>1, <2>2
<1>6. ASSUME \/ \E w \in Writers, i \in Item, p \in Prio, t \in Timeout :
                  CallPut(w, i, p, t)
             \/ \E r \in Readers, t \in Timeout : CallGet(r, t)
             \/ \E t \in Thread : ThreadStep(t)
             \/ Start \/ Pause \/ Resume \/ UNCHANGED vars
      PROVE  ItemsWithinLimit'
  BY <1>6, <1>a DEF CallPut, CallGet, ThreadStep, PassPause, Release,
     WaitTimesOut, SpuriousWakeup, WaitReturns, Start, Pause, Resume, vars
<1>7. QED
  BY <1>1, <1>2, <1>3, <1>4, <1>5, <1>6, PutCases, GetCases
     DEF Next, WriterStep, ReaderStep

-----------------------------------------------------------------------------
(***************************************************************************)
(* Sizes.  The total that a sub-queue keeps is at least the size of the    *)
(* items in it: after deleteAllItems it is larger.                         *)
(***************************************************************************)
Sized ==
  \A p \in Prio :
    /\ IsFiniteSet(Units(queue[p]))
    /\ Cardinality(Units(queue[p])) <= queueSize[p]
    /\ MaxSize[p] # 0 => queueSize[p] <= MaxSize[p]

LEMMA InUnits ==
  ASSUME NEW q, NEW u
  PROVE  u \in Units(q) <=> \E k \in 1..Len(q), n \in Nat : n \in 1..Size[q[k]] /\ u = <<k, n>>
BY DEF Units

\* Sets with a bijection between them are equally large.
LEMMA Matched ==
  ASSUME NEW S, NEW T, IsFiniteSet(S), NEW f \in [S -> T],
         \A x, y \in S : f[x] = f[y] => x = y,
         \A z \in T : \E x \in S : f[x] = z
  PROVE  IsFiniteSet(T) /\ Cardinality(T) = Cardinality(S)
<1>1. f \in Bijection(S, T)
  BY DEF Bijection, Injection, Surjection, IsInjective
<1>2. ExistsBijection(S, T)
  BY <1>1 DEF ExistsBijection
<1>3. QED
  BY <1>2, FS_Bijection

\* The units of one item.
LEMMA UnitsOfOne ==
  ASSUME NEW k, NEW m \in Nat
  PROVE  IsFiniteSet({k} \X (1..m)) /\ Cardinality({k} \X (1..m)) = m
<1>1. IsFiniteSet(1..m) /\ Cardinality(1..m) = m
  BY FS_Interval
<1>2. PICK f : f = [n \in 1..m |-> <<k, n>>]
  OBVIOUS
<1>3. f \in [1..m -> {k} \X (1..m)]
  BY <1>2
<1>4. \A x, y \in 1..m : f[x] = f[y] => x = y
  BY <1>2
<1>5. \A z \in {k} \X (1..m) : \E x \in 1..m : f[x] = z
  BY <1>2
<1>6. IsFiniteSet({k} \X (1..m)) /\ Cardinality({k} \X (1..m)) = Cardinality(1..m)
  BY <1>1, <1>3, <1>4, <1>5, Matched, ZenonT(60)
<1>7. QED
  BY <1>1, <1>6

LEMMA UnitsAppend ==
  ASSUME NEW q \in Seq(Item), NEW i \in Item, IsFiniteSet(Units(q))
  PROVE  /\ IsFiniteSet(Units(Append(q, i)))
         /\ Cardinality(Units(Append(q, i))) = Cardinality(Units(q)) + Size[i]
<1>1. PICK l \in Nat : l = Len(q)
  OBVIOUS
<1>2. PICK r : r = Append(q, i)
  OBVIOUS
<1>3. Len(r) = l + 1 /\ r[l + 1] = i /\ \A k \in 1..l : r[k] = q[k]
  BY <1>1, <1>2
<1>4. PICK m \in Nat : m = Size[i]
  BY SyncQueueAssumption
<1>5. PICK U, V : U = Units(q) /\ V = {l + 1} \X (1..m)
  OBVIOUS
<1>6. Units(r) = U \cup V
  <2>1. ASSUME NEW u PROVE u \in Units(r) <=> u \in U \/ u \in V
    <3>1. u \in V <=> \E n \in 1..m : u = <<l + 1, n>>
      BY <1>5
    <3>2. u \in U <=> \E k \in 1..l, n \in Nat : n \in 1..Size[q[k]] /\ u = <<k, n>>
      BY <1>1, <1>5, InUnits
    <3>3. u \in Units(r) <=> \E k \in 1..l + 1, n \in Nat : n \in 1..Size[r[k]] /\ u = <<k, n>>
      BY <1>3, InUnits
    <3>4. ASSUME NEW k \in 1..l + 1, NEW n \in 1..Size[r[k]], u = <<k, n>>
          PROVE  u \in U \/ u \in V
      <4>1. CASE k = l + 1
        BY <1>3, <1>4, <3>1, <3>4, <4>1
      <4>2. CASE k \in 1..l
        BY <1>3, <3>2, <3>4, <4>2
      <4>3. QED
        BY <4>1, <4>2
    <3>5. ASSUME NEW n \in 1..m, u = <<l + 1, n>> PROVE u \in Units(r)
      <4>1. l + 1 \in 1..l + 1 /\ n \in 1..Size[r[l + 1]]
        BY <1>3, <1>4
      <4>2. QED
        BY <3>3, <3>5, <4>1
    <3>6. ASSUME NEW k \in 1..l, NEW n \in 1..Size[q[k]], u = <<k, n>> PROVE u \in Units(r)
      <4>1. k \in 1..l + 1 /\ n \in 1..Size[r[k]]
        BY <1>3
      <4>2. QED
        BY <3>3, <3>6, <4>1
    <3>7. QED
      BY <3>1, <3>2, <3>3, <3>4, <3>5, <3>6
  <2>2. QED
    BY <2>1
<1>7. U \cap V = {}
  <2>1. ASSUME NEW u \in U, u \in V PROVE FALSE
    <3>1. PICK k \in 1..l, n \in Nat : n \in 1..Size[q[k]] /\ u = <<k, n>>
      BY <1>1, <1>5, InUnits
    <3>2. PICK j \in 1..m : u = <<l + 1, j>>
      BY <1>5, <2>1
    <3>3. k = l + 1
      BY <3>1, <3>2
    <3>4. QED
      BY <3>3
  <2>2. QED
    BY <2>1
<1>8. IsFiniteSet(V) /\ Cardinality(V) = m
  BY <1>5, UnitsOfOne
<1>9. Cardinality(U) \in Nat /\ Cardinality(U \cap V) = 0
  BY <1>5, <1>7, FS_CardinalityType, FS_EmptySet
<1>10. IsFiniteSet(U \cup V) /\ Cardinality(U \cup V) = Cardinality(U) + m
  <2>1. IsFiniteSet(U \cup V)
        /\ Cardinality(U \cup V) = Cardinality(U) + Cardinality(V) - Cardinality(U \cap V)
    BY <1>5, <1>8, FS_Union, Zenon
  <2>2. QED
    BY <1>8, <1>9, <2>1
<1>11. QED
  BY <1>2, <1>4, <1>5, <1>6, <1>10

LEMMA UnitsTail ==
  ASSUME NEW q \in Seq(Item), q # <<>>, IsFiniteSet(Units(q))
  PROVE  /\ IsFiniteSet(Units(Tail(q)))
         /\ Cardinality(Units(Tail(q))) = Cardinality(Units(q)) - Size[Head(q)]
<1>1. PICK l \in Nat : l + 1 = Len(q)
  <2>1. Len(q) \in Nat /\ Len(q) # 0
    OBVIOUS
  <2>2. Len(q) - 1 \in Nat /\ (Len(q) - 1) + 1 = Len(q)
    BY <2>1
  <2>3. QED
    BY <2>2
<1>2. PICK r : r = Tail(q)
  OBVIOUS
<1>3. Len(r) = l /\ \A k \in 1..l : r[k] = q[k + 1]
  BY <1>1, <1>2
<1>4. PICK m \in Nat : m = Size[Head(q)] /\ m = Size[q[1]]
  <2>1. Head(q) = q[1] /\ Head(q) \in Item
    OBVIOUS
  <2>2. QED
    BY <2>1, SyncQueueAssumption
<1>5. PICK U, V, W : U = Units(q) /\ V = {1} \X (1..m) /\ W = U \ V
  OBVIOUS
<1>6. V \subseteq U
  <2>1. ASSUME NEW u \in V PROVE u \in U
    <3>1. PICK n \in 1..m : u = <<1, n>>
      BY <1>5
    <3>2. 1 \in 1..Len(q) /\ n \in 1..Size[q[1]]
      BY <1>1, <1>4
    <3>3. QED
      BY <1>5, <3>1, <3>2, InUnits
  <2>2. QED
    BY <2>1
<1>7. IsFiniteSet(W) /\ Cardinality(W) = Cardinality(U) - m
  <2>1. IsFiniteSet(V) /\ Cardinality(V) = m /\ U \cap V = V
    BY <1>5, <1>6, UnitsOfOne
  <2>2. IsFiniteSet(U \ V) /\ Cardinality(U \ V) = Cardinality(U) - Cardinality(U \cap V)
    BY <1>5, FS_Difference, Zenon
  <2>3. QED
    BY <1>5, <2>1, <2>2
<1>8. \A u : u \in W <=> \E k \in 1..l, n \in Nat : n \in 1..Size[q[k + 1]] /\ u = <<k + 1, n>>
  <2>1. ASSUME NEW u \in W
        PROVE  \E k \in 1..l, n \in Nat : n \in 1..Size[q[k + 1]] /\ u = <<k + 1, n>>
    <3>1. PICK k \in 1..l + 1, n \in Nat : n \in 1..Size[q[k]] /\ u = <<k, n>>
      BY <1>1, <1>5, <2>1, InUnits
    <3>2. k # 1
      BY <1>4, <1>5, <2>1, <3>1
    <3>3. k - 1 \in 1..l /\ (k - 1) + 1 = k
      BY <3>2
    <3>4. QED
      BY <3>1, <3>3
  <2>2. ASSUME NEW k \in 1..l, NEW n \in 1..Size[q[k + 1]]
        PROVE  <<k + 1, n>> \in W
    <3>1. k + 1 \in 1..Len(q)
      BY <1>1
    <3>2. <<k + 1, n>> \in U
      BY <1>5, <3>1, InUnits
    <3>3. <<k + 1, n>> \notin V
      BY <1>5
    <3>4. QED
      BY <1>5, <3>2, <3>3
  <2>3. QED
    BY <2>1, <2>2
<1>9. \A u : u \in Units(r) <=> \E k \in 1..l, n \in Nat : n \in 1..Size[q[k + 1]] /\ u = <<k, n>>
  <2>1. \A u : u \in Units(r) <=> \E k \in 1..l, n \in Nat : n \in 1..Size[r[k]] /\ u = <<k, n>>
    <3>1. \A u : u \in Units(r) <=>
                  \E k \in 1..Len(r), n \in Nat : n \in 1..Size[r[k]] /\ u = <<k, n>>
      BY InUnits
    <3>2. Len(r) = l
      BY <1>3
    <3>3. QED
      BY <3>1, <3>2, Zenon
  <2>2. \A k \in 1..l : Size[r[k]] = Size[q[k + 1]]
    BY <1>3
  <2>3. QED
    BY <2>1, <2>2, Zenon
<1>10. PICK f : f = [u \in W |-> <<u[1] - 1, u[2]>>]
  OBVIOUS
<1>11. ASSUME NEW u \in W
       PROVE  \E k \in 1..l, n \in Nat : n \in 1..Size[q[k + 1]] /\ u = <<k + 1, n>> /\ f[u] = <<k, n>>
  <2>1. PICK k \in 1..l, n \in Nat : n \in 1..Size[q[k + 1]] /\ u = <<k + 1, n>>
    BY <1>8
  <2>2. f[u] = <<k, n>>
    BY <1>10, <2>1
  <2>3. QED
    BY <2>1, <2>2
<1>12. f \in [W -> Units(r)]
  BY <1>9, <1>10, <1>11
<1>13. \A x, y \in W : f[x] = f[y] => x = y
  BY <1>11
<1>14. \A z \in Units(r) : \E x \in W : f[x] = z
  <2>1. SUFFICES ASSUME NEW z \in Units(r) PROVE \E x \in W : f[x] = z
    OBVIOUS
  <2>2. PICK k \in 1..l, n \in Nat : n \in 1..Size[q[k + 1]] /\ z = <<k, n>>
    BY <1>9
  <2>3. <<k + 1, n>> \in W
    <3>1. \E j \in 1..l, i \in Nat : i \in 1..Size[q[j + 1]] /\ <<k + 1, n>> = <<j + 1, i>>
      BY <2>2
    <3>2. QED
      BY <1>8, <3>1
  <2>4. f[<<k + 1, n>>] = <<k, n>>
    BY <1>10, <2>3
  <2>5. QED
    BY <2>2, <2>3, <2>4
<1>15. IsFiniteSet(Units(r)) /\ Cardinality(Units(r)) = Cardinality(W)
  BY <1>7, <1>12, <1>13, <1>14, Matched
<1>16. QED
  BY <1>2, <1>4, <1>5, <1>7, <1>15

LEMMA SizedNext ==
  Shape /\ Calls /\ Sized /\ [Next]_vars => Sized'
<1> SUFFICES ASSUME Shape, Calls, Sized, [Next]_vars
             PROVE  Sized'
  OBVIOUS
<1>0. /\ queue \in [Prio -> Seq(Item)] /\ queueSize \in [Prio -> Int]
      /\ \A p \in Prio : MaxSize[p] \in Nat
      /\ \A i \in Item : Size[i] \in Nat
  BY SyncQueueAssumption DEF Shape
<1>a. ASSUME UNCHANGED <<queue, queueSize>>
      PROVE  Sized'
  BY <1>a DEF Sized
<1>b. \A p \in Prio : Cardinality(Units(queue[p])) \in Nat
  BY FS_CardinalityType DEF Sized
<1>1. ASSUME NEW w \in Writers, NEW n \in {0, -1}, PutSection(w, n), PutTrue(w, n)
      PROVE  Sized'
  <2>1. w \in Thread /\ held[w] \in Item /\ prio[w] \in Prio
    BY <1>1 DEF Shape, Calls, PutSection, Entered, Thread
  <2>2. PICK p \in Prio, x \in Item : p = prio[w] /\ x = held[w]
    BY <2>1
  <2>3. /\ queue' = [queue EXCEPT ![p] = Append(queue[p], x)]
        /\ queueSize' = [queueSize EXCEPT ![p] = queueSize[p] + Size[x]]
        /\ MaxSize[p] # 0 => queueSize[p] + Size[x] <= MaxSize[p]
    BY <1>1, <2>2 DEF PutTrue, IsSpaceFor
  <2>4. PICK g \in Seq(Item) : g = queue[p]
    BY <1>0
  <2>5. /\ IsFiniteSet(Units(Append(g, x)))
        /\ Cardinality(Units(Append(g, x))) = Cardinality(Units(g)) + Size[x]
    BY <2>4, UnitsAppend DEF Sized
  <2>6. queue'[p] = Append(g, x) /\ queueSize'[p] = queueSize[p] + Size[x]
    BY <1>0, <2>3, <2>4
  <2>7. Cardinality(Units(g)) + Size[x] <= queueSize[p] + Size[x]
    <3>1. Cardinality(Units(g)) <= queueSize[p] /\ Cardinality(Units(g)) \in Nat
      BY <1>b, <2>4 DEF Sized
    <3>2. queueSize[p] \in Int /\ Size[x] \in Nat
      BY <1>0
    <3>3. QED
      BY <3>1, <3>2
  <2>8. ASSUME NEW q \in Prio, q # p
        PROVE  queue'[q] = queue[q] /\ queueSize'[q] = queueSize[q]
    BY <1>0, <2>3, <2>8
  <2>9. /\ IsFiniteSet(Units(queue'[p]))
        /\ Cardinality(Units(queue'[p])) <= queueSize'[p]
        /\ MaxSize[p] # 0 => queueSize'[p] <= MaxSize[p]
    BY <2>3, <2>5, <2>6, <2>7
  <2>10. QED
    BY <2>8, <2>9, Zenon DEF Sized
<1>2. ASSUME NEW r \in Readers, NEW n \in {0, -1}, GetFirst(r, n)
      PROVE  Sized'
  <2>1. PICK p \in NonEmpty :
          /\ queue' = [queue EXCEPT ![p] = Tail(queue[p])]
          /\ queueSize' = [queueSize EXCEPT ![p] = queueSize[p] - Size[Head(queue[p])]]
    BY <1>2 DEF GetFirst
  <2>2. p \in Prio /\ queue[p] # <<>>
    BY DEF NonEmpty
  <2>3. PICK g \in Seq(Item) : g = queue[p] /\ g # <<>>
    BY <1>0, <2>2
  <2>4. PICK x \in Item : x = Head(g)
    BY <2>3
  <2>5. /\ IsFiniteSet(Units(Tail(g)))
        /\ Cardinality(Units(Tail(g))) = Cardinality(Units(g)) - Size[x]
    BY <2>2, <2>3, <2>4, UnitsTail DEF Sized
  <2>6. queue'[p] = Tail(g) /\ queueSize'[p] = queueSize[p] - Size[x]
    BY <1>0, <2>1, <2>2, <2>3, <2>4
  <2>7. /\ Cardinality(Units(g)) - Size[x] <= queueSize[p] - Size[x]
        /\ MaxSize[p] # 0 => queueSize[p] - Size[x] <= MaxSize[p]
    <3>1. /\ Cardinality(Units(g)) <= queueSize[p] /\ Cardinality(Units(g)) \in Nat
          /\ MaxSize[p] # 0 => queueSize[p] <= MaxSize[p]
      BY <1>b, <2>2, <2>3 DEF Sized
    <3>2. queueSize[p] \in Int /\ Size[x] \in Nat /\ MaxSize[p] \in Nat
      BY <1>0, <2>2
    <3>3. QED
      BY <3>1, <3>2
  <2>8. ASSUME NEW q \in Prio, q # p
        PROVE  queue'[q] = queue[q] /\ queueSize'[q] = queueSize[q]
    BY <1>0, <2>1, <2>8
  <2>9. QED
    BY <2>2, <2>5, <2>6, <2>7, <2>8, Zenon DEF Sized
<1>3. ASSUME NEW w \in Writers, NEW n \in {0, -1}, PutFalse(w, n) \/ PutWait(w, n)
      PROVE  Sized'
  BY <1>3, <1>a DEF PutFalse, PutWait
<1>4. ASSUME NEW r \in Readers, NEW n \in {0, -1}, GetNull(r, n) \/ GetWait(r, n)
      PROVE  Sized'
  BY <1>4, <1>a DEF GetNull, GetWait
<1>5. CASE StopCall \/ StopContinue
  <2>1. UNCHANGED queueSize /\ (UNCHANGED queue \/ queue' = [p \in Prio |-> <<>>])
    BY <1>5 DEF StopCall, StopContinue, StopRound
  <2>2. CASE queue' = [p \in Prio |-> <<>>]
    <3>1. IsFiniteSet(Units(<<>>)) /\ Cardinality(Units(<<>>)) = 0
      <4>1. Units(<<>>) = {}
        BY DEF Units
      <4>2. QED
        BY <4>1, FS_EmptySet
    <3>2. ASSUME NEW p \in Prio PROVE queue'[p] = <<>> /\ 0 <= queueSize[p]
      BY <1>0, <1>b, <2>2 DEF Sized
    <3>3. QED
      BY <2>1, <3>1, <3>2, Zenon DEF Sized
  <2>3. QED
    BY <1>a, <2>1, <2>2
<1>6. ASSUME \/ \E w \in Writers, i \in Item, p \in Prio, t \in Timeout :
                  CallPut(w, i, p, t)
             \/ \E r \in Readers, t \in Timeout : CallGet(r, t)
             \/ \E t \in Thread : ThreadStep(t)
             \/ Start \/ Pause \/ Resume \/ UNCHANGED vars
      PROVE  Sized'
  BY <1>6, <1>a DEF CallPut, CallGet, ThreadStep, PassPause, Release,
     WaitTimesOut, SpuriousWakeup, WaitReturns, Start, Pause, Resume, vars
<1>7. QED
  BY <1>1, <1>2, <1>3, <1>4, <1>5, <1>6, PutCases, GetCases
     DEF Next, WriterStep, ReaderStep

-----------------------------------------------------------------------------
(***************************************************************************)
(* The theorems.                                                           *)
(***************************************************************************)
IInv ==
  /\ Shape /\ Calls
  /\ CountersAgree
  /\ StopStage /\ StoppedIsQuiet
  /\ NoReaderAsleepOverItems /\ NoWriterAsleepOverSpace
  /\ OneOwner
  /\ ItemsWithinLimit /\ Sized

LEMMA InvInit == Init => IInv
<1> SUFFICES ASSUME Init PROVE IInv
  OBVIOUS
<1>1. Shape /\ Calls
  BY ShapeInit
<1>2. \A t \in Thread : ~Waiting(t) /\ pc[t] = "idle" /\ held[t] = NoItem
  BY DEF Init, Waiting
<1>3. \A p \in Prio : queue[p] = <<>> /\ Len(queue[p]) = 0
  BY DEF Init
<1>4. CountersAgree
  <2>1. {r \in Readers : Waiting(r)} = {} /\ {w \in Writers : Waiting(w)} = {}
    BY <1>2 DEF Thread
  <2>2. QED
    BY <2>1, FS_EmptySet DEF Init, CountersAgree
<1>5. StopStage /\ StoppedIsQuiet
  BY DEF Init, StopStage, StoppedIsQuiet
<1>6. NoReaderAsleepOverItems /\ NoWriterAsleepOverSpace
  BY <1>2 DEF NoReaderAsleepOverItems, NoWriterAsleepOverSpace, Thread
<1>7. OneOwner
  BY <1>2, <1>3 DEF OneOwner
<1>8. ItemsWithinLimit
  BY <1>3, SyncQueueAssumption DEF ItemsWithinLimit
<1>9. Sized
  <2>1. Units(<<>>) = {}
    BY DEF Units
  <2>2. \A p \in Prio : queueSize[p] = 0 /\ MaxSize[p] \in Nat
    BY SyncQueueAssumption DEF Init
  <2>3. IsFiniteSet(Units(<<>>)) /\ Cardinality(Units(<<>>)) = 0
    BY <2>1, FS_EmptySet
  <2>4. ASSUME NEW p \in Prio
        PROVE  /\ IsFiniteSet(Units(queue[p]))
               /\ Cardinality(Units(queue[p])) <= queueSize[p]
               /\ MaxSize[p] # 0 => queueSize[p] <= MaxSize[p]
    BY <1>3, <2>2, <2>3
  <2>5. QED
    BY <2>4 DEF Sized
<1>10. QED
  BY <1>1, <1>4, <1>5, <1>6, <1>7, <1>8, <1>9 DEF IInv

LEMMA InvNext == IInv /\ [Next]_vars => IInv'
BY ShapeNext, CountersNext, StopNext, WakeupNext, OwnerNext, LimitNext, SizedNext DEF IInv

LEMMA Inductive == Spec => []IInv
BY InvInit, InvNext, PTL DEF Spec

Flags == cancel \in BOOLEAN /\ paused \in BOOLEAN

LEMMA Booleans == Spec => []Flags
<1>1. Init => Flags
  BY DEF Init, Flags
<1>2. Flags /\ [Next]_vars => Flags'
  <2> SUFFICES ASSUME Flags, [Next]_vars PROVE Flags'
    OBVIOUS
  <2> USE DEF Flags
  <2>1. CASE UNCHANGED <<cancel, paused>>
    BY <2>1, Zenon
  <2>2. CASE StopCall
    BY <2>2 DEF StopCall
  <2>3. CASE Start
    BY <2>3 DEF Start
  <2>4. CASE Pause
    BY <2>4 DEF Pause
  <2>5. CASE Resume
    BY <2>5 DEF Resume
  <2>6. QED
    BY <2>1, <2>2, <2>3, <2>4, <2>5, Zenon
       DEF Next, WriterStep, ReaderStep, ThreadStep, CallPut, PutEnter, PutWake,
       CallGet, GetEnter, GetWake, PassPause, Release, WaitTimesOut,
       SpuriousWakeup, WaitReturns, StopContinue, vars
<1>3. QED
  BY <1>1, <1>2, PTL DEF Spec

\* The variables of the queue keep their types; in particular the two
\* counters of waiting threads never get negative.
THEOREM TypeCorrect == Spec => []TypeOK
<1>1. ASSUME IInv, Flags
      PROVE  TypeOK
  <2>1. waitingReaders \in Nat /\ waitingWriters \in Nat
    BY <1>1, WaitingFinite DEF IInv, CountersAgree, WaitingReaderSet, WaitingWriterSet
  <2>2. QED
    BY <1>1, <2>1, Zenon DEF IInv, Shape, TypeOK, Flags
<1>2. QED
  BY <1>1, Inductive, Booleans, PTL

\* The counters that end the loops of SyncQueue::Stop are exact.
THEOREM CountersExact == Spec => []CountersAgree
<1>1. IInv => CountersAgree
  BY DEF IInv
<1>2. QED
  BY <1>1, Inductive, PTL

\* PutItem's broadcast is enough: no reader sleeps over an item.
THEOREM ReadersAreWoken == Spec => []NoReaderAsleepOverItems
<1>1. IInv => NoReaderAsleepOverItems
  BY DEF IInv
<1>2. QED
  BY <1>1, Inductive, PTL

\* GetItem's broadcast is enough: no writer sleeps although its item fits.
THEOREM WritersAreWoken == Spec => []NoWriterAsleepOverSpace
<1>1. IInv => NoWriterAsleepOverSpace
  BY DEF IInv
<1>2. QED
  BY <1>1, Inductive, PTL

\* After Stop the queue is empty and no thread is left inside it.
THEOREM StopIsQuiet == Spec => []StoppedIsQuiet
<1>1. IInv => StoppedIsQuiet
  BY DEF IInv
<1>2. QED
  BY <1>1, Inductive, PTL

\* No item is ever owned twice.
THEOREM SingleOwner == Spec => []OneOwner
<1>1. IInv => OneOwner
  BY DEF IInv
<1>2. QED
  BY <1>1, Inductive, PTL

\* maxSize is never exceeded by the items in a sub-queue, whatever Stop has
\* left in the total.
THEOREM SizeKept == Spec => []SizeWithinLimit
<1>1. IInv => SizeWithinLimit
  <2>1. SUFFICES ASSUME Shape, Sized, NEW p \in Prio, MaxSize[p] # 0
                 PROVE  Cardinality(Units(queue[p])) <= MaxSize[p]
    BY DEF IInv, SizeWithinLimit
  <2>2. queueSize[p] \in Int /\ MaxSize[p] \in Nat
    BY <2>1, SyncQueueAssumption DEF Shape
  <2>3. Cardinality(Units(queue[p])) \in Nat
    BY <2>1, FS_CardinalityType DEF Sized
  <2>4. Cardinality(Units(queue[p])) <= queueSize[p] /\ queueSize[p] <= MaxSize[p]
    BY <2>1 DEF Sized
  <2>5. QED
    BY <2>2, <2>3, <2>4
<1>2. QED
  BY <1>1, Inductive, PTL

\* maxItems is never exceeded.
THEOREM LimitKept == Spec => []ItemsWithinLimit
<1>1. IInv => ItemsWithinLimit
  BY DEF IInv
<1>2. QED
  BY <1>1, Inductive, PTL

-----------------------------------------------------------------------------
(***************************************************************************)
(* The queue implements the abstract channel.                              *)
(***************************************************************************)
LEMMA ChannelStep ==
  IInv /\ [Next]_vars => [Abstract!CNext]_(Abstract!cvars)
<1> DEFINE Goal == [Abstract!CNext]_(Abstract!cvars)
<1> SUFFICES ASSUME IInv, [Next]_vars
             PROVE  Goal
  OBVIOUS
<1>0. /\ held \in [Thread -> Item \cup {NoItem}]
      /\ prio \in [Writers -> Prio]
      /\ queue \in [Prio -> Seq(Item)]
      /\ ctl \in {"idle", "readers", "writers"}
      /\ NoItem \notin Item
      /\ Thread = Writers \cup Readers
  BY SyncQueueAssumption DEF IInv, Shape, Thread
<1>a. ASSUME UNCHANGED <<queue, held, cancel>>
      PROVE  Goal
  BY <1>a DEF Abstract!cvars
<1>1. ASSUME NEW w \in Writers, NEW i \in Item, NEW p \in Prio,
             NEW t \in Timeout, CallPut(w, i, p, t)
      PROVE  Goal
  <2>1. CASE held[w] = i
    BY <1>0, <1>1, <2>1, <1>a DEF CallPut
  <2>2. CASE held[w] = NoItem /\ Free(i)
    <3>1. Abstract!Make(w, i)
      BY <1>0, <1>1, <2>2 DEF CallPut, Free, InQueue, Abstract!Make, Abstract!Owned
    <3>2. QED
      BY <3>1 DEF Abstract!CNext
  <2>3. QED
    BY <1>1, <2>1, <2>2 DEF CallPut
<1>2. ASSUME NEW w \in Writers, NEW n \in {0, -1}, PutSection(w, n),
             PutFalse(w, n) \/ PutWait(w, n)
      PROVE  Goal
  BY <1>2, <1>a DEF PutSection, PutFalse, PutWait
<1>3. ASSUME NEW w \in Writers, NEW n \in {0, -1}, PutSection(w, n), ~cancel,
             PutTrue(w, n)
      PROVE  Goal
  <2>1. held[w] # NoItem /\ prio[w] \in Prio
    BY <1>0, <1>3 DEF IInv, Calls, PutSection, Entered
  <2>2. Abstract!Accept(w, prio[w])
    BY <1>3, <2>1 DEF PutSection, PutTrue, IsSpaceFor, Abstract!Accept
  <2>3. QED
    BY <2>1, <2>2 DEF Abstract!CNext
<1>4. ASSUME NEW r \in Readers, NEW t \in Timeout, CallGet(r, t)
      PROVE  Goal
  BY <1>4, <1>a DEF CallGet
<1>5. ASSUME NEW r \in Readers, NEW n \in {0, -1}, GetSection(r, n),
             GetNull(r, n) \/ GetWait(r, n)
      PROVE  Goal
  BY <1>5, <1>a DEF GetSection, GetNull, GetWait
<1>6. ASSUME NEW r \in Readers, NEW n \in {0, -1}, GetSection(r, n), ~cancel,
             GetFirst(r, n)
      PROVE  Goal
  <2>1. held[r] = NoItem
    BY <1>6 DEF IInv, Calls, GetSection, Entered
  <2>2. PICK p \in NonEmpty :
          /\ FirstNonEmpty(p)
          /\ held' = [held EXCEPT ![r] = Head(queue[p])]
          /\ queue' = [queue EXCEPT ![p] = Tail(@)]
    BY <1>6 DEF GetFirst
  <2>3. p \in Prio /\ queue[p] # <<>>
        /\ \A q \in Prio : queue[q] # <<>> => q <= p
    BY <2>2 DEF NonEmpty, FirstNonEmpty
  <2>4. Abstract!Deliver(r, p)
    BY <1>6, <2>1, <2>2, <2>3 DEF GetSection, Abstract!Deliver
  <2>5. QED
    BY <2>3, <2>4 DEF Abstract!CNext
<1>7. ASSUME NEW t \in Thread, PassPause(t) \/ WaitTimesOut(t) \/ SpuriousWakeup(t)
      PROVE  Goal
  BY <1>7, <1>a DEF PassPause, WaitTimesOut, SpuriousWakeup, WaitReturns
<1>8. ASSUME NEW t \in Thread, Release(t)
      PROVE  Goal
  <2>1. Abstract!Finish(t)
    BY <1>8 DEF Release, Abstract!Finish
  <2>2. QED
    BY <1>0, <2>1 DEF Abstract!CNext
<1>9. CASE StopCall \/ StopContinue
  <2>1. cancel' /\ UNCHANGED held
    BY <1>9 DEF StopCall, StopContinue, IInv, StopStage
  <2>2. UNCHANGED queue \/ queue' = [p \in Prio |-> <<>>]
    BY <1>9 DEF StopCall, StopContinue, StopRound
  <2>3. Abstract!Close
    BY <2>1, <2>2 DEF Abstract!Close, Abstract!Nothing
  <2>4. QED
    BY <2>3 DEF Abstract!CNext
<1>10. CASE Start
  <2>1. NonEmpty = {} /\ cancel /\ ~cancel' /\ UNCHANGED <<queue, held>>
    BY <1>10 DEF Start, IInv, StoppedIsQuiet
  <2>2. queue = [p \in Prio |-> <<>>]
    BY <1>0, <2>1 DEF NonEmpty
  <2>3. Abstract!Open
    BY <2>1, <2>2 DEF Abstract!Open, Abstract!Nothing
  <2>4. QED
    BY <2>3 DEF Abstract!CNext
<1>11. CASE Pause \/ Resume \/ UNCHANGED vars
  BY <1>11, <1>a DEF Pause, Resume, vars
<1>12. ASSUME NEW w \in Writers, PutEnter(w) \/ PutWake(w)
       PROVE  Goal
  <2>1. PICK n \in {0, -1} : /\ PutSection(w, n)
                             /\ \/ PutFalse(w, n)
                                \/ ~cancel /\ PutWait(w, n)
                                \/ ~cancel /\ PutTrue(w, n)
    BY <1>12, PutCases
  <2> HIDE DEF Goal
  <2>2. QED
    BY <1>2, <1>3, <2>1
<1>13. ASSUME NEW r \in Readers, GetEnter(r) \/ GetWake(r)
       PROVE  Goal
  <2>1. PICK n \in {0, -1} : /\ GetSection(r, n)
                             /\ \/ GetNull(r, n)
                                \/ ~cancel /\ GetWait(r, n)
                                \/ ~cancel /\ GetFirst(r, n)
    BY <1>13, GetCases
  <2> HIDE DEF Goal
  <2>2. QED
    BY <1>5, <1>6, <2>1
<1> HIDE DEF Goal
<1>14. QED
  BY <1>1, <1>4, <1>7, <1>8, <1>9, <1>10, <1>11, <1>12, <1>13
     DEF Next, WriterStep, ReaderStep, ThreadStep

\* SyncQueue is the channel of Channel.tla to its callers: an open queue
\* accepts within its limit and delivers in order of priority and age, a
\* stopped one does neither, and a restarted one begins empty.
THEOREM Refinement == Spec => ImplementsChannel
<1>1. Init => Abstract!CInit
  BY DEF Init, Abstract!CInit, Abstract!Nothing, Thread
<1>2. QED
  BY <1>1, ChannelStep, Inductive, PTL DEF Spec, ImplementsChannel, Abstract!CSpec

=============================================================================
