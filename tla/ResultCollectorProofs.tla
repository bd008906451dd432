------------------------ MODULE ResultCollectorProofs ------------------------
(***************************************************************************)
(* Proofs about the collecting of results in ProcessingEngine.cc, for any  *)
(* number of callers, resources and stops and any mix of the two versions  *)
(* of GetProcessedResources.                                               *)
(***************************************************************************)
EXTENDS ResultCollector, FiniteSetTheorems, TLAPS

(***************************************************************************)
(* Type correctness.  Shape is TypeOK without the Boolean variables and    *)
(* with waiting in Int: that it does not get negative needs WaitingExact.  *)
(***************************************************************************)
Shape ==
  /\ ordered \in Modes
  /\ fresh \subseteq Id
  /\ inside \subseteq Id
  /\ out \in Seq(Id)
  /\ finishedResources \subseteq Id
  /\ waiting \in Int
  /\ lock \in Caller \cup {NoOne, Stopper}
  /\ pc \in [Caller -> PC]
  /\ ids \in [Caller -> SUBSET Id]
  /\ order \in [Caller -> Seq(Id)]
  /\ index \in [Caller -> Nat]
  /\ timeout \in [Caller -> Timeout]
  /\ r \in [Caller -> Id \cup {NoId}]
  /\ output \in [Caller -> Seq(Id)]
  /\ ctl \in {"off", "run", "spin", "relock", "queue", "processors"}
  /\ stops \in 0..MaxStops

Flags ==
  /\ closed \in BOOLEAN
  /\ waitingInQueue \in BOOLEAN
  /\ cancel \in BOOLEAN
  /\ paused \in BOOLEAN
  /\ result \in [Caller -> BOOLEAN]
  /\ foreign \in [Caller -> BOOLEAN]

\* The reader, and nobody else, has a resource in its hands: between GetItem
\* and the end of the drain loop.
HandHeld == \A c \in Caller : r[c] # NoId <=> pc[c] \in {"got", "drain"}

LEMMA TypeInit == Init => Shape /\ Flags /\ HandHeld
<1> SUFFICES ASSUME Init PROVE Shape /\ Flags /\ HandHeld
  OBVIOUS
<1>1. Shape
  BY CollectorAssumption DEF Init, Shape, PC, Timeout
<1>2. Flags
  BY DEF Init, Flags
<1>3. HandHeld
  BY DEF Init, HandHeld
<1>4. QED
  BY <1>1, <1>2, <1>3

LEMMA AppendAt ==
  ASSUME NEW f \in [Caller -> Seq(Id)], NEW c \in Caller, NEW i \in Id
  PROVE  [f EXCEPT ![c] = Append(@, i)] \in [Caller -> Seq(Id)]
<1>1. Append(f[c], i) \in Seq(Id)
  OBVIOUS
<1>2. QED
  BY <1>1

LEMMA SetAt ==
  ASSUME NEW f \in [Caller -> SUBSET Id], NEW c \in Caller, NEW i \in Id
  PROVE  /\ [f EXCEPT ![c] = @ \cup {i}] \in [Caller -> SUBSET Id]
         /\ [f EXCEPT ![c] = @ \ {i}] \in [Caller -> SUBSET Id]
<1>1. f[c] \cup {i} \in SUBSET Id /\ f[c] \ {i} \in SUBSET Id
  OBVIOUS
<1>2. QED
  BY <1>1

LEMMA ForgetType ==
  ASSUME Shape, NEW c \in Caller, NEW i \in Id, Forget(c, i)
  PROVE  ids' \in [Caller -> SUBSET Id] /\ index' \in [Caller -> Nat]
<1>1. [ids EXCEPT ![c] = @ \ {i}] \in [Caller -> SUBSET Id]
  BY SetAt DEF Shape
<1>2. [index EXCEPT ![c] = @ + 1] \in [Caller -> Nat]
  BY DEF Shape
<1>3. QED
  BY <1>1, <1>2 DEF Forget, Shape

LEMMA ShapeNext == Shape /\ HandHeld /\ [Next]_vars => Shape'
<1> SUFFICES ASSUME Shape, HandHeld, [Next]_vars PROVE Shape'
  OBVIOUS
<1> USE DEF Shape, PC, queueVars, callVars, ctlVars, collectorVars, Acquire, Release
<1>1. ASSUME NEW c \in Caller, NEW i \in Id, ProcessResource(c, i)
      PROVE  Shape'
  <2>1. [order EXCEPT ![c] = Append(@, i)] \in [Caller -> Seq(Id)]
    BY AppendAt
  <2>1a. [ids EXCEPT ![c] = @ \cup {i}] \in [Caller -> SUBSET Id]
    BY SetAt
  <2>2. order' \in [Caller -> Seq(Id)] /\ ids' \in [Caller -> SUBSET Id]
    BY <1>1, <2>1, <2>1a DEF ProcessResource
  <2>3. QED
    BY <1>1, <2>2 DEF ProcessResource
<1>2. ASSUME NEW c \in Caller, NEW t \in Timeout, Call(c, t)
      PROVE  Shape'
  BY <1>2 DEF Call
<1>3. ASSUME NEW c \in Caller, PassPause(c) \/ Enter(c)
      PROVE  Shape'
  BY <1>3 DEF PassPause, Enter
<1>4. ASSUME NEW c \in Caller, NEW i \in Id, ScanFound(c, i)
      PROVE  Shape'
  <2>1. output' \in [Caller -> Seq(Id)]
    <3>1. [output EXCEPT ![c] = Append(@, i)] \in [Caller -> Seq(Id)]
      BY AppendAt
    <3>2. QED
      BY <1>4, <3>1 DEF ScanFound, Deliver
  <2>2. ids' \in [Caller -> SUBSET Id] /\ index' \in [Caller -> Nat]
    BY <1>4, ForgetType DEF ScanFound
  <2>3. QED
    BY <1>4, <2>1, <2>2 DEF ScanFound
<1>5. ASSUME NEW c \in Caller, ScanEnd(c)
      PROVE  Shape'
  BY <1>5 DEF ScanEnd, Return, Timeout
<1>6. ASSUME NEW c \in Caller, ScanWait(c)
      PROVE  Shape'
  BY <1>6 DEF ScanWait
<1>6a. ASSUME NEW c \in Caller, ScanRead(c)
      PROVE  Shape'
  BY <1>6a DEF ScanRead
<1>7. ASSUME NEW c \in Caller, Woken(c)
      PROVE  Shape'
  <2>1. /\ lock' \in Caller \cup {NoOne, Stopper}
        /\ pc' \in [Caller -> PC] /\ timeout' \in [Caller -> Timeout]
    BY <1>7 DEF Woken, GiveUp, Timeout
  <2>2. QED
    BY <1>7, <2>1 DEF Woken
<1>8. ASSUME NEW c \in Caller, QueueGet(c)
      PROVE  Shape'
  <2>1. out' \in Seq(Id) /\ r' \in [Caller -> Id \cup {NoId}] /\ pc' \in [Caller -> PC]
    <3>1. CASE out # <<>> /\ pc' = [pc EXCEPT ![c] = "got"]
               /\ r' = [r EXCEPT ![c] = Head(out)] /\ out' = Tail(out)
      BY <3>1
    <3>2. CASE pc' = [pc EXCEPT ![c] = "null"] /\ UNCHANGED <<r, out>>
      BY <3>2
    <3>3. QED
      BY <1>8, <3>1, <3>2 DEF QueueGet
  <2>2. QED
    BY <1>8, <2>1 DEF QueueGet
<1>9. ASSUME NEW c \in Caller, ReadNull(c)
      PROVE  Shape'
  <2>1. /\ lock' \in Caller \cup {NoOne, Stopper}
        /\ pc' \in [Caller -> PC] /\ timeout' \in [Caller -> Timeout]
    BY <1>9 DEF ReadNull, GiveUp, SignalSend, Timeout
  <2>2. QED
    BY <1>9, <2>1 DEF ReadNull
<1>10. ASSUME NEW c \in Caller, ReadGot(c)
       PROVE  Shape'
  BY <1>10 DEF ReadGot
<1>11. ASSUME NEW c \in Caller, NEW mine \in BOOLEAN, pc[c] = "drain", Place(c, mine)
       PROVE  /\ output' \in [Caller -> Seq(Id)]
              /\ finishedResources' \subseteq Id
              /\ ids' \in [Caller -> SUBSET Id]
              /\ index' \in [Caller -> Nat]
  <2>1. r[c] \in Id
    BY <1>11 DEF HandHeld
  <2>2. CASE mine
    <3>1. output' \in [Caller -> Seq(Id)]
      <4>1. [output EXCEPT ![c] = Append(@, r[c])] \in [Caller -> Seq(Id)]
        BY <2>1, AppendAt
      <4>2. QED
        BY <1>11, <2>2, <4>1 DEF Place, Deliver
    <3>2. ids' \in [Caller -> SUBSET Id] /\ index' \in [Caller -> Nat]
      BY <1>11, <2>1, <2>2, ForgetType DEF Place
    <3>3. QED
      BY <1>11, <2>2, <3>1, <3>2 DEF Place
  <2>3. CASE ~mine
    BY <1>11, <2>1, <2>3 DEF Place
  <2>4. QED
    BY <2>2, <2>3
<1>12. ASSUME NEW c \in Caller, NEW mine \in BOOLEAN, DrainMore(c, mine)
       PROVE  Shape'
  <2>1. out' \in Seq(Id) /\ r' \in [Caller -> Id \cup {NoId}]
    BY <1>12 DEF DrainMore
  <2>2. /\ output' \in [Caller -> Seq(Id)] /\ finishedResources' \subseteq Id
        /\ ids' \in [Caller -> SUBSET Id] /\ index' \in [Caller -> Nat]
    BY <1>11, <1>12 DEF DrainMore
  <2>3. QED
    BY <1>12, <2>1, <2>2 DEF DrainMore
<1>13. ASSUME NEW c \in Caller, NEW mine \in BOOLEAN, DrainLast(c, mine)
       PROVE  Shape'
  <2>1. /\ pc' \in [Caller -> PC] /\ lock' \in Caller \cup {NoOne, Stopper}
        /\ r' \in [Caller -> Id \cup {NoId}]
    BY <1>13 DEF DrainLast, SignalSend
  <2>2. /\ output' \in [Caller -> Seq(Id)] /\ finishedResources' \subseteq Id
        /\ ids' \in [Caller -> SUBSET Id] /\ index' \in [Caller -> Nat]
    BY <1>11, <1>13 DEF DrainLast
  <2>3. QED
    BY <1>13, <2>1, <2>2 DEF DrainLast
<1>14. ASSUME NEW c \in Caller, SpuriousWakeup(c) \/ WaitTimesOut(c) \/ QueueTimeout(c)
       PROVE  Shape'
  BY <1>14 DEF SpuriousWakeup, WaitTimesOut, QueueTimeout
<1>15. ASSUME NEW i \in Id, Finish(i)
       PROVE  Shape'
  BY <1>15 DEF Finish
<1>16. CASE Start \/ Pause \/ Resume
  BY <1>16 DEF Start, Pause, Resume
<1>17. CASE StopBegin \/ StopSpin \/ StopRelock
  BY <1>17, CollectorAssumption DEF StopBegin, StopSpin, StopRelock
<1>18. CASE StopQueue
  BY <1>18 DEF StopQueue
<1>18a. CASE StopProcessors
  BY <1>18a DEF StopProcessors
<1>19. CASE UNCHANGED vars
  BY <1>19 DEF vars
<1> HIDE DEF Shape, Acquire, Release
<1>20. QED
  BY <1>1, <1>2, <1>3, <1>4, <1>5, <1>6, <1>6a, <1>7, <1>8, <1>9, <1>10, <1>12, <1>13,
     <1>14, <1>15, <1>16, <1>17, <1>18, <1>18a, <1>19 DEF Next, CallerStep, StopStep

LEMMA FlagsNext == Flags /\ [Next]_vars => Flags'
<1> SUFFICES ASSUME Flags, [Next]_vars PROVE Flags'
  OBVIOUS
<1> USE DEF Flags, queueVars, callVars, ctlVars, collectorVars
<1>1. ASSUME NEW c \in Caller, NEW i \in Id, ProcessResource(c, i)
      PROVE  Flags'
  BY <1>1 DEF ProcessResource
<1>2. ASSUME NEW c \in Caller, NEW t \in Timeout, Call(c, t)
      PROVE  Flags'
  BY <1>2 DEF Call
<1>3. ASSUME NEW c \in Caller, PassPause(c) \/ Enter(c)
      PROVE  Flags'
  BY <1>3 DEF PassPause, Enter
<1>4. ASSUME NEW c \in Caller, NEW i \in Id, ScanFound(c, i)
      PROVE  Flags'
  BY <1>4 DEF ScanFound
<1>5. ASSUME NEW c \in Caller, ScanEnd(c)
      PROVE  Flags'
  BY <1>5 DEF ScanEnd, Return
<1>6. ASSUME NEW c \in Caller, ScanWait(c) \/ ScanRead(c)
      PROVE  Flags'
  BY <1>6 DEF ScanWait, ScanRead
<1>7. ASSUME NEW c \in Caller, Woken(c)
      PROVE  Flags'
  BY <1>7 DEF Woken, GiveUp
<1>8. ASSUME NEW c \in Caller, QueueGet(c)
      PROVE  Flags'
  BY <1>8 DEF QueueGet
<1>9. ASSUME NEW c \in Caller, ReadNull(c)
      PROVE  Flags'
  BY <1>9 DEF ReadNull, GiveUp
<1>10. ASSUME NEW c \in Caller, ReadGot(c)
       PROVE  Flags'
  BY <1>10 DEF ReadGot
<1>11. ASSUME NEW c \in Caller, NEW mine \in BOOLEAN, DrainMore(c, mine)
       PROVE  Flags'
  BY <1>11 DEF DrainMore, Place
<1>12. ASSUME NEW c \in Caller, NEW mine \in BOOLEAN, DrainLast(c, mine)
       PROVE  Flags'
  BY <1>12 DEF DrainLast, Place
<1>13. ASSUME NEW c \in Caller, SpuriousWakeup(c) \/ WaitTimesOut(c) \/ QueueTimeout(c)
       PROVE  Flags'
  BY <1>13 DEF SpuriousWakeup, WaitTimesOut, QueueTimeout
<1>14. ASSUME NEW i \in Id, Finish(i)
       PROVE  Flags'
  BY <1>14 DEF Finish
<1>15. CASE Start \/ Pause \/ Resume
  BY <1>15 DEF Start, Pause, Resume
<1>16. CASE StopBegin \/ StopSpin \/ StopRelock \/ StopQueue \/ StopProcessors
  BY <1>16 DEF StopBegin, StopSpin, StopRelock, StopQueue, StopProcessors
<1>17. CASE UNCHANGED vars
  BY <1>17 DEF vars
<1> HIDE DEF Flags
<1>18. QED
  BY <1>1, <1>2, <1>3, <1>4, <1>5, <1>6, <1>7, <1>8, <1>9, <1>10, <1>11, <1>12,
     <1>13, <1>14, <1>15, <1>16, <1>17 DEF Next, CallerStep, StopStep

-----------------------------------------------------------------------------
(***************************************************************************)
(* What a step does to the callers.  A step is one of a caller, or leaves  *)
(* the callers alone.  A step of caller c changes the variables of others  *)
(* only by waking them up.                                                 *)
(***************************************************************************)
CallerAction(c) ==
  \/ \E i \in Id : ProcessResource(c, i)
  \/ \E t \in Timeout : Call(c, t)
  \/ CallerStep(c)
  \/ SpuriousWakeup(c) \/ WaitTimesOut(c) \/ QueueTimeout(c)

Quiet == UNCHANGED <<callVars, ordered, fresh, finishedResources, waitingInQueue, waiting>>

Undisturbed(c) ==
  \A d \in Caller \ {c} :
    /\ pc'[d] = pc[d] \/ (pc[d] = "wait" /\ pc'[d] = "woken")
    /\ UNCHANGED <<ids[d], order[d], index[d], r[d], foreign[d], output[d]>>

LEMMA StepKinds == [Next]_vars => Quiet \/ \E c \in Caller : CallerAction(c)
<1> SUFFICES ASSUME [Next]_vars PROVE Quiet \/ \E c \in Caller : CallerAction(c)
  OBVIOUS
<1>1. CASE \E i \in Id : Finish(i)
  BY <1>1 DEF Finish, Quiet, ctlVars
<1>2. CASE Start \/ Pause \/ Resume
  BY <1>2 DEF Start, Pause, Resume, collectorVars, Quiet
<1>3. CASE StopBegin \/ StopSpin \/ StopRelock \/ StopQueue \/ StopProcessors
  BY <1>3 DEF StopBegin, StopSpin, StopRelock, StopQueue, StopProcessors, collectorVars,
              Quiet
<1>4. CASE UNCHANGED vars
  BY <1>4 DEF vars, Quiet, callVars
<1>5. QED
  BY <1>1, <1>2, <1>3, <1>4 DEF Next, StopStep, CallerAction

LEMMA CallersApart ==
  ASSUME Shape, Flags, NEW c \in Caller, CallerAction(c)
  PROVE  Undisturbed(c) /\ UNCHANGED ordered
<1> USE DEF Shape, Flags, Undisturbed, queueVars, ctlVars
<1>1. CASE \E i \in Id : ProcessResource(c, i)
  BY <1>1 DEF ProcessResource
<1>2. CASE \E t \in Timeout : Call(c, t)
  BY <1>2 DEF Call
<1>3. CASE PassPause(c) \/ Enter(c)
  BY <1>3 DEF PassPause, Enter
<1>4. CASE \E i \in Id : ScanFound(c, i)
  BY <1>4 DEF ScanFound, Deliver, Forget
<1>5. CASE ScanEnd(c)
  BY <1>5 DEF ScanEnd, Return
<1>6. CASE ScanWait(c) \/ ScanRead(c)
  BY <1>6 DEF ScanWait, ScanRead
<1>7. CASE Woken(c)
  BY <1>7 DEF Woken, GiveUp
<1>8. CASE QueueGet(c)
  BY <1>8 DEF QueueGet
<1>9. CASE ReadNull(c)
  BY <1>9 DEF ReadNull, GiveUp, SignalSend
<1>10. CASE ReadGot(c)
  BY <1>10 DEF ReadGot
<1>11. ASSUME NEW mine \in BOOLEAN, Place(c, mine)
       PROVE  \A d \in Caller \ {c} :
                UNCHANGED <<ids[d], index[d], foreign[d], output[d]>>
  BY <1>11 DEF Place, Deliver, Forget
<1>12. ASSUME NEW mine \in BOOLEAN, DrainMore(c, mine)
       PROVE  Undisturbed(c) /\ UNCHANGED ordered
  BY <1>11, <1>12 DEF DrainMore
<1>13. ASSUME NEW mine \in BOOLEAN, DrainLast(c, mine)
       PROVE  Undisturbed(c) /\ UNCHANGED ordered
  <2>1. \A d \in Caller \ {c} : pc'[d] = pc[d] \/ (pc[d] = "wait" /\ pc'[d] = "woken")
    BY <1>13 DEF DrainLast, SignalSend
  <2>2. QED
    BY <1>11, <1>13, <2>1 DEF DrainLast
<1>14. CASE SpuriousWakeup(c) \/ WaitTimesOut(c) \/ QueueTimeout(c)
  BY <1>14 DEF SpuriousWakeup, WaitTimesOut, QueueTimeout
<1> HIDE DEF Shape, Flags, Undisturbed
<1>15. QED
  BY <1>1, <1>2, <1>3, <1>4, <1>5, <1>6, <1>7, <1>8, <1>9, <1>10, <1>12, <1>13, <1>14
     DEF CallerAction, CallerStep

(***************************************************************************)
(* The roles a caller goes through: outside, sleeper, reader, drainer.     *)
(***************************************************************************)
Awake == {"idle", "pause", "lock", "scan"}
Asleep(c) == pc[c] \in {"wait", "woken", "timedout"}

RoleMove(c) ==
  \/ /\ pc[c] \in Awake /\ pc'[c] \in Awake
     /\ UNCHANGED <<waiting, waitingInQueue>> /\ r'[c] = r[c]
  \/ /\ pc[c] = "scan" /\ pc'[c] = "wait"
     /\ waiting' = waiting + 1 /\ UNCHANGED waitingInQueue /\ r'[c] = r[c]
  \/ /\ pc[c] = "wait" /\ pc'[c] \in {"woken", "timedout"}
     /\ UNCHANGED <<waiting, waitingInQueue>> /\ r'[c] = r[c]
  \/ /\ pc[c] \in {"woken", "timedout"} /\ pc'[c] \in {"idle", "scan"}
     /\ waiting' = waiting - 1 /\ UNCHANGED waitingInQueue /\ r'[c] = r[c]
  \/ /\ pc[c] = "scan" /\ pc'[c] = "queue"
     /\ UNCHANGED waiting /\ ~waitingInQueue /\ waitingInQueue' = TRUE /\ r'[c] = r[c]
  \/ /\ pc[c] = "queue" /\ pc'[c] = "got"
     /\ UNCHANGED <<waiting, waitingInQueue>> /\ r'[c] \in Id
  \/ /\ pc[c] = "queue" /\ pc'[c] = "null"
     /\ UNCHANGED <<waiting, waitingInQueue>> /\ r'[c] = r[c]
  \/ /\ pc[c] = "got" /\ pc'[c] = "drain"
     /\ UNCHANGED waiting /\ waitingInQueue' = FALSE /\ r'[c] = r[c]
  \/ /\ pc[c] = "null" /\ pc'[c] \in {"idle", "scan"}
     /\ UNCHANGED waiting /\ waitingInQueue' = FALSE /\ r'[c] = r[c]
  \/ /\ pc[c] = "drain" /\ pc'[c] = "drain"
     /\ UNCHANGED <<waiting, waitingInQueue>> /\ r'[c] \in Id
  \/ /\ pc[c] = "drain" /\ pc'[c] \in {"lock", "scan"}
     /\ UNCHANGED <<waiting, waitingInQueue>> /\ r'[c] = NoId

InSection == {"scan", "drain"}

LockMove(c) ==
  \/ UNCHANGED lock /\ (pc'[c] \in InSection => pc[c] \in InSection)
  \/ lock = NoOne /\ lock' = c
  \/ pc[c] \in InSection /\ lock' = NoOne /\ pc'[c] \notin InSection

LEMMA CallerMoves ==
  ASSUME Shape, Flags, NEW c \in Caller, CallerAction(c)
  PROVE  RoleMove(c) /\ LockMove(c) /\ UNCHANGED stops
<1> USE DEF Shape, Flags, RoleMove, LockMove, InSection, Awake, queueVars, ctlVars,
            Acquire, Release
<1>1. CASE \E i \in Id : ProcessResource(c, i)
  BY <1>1 DEF ProcessResource
<1>2. CASE \E t \in Timeout : Call(c, t)
  BY <1>2 DEF Call
<1>3. CASE PassPause(c) \/ Enter(c)
  BY <1>3 DEF PassPause, Enter
<1>4. CASE \E i \in Id : ScanFound(c, i)
  BY <1>4 DEF ScanFound
<1>5. CASE ScanEnd(c)
  BY <1>5 DEF ScanEnd, Return
<1>6. CASE ScanWait(c) \/ ScanRead(c)
  BY <1>6 DEF ScanWait, ScanRead
<1>7. CASE Woken(c)
  BY <1>7 DEF Woken, GiveUp
<1>8. CASE QueueGet(c)
  BY <1>8 DEF QueueGet
<1>9. CASE ReadNull(c)
  BY <1>9 DEF ReadNull, GiveUp, SignalSend
<1>10. CASE ReadGot(c)
  BY <1>10 DEF ReadGot
<1>11. ASSUME NEW mine \in BOOLEAN, DrainMore(c, mine)
       PROVE  RoleMove(c) /\ LockMove(c) /\ UNCHANGED stops
  BY <1>11 DEF DrainMore
<1>12. ASSUME NEW mine \in BOOLEAN, DrainLast(c, mine)
       PROVE  RoleMove(c) /\ LockMove(c) /\ UNCHANGED stops
  BY <1>12 DEF DrainLast, SignalSend
<1>13. CASE SpuriousWakeup(c) \/ WaitTimesOut(c) \/ QueueTimeout(c)
  BY <1>13 DEF SpuriousWakeup, WaitTimesOut, QueueTimeout
<1> HIDE DEF Shape, Flags, RoleMove, LockMove
<1>14. QED
  BY <1>1, <1>2, <1>3, <1>4, <1>5, <1>6, <1>7, <1>8, <1>9, <1>10, <1>11, <1>12, <1>13
     DEF CallerAction, CallerStep

LEMMA HandNext == Shape /\ Flags /\ HandHeld /\ [Next]_vars => HandHeld'
<1> SUFFICES ASSUME Shape, Flags, HandHeld, [Next]_vars PROVE HandHeld'
  OBVIOUS
<1>1. ASSUME NEW c \in Caller, CallerAction(c) PROVE HandHeld'
  <2>1. RoleMove(c) /\ Undisturbed(c)
    BY <1>1, CallerMoves, CallersApart
  <2>2. r'[c] # NoId <=> pc'[c] \in {"got", "drain"}
    BY <2>1, CollectorAssumption DEF RoleMove, HandHeld, Awake
  <2>3. \A d \in Caller \ {c} : r'[d] # NoId <=> pc'[d] \in {"got", "drain"}
    BY <2>1 DEF Undisturbed, HandHeld
  <2>4. QED
    BY <2>2, <2>3 DEF HandHeld
<1>2. CASE Quiet
  BY <1>2 DEF Quiet, callVars, HandHeld
<1>3. QED
  BY <1>1, <1>2, StepKinds

LEMMA OneReaderNext == Shape /\ Flags /\ OneReader /\ [Next]_vars => OneReader'
<1> SUFFICES ASSUME Shape, Flags, OneReader, [Next]_vars PROVE OneReader'
  OBVIOUS
<1>1. ASSUME NEW c \in Caller, CallerAction(c) PROVE OneReader'
  <2>1. RoleMove(c) /\ Undisturbed(c)
    BY <1>1, CallerMoves, CallersApart
  <2>2. \A d \in Caller \ {c} : Reading(d)' <=> Reading(d)
    BY <2>1 DEF Undisturbed, Reading
  <2>3. CASE Reading(c) /\ Reading(c)' /\ UNCHANGED waitingInQueue
    BY <2>2, <2>3 DEF OneReader
  <2>4. CASE ~Reading(c) /\ ~Reading(c)' /\ UNCHANGED waitingInQueue
    BY <2>2, <2>4 DEF OneReader
  <2>5. CASE ~Reading(c) /\ Reading(c)' /\ ~waitingInQueue /\ waitingInQueue' = TRUE
    BY <2>2, <2>5 DEF OneReader
  <2>6. CASE Reading(c) /\ ~Reading(c)' /\ waitingInQueue' = FALSE
    BY <2>2, <2>6 DEF OneReader
  <2>7. QED
    BY <2>1, <2>3, <2>4, <2>5, <2>6 DEF RoleMove, Reading, Awake
<1>2. CASE Quiet
  BY <1>2 DEF Quiet, callVars, OneReader, Reading
<1>3. QED
  BY <1>1, <1>2, StepKinds

LEMMA WaitingNext == Shape /\ Flags /\ WaitingExact /\ [Next]_vars => WaitingExact'
<1> SUFFICES ASSUME Shape, Flags, WaitingExact, [Next]_vars PROVE WaitingExact'
  OBVIOUS
<1> DEFINE W == {c \in Caller : Asleep(c)}
<1>0. /\ IsFiniteSet(W) /\ Cardinality(W) \in Nat /\ waiting = Cardinality(W)
      /\ waiting' = Cardinality(W') => WaitingExact'
  BY CollectorAssumption, FS_Subset, FS_CardinalityType DEF WaitingExact, Asleep
<1>1. ASSUME NEW c \in Caller, CallerAction(c) PROVE WaitingExact'
  <2>1. RoleMove(c) /\ Undisturbed(c)
    BY <1>1, CallerMoves, CallersApart
  <2>2. \A d \in Caller \ {c} : Asleep(d)' <=> Asleep(d)
    BY <2>1 DEF Undisturbed, Asleep
  <2>3. CASE (Asleep(c)' <=> Asleep(c)) /\ UNCHANGED waiting
    <3>1. W' = W
      BY <2>2, <2>3
    <3>2. QED
      BY <1>0, <2>3, <3>1
  <2>4. CASE ~Asleep(c) /\ Asleep(c)' /\ waiting' = waiting + 1
    <3>1. W' = W \cup {c} /\ c \notin W
      BY <2>2, <2>4
    <3>2. Cardinality(W') = Cardinality(W) + 1
      BY <1>0, <3>1, FS_AddElement
    <3>3. QED
      BY <1>0, <2>4, <3>2
  <2>5. CASE Asleep(c) /\ ~Asleep(c)' /\ waiting' = waiting - 1
    <3>1. W' = W \ {c} /\ c \in W
      BY <2>2, <2>5
    <3>2. Cardinality(W') = Cardinality(W) - 1
      BY <1>0, <3>1, FS_RemoveElement
    <3>3. QED
      BY <1>0, <2>5, <3>2
  <2>6. QED
    BY <2>1, <2>3, <2>4, <2>5 DEF RoleMove, Asleep, Awake
<1>2. CASE Quiet
  BY <1>2 DEF Quiet, callVars, WaitingExact
<1>3. QED
  BY <1>1, <1>2, StepKinds

\* Before the first stop the thread in StopSync does not touch finishedLock.
NotStopped == stops = 0 => ctl \in {"off", "run"} /\ lock # Stopper

LEMMA ExclusiveNext ==
  Shape /\ Flags /\ NotStopped /\ Exclusive /\ [Next]_vars => NotStopped' /\ Exclusive'
<1> SUFFICES ASSUME Shape, Flags, NotStopped, Exclusive, [Next]_vars
             PROVE  NotStopped' /\ Exclusive'
  OBVIOUS
<1>1. ASSUME NEW c \in Caller, CallerAction(c) PROVE NotStopped' /\ Exclusive'
  <2>1. LockMove(c) /\ Undisturbed(c) /\ UNCHANGED stops
    BY <1>1, CallerMoves, CallersApart
  <2>2. \A d \in Caller \ {c} : pc'[d] \in InSection => pc[d] \in InSection
    BY <2>1 DEF Undisturbed, InSection
  <2>3. Exclusive'
    BY <2>1, <2>2, CollectorAssumption DEF LockMove, InSection, Exclusive
  <2>4. UNCHANGED ctl
    BY <1>1 DEF CallerAction, CallerStep, ProcessResource, Call, PassPause, Enter, ScanFound,
       ScanEnd, ScanWait, ScanRead, Woken, QueueGet, ReadNull, ReadGot, DrainMore, DrainLast,
       SpuriousWakeup, WaitTimesOut, QueueTimeout, ctlVars
  <2>5. QED
    BY <2>1, <2>3, <2>4, CollectorAssumption DEF NotStopped, LockMove
<1>2. CASE \E i \in Id : Finish(i)
  BY <1>2 DEF Finish, callVars, ctlVars, NotStopped, Exclusive
<1>3. CASE Start \/ Pause \/ Resume
  BY <1>3 DEF Start, Pause, Resume, collectorVars, callVars, NotStopped, Exclusive
<1>4. CASE StopBegin
  BY <1>4 DEF StopBegin, Shape, NotStopped, Exclusive
<1>5. CASE StopSpin \/ StopRelock \/ StopQueue \/ StopProcessors
  BY <1>5 DEF StopSpin, StopRelock, StopQueue, StopProcessors, collectorVars, callVars,
              NotStopped, Exclusive
<1>6. CASE UNCHANGED vars
  BY <1>6 DEF vars, NotStopped, Exclusive
<1>7. QED
  BY <1>1, <1>2, <1>3, <1>4, <1>5, <1>6 DEF Next, StopStep, CallerAction

RolesInv == Shape /\ Flags /\ HandHeld /\ OneReader /\ WaitingExact /\ NotStopped /\ Exclusive

LEMMA RolesInvariant == Spec => []RolesInv
<1>1. Init => RolesInv
  <2> SUFFICES ASSUME Init PROVE RolesInv
    OBVIOUS
  <2>1. Shape /\ Flags /\ HandHeld
    BY TypeInit
  <2>2. OneReader
    BY DEF Init, OneReader, Reading
  <2>3. WaitingExact
    <3>1. {c \in Caller : pc[c] \in {"wait", "woken", "timedout"}} = {}
      BY DEF Init
    <3>2. QED
      BY <3>1, FS_EmptySet DEF Init, WaitingExact
  <2>4. NotStopped /\ Exclusive
    BY CollectorAssumption DEF Init, NotStopped, Exclusive
  <2>5. QED
    BY <2>1, <2>2, <2>3, <2>4 DEF RolesInv
<1>2. RolesInv /\ [Next]_vars => RolesInv'
  BY ShapeNext, FlagsNext, HandNext, OneReaderNext, WaitingNext, ExclusiveNext DEF RolesInv
<1>3. QED
  BY <1>1, <1>2, PTL DEF Spec

\* The bookkeeping of GetProcessedResources is exact: the variables have their
\* types, waiting counts the sleepers, waitingInQueue tells whether there is a
\* reader and there is one at most, and until the first StopSync only the
\* holder of finishedLock is in the critical section.
THEOREM Roles == Spec => []RolesExact
<1>1. RolesInv => RolesExact
  <2> SUFFICES ASSUME RolesInv PROVE RolesExact
    OBVIOUS
  <2>1. waiting \in Nat
    BY CollectorAssumption, FS_Subset, FS_CardinalityType DEF RolesInv, WaitingExact
  <2>2. TypeOK
    BY <2>1 DEF RolesInv, Shape, Flags, TypeOK
  <2>3. QED
    BY <2>2 DEF RolesInv, RolesExact
<1>2. QED
  BY <1>1, RolesInvariant, PTL

-----------------------------------------------------------------------------
(***************************************************************************)
(* Where a resource is.  Has and Distinct are all that the proofs need to  *)
(* know of the sequences out and output[c].                                *)
(***************************************************************************)
Has(s, i) == \E k \in 1..Len(s) : s[k] = i
Distinct(s) == \A j, k \in 1..Len(s) : s[j] = s[k] => j = k

LEMMA HasAppend ==
  ASSUME NEW s \in Seq(Id), NEW x \in Id
  PROVE  /\ Append(s, x) \in Seq(Id)
         /\ \A i : Has(Append(s, x), i) <=> Has(s, i) \/ i = x
         /\ Distinct(s) /\ ~Has(s, x) => Distinct(Append(s, x))
<1>1. /\ Append(s, x) \in Seq(Id) /\ Len(Append(s, x)) = Len(s) + 1 /\ Len(s) \in Nat
      /\ Append(s, x)[Len(s) + 1] = x
      /\ \A k \in 1..Len(s) : Append(s, x)[k] = s[k]
  OBVIOUS
<1>2. 1..Len(s) + 1 = (1..Len(s)) \cup {Len(s) + 1}
  BY <1>1
<1>3. \A i : Has(Append(s, x), i) <=> Has(s, i) \/ i = x
  BY <1>1, <1>2 DEF Has
<1>4. Distinct(s) /\ ~Has(s, x) => Distinct(Append(s, x))
  BY <1>1, <1>2 DEF Has, Distinct
<1>5. QED
  BY <1>1, <1>3, <1>4

LEMMA HasTail ==
  ASSUME NEW s \in Seq(Id), s # <<>>, Distinct(s)
  PROVE  /\ Head(s) \in Id /\ Tail(s) \in Seq(Id) /\ Has(s, Head(s))
         /\ \A i : Has(Tail(s), i) <=> Has(s, i) /\ i # Head(s)
         /\ Distinct(Tail(s))
<1>1. /\ Head(s) \in Id /\ Head(s) = s[1] /\ Tail(s) \in Seq(Id) /\ Len(s) \in Nat
      /\ Len(s) > 0 /\ Len(Tail(s)) = Len(s) - 1
      /\ \A k \in 1..Len(s) - 1 : Tail(s)[k] = s[k + 1]
  OBVIOUS
<1>2. Has(s, Head(s))
  BY <1>1 DEF Has
<1>3. ASSUME NEW i PROVE Has(Tail(s), i) => Has(s, i) /\ i # Head(s)
  BY <1>1 DEF Has, Distinct
<1>4. ASSUME NEW i, Has(s, i), i # Head(s) PROVE Has(Tail(s), i)
  <2>1. PICK k \in 1..Len(s) : s[k] = i
    BY <1>4 DEF Has
  <2>2. k # 1 /\ k - 1 \in 1..Len(s) - 1 /\ Tail(s)[k - 1] = i
    BY <1>1, <1>4, <2>1
  <2>3. QED
    BY <1>1, <2>2 DEF Has
<1>5. Distinct(Tail(s))
  <2> SUFFICES ASSUME NEW j \in 1..Len(s) - 1, NEW k \in 1..Len(s) - 1,
                      Tail(s)[j] = Tail(s)[k]
               PROVE  j = k
    BY <1>1 DEF Distinct
  <2>1. j + 1 \in 1..Len(s) /\ k + 1 \in 1..Len(s) /\ s[j + 1] = s[k + 1]
    BY <1>1
  <2>2. j + 1 = k + 1
    BY <2>1 DEF Distinct
  <2>3. QED
    BY <2>2
<1>6. QED
  BY <1>1, <1>2, <1>3, <1>4, <1>5

LEMMA HasNone == Distinct(<<>>) /\ \A i : ~Has(<<>>, i)
BY DEF Has, Distinct

\* OnePlace in these terms; fresh and inside are apart as well.
Apart ==
  /\ Distinct(out) /\ \A c \in Caller : Distinct(output[c])
  /\ \A i \in Id :
       /\ i \in fresh => i \notin inside
       /\ i \in fresh \cup inside =>
            ~Has(out, i) /\ i \notin finishedResources /\ \A c \in Caller : r[c] # i
       /\ Has(out, i) => i \notin finishedResources /\ \A c \in Caller : r[c] # i
       /\ i \in finishedResources => \A c \in Caller : r[c] # i
       /\ \A c \in Caller : Has(output[c], i) =>
            /\ i \notin fresh \cup inside \cup finishedResources /\ ~Has(out, i)
            /\ \A d \in Caller : r[d] # i /\ (Has(output[d], i) => d = c)
       /\ \A c, d \in Caller : r[c] = i /\ r[d] = i => c = d

LEMMA ApartIsOnePlace == Apart => OnePlace
BY DEF Apart, OnePlace, Has, Distinct, InOut, Got

(***************************************************************************)
(* The ways of a resource from fresh to the output of a caller.            *)
(***************************************************************************)
Submitted(i) ==
  /\ i \in fresh /\ fresh' = fresh \ {i} /\ inside' = inside \cup {i}
  /\ UNCHANGED <<out, finishedResources, r, output>>

Finished(i) ==
  /\ i \in inside /\ inside' = inside \ {i} /\ out' = Append(out, i)
  /\ UNCHANGED <<fresh, finishedResources, r, output>>

Found(c, i) ==
  /\ i \in finishedResources /\ finishedResources' = finishedResources \ {i}
  /\ output' = [output EXCEPT ![c] = Append(@, i)]
  /\ UNCHANGED <<fresh, inside, out, r>>

Fetched(c) ==
  /\ r[c] = NoId
  /\ out # <<>> /\ r' = [r EXCEPT ![c] = Head(out)] /\ out' = Tail(out)
  /\ UNCHANGED <<fresh, inside, finishedResources, output>>

\* What was fetched is delivered or put aside, and the next one is fetched or
\* there is none.
Kept(c) ==
  /\ output' = [output EXCEPT ![c] = Append(@, r[c])] /\ UNCHANGED finishedResources
PutAside(c) ==
  /\ finishedResources' = finishedResources \cup {r[c]} /\ UNCHANGED output
Sorted(c) ==
  /\ r[c] \in Id /\ UNCHANGED <<fresh, inside>>
  /\ Kept(c) \/ PutAside(c)
  /\ \/ out # <<>> /\ r' = [r EXCEPT ![c] = Head(out)] /\ out' = Tail(out)
     \/ r' = [r EXCEPT ![c] = NoId] /\ UNCHANGED out

Lost ==
  /\ out' \in {out, <<>>} /\ inside' \in {inside, {}}
  /\ UNCHANGED <<fresh, finishedResources, r, output>>

LEMMA Ways ==
  ASSUME Shape, Flags, HandHeld, [Next]_vars
  PROVE  \/ Lost
         \/ \E i \in Id : Submitted(i) \/ Finished(i)
         \/ \E c \in Caller : Fetched(c) \/ Sorted(c) \/ \E i \in Id : Found(c, i)
<1> USE DEF queueVars, callVars, ctlVars, collectorVars
<1>1. ASSUME NEW c \in Caller, NEW i \in Id, ProcessResource(c, i)
      PROVE  Submitted(i)
  BY <1>1 DEF ProcessResource, Submitted
<1>2. ASSUME NEW c \in Caller, NEW i \in Id, ScanFound(c, i)
      PROVE  Found(c, i)
  BY <1>2 DEF ScanFound, Found, Deliver
<1>3. ASSUME NEW c \in Caller, QueueGet(c)
      PROVE  Fetched(c) \/ Lost
  <2>1. r[c] = NoId
    BY <1>3 DEF QueueGet, HandHeld
  <2>2. QED
    BY <1>3, <2>1 DEF QueueGet, Fetched, Lost
<1>4. ASSUME NEW c \in Caller, NEW mine \in BOOLEAN, DrainMore(c, mine)
      PROVE  Sorted(c)
  <2>1. r[c] \in Id
    BY <1>4 DEF DrainMore, HandHeld, Shape
  <2>2. Kept(c) \/ PutAside(c)
    BY <1>4 DEF DrainMore, Place, Deliver, Kept, PutAside
  <2>3. QED
    BY <1>4, <2>1, <2>2 DEF DrainMore, Sorted
<1>5. ASSUME NEW c \in Caller, NEW mine \in BOOLEAN, DrainLast(c, mine)
      PROVE  Sorted(c)
  <2>1. r[c] \in Id
    BY <1>5 DEF DrainLast, HandHeld, Shape
  <2>2. Kept(c) \/ PutAside(c)
    BY <1>5 DEF DrainLast, Place, Deliver, Kept, PutAside
  <2>3. QED
    BY <1>5, <2>1, <2>2 DEF DrainLast, Sorted
<1>6. ASSUME NEW i \in Id, Finish(i)
      PROVE  Finished(i)
  BY <1>6 DEF Finish, Finished
<1>7. ASSUME NEW c \in Caller,
             \/ \E t \in Timeout : Call(c, t)
             \/ PassPause(c) \/ Enter(c) \/ ScanEnd(c) \/ ScanWait(c) \/ ScanRead(c)
             \/ Woken(c) \/ ReadNull(c) \/ ReadGot(c)
             \/ SpuriousWakeup(c) \/ WaitTimesOut(c) \/ QueueTimeout(c)
      PROVE  Lost
  BY <1>7 DEF Call, PassPause, Enter, ScanEnd, ScanWait, ScanRead, Woken, ReadNull,
     ReadGot, SpuriousWakeup, WaitTimesOut, QueueTimeout, Lost
<1>8. CASE Start \/ StopBegin \/ StopStep \/ Pause \/ Resume
  BY <1>8 DEF Start, StopBegin, StopStep, StopSpin, StopRelock, StopQueue, StopProcessors,
     Pause, Resume, Lost
<1>9. CASE UNCHANGED vars
  BY <1>9 DEF vars, Lost
<1>10. QED
  BY <1>1, <1>2, <1>3, <1>4, <1>5, <1>6, <1>7, <1>8, <1>9 DEF Next, CallerStep

LEMMA ApartNext == Shape /\ Flags /\ HandHeld /\ Apart /\ [Next]_vars => Apart'
<1> SUFFICES ASSUME Shape, Flags, HandHeld, Apart, [Next]_vars PROVE Apart'
  OBVIOUS
<1>0. /\ NoId \notin Id /\ out \in Seq(Id) /\ r \in [Caller -> Id \cup {NoId}]
      /\ output \in [Caller -> Seq(Id)]
      /\ fresh \subseteq Id /\ inside \subseteq Id /\ finishedResources \subseteq Id
  BY CollectorAssumption DEF Shape
<1>1. ASSUME NEW i \in Id, Submitted(i) PROVE Apart'
  BY <1>0, <1>1 DEF Submitted, Apart
<1>2. ASSUME NEW i \in Id, Finished(i) PROVE Apart'
  <2>1. \A j \in Id : Has(out', j) <=> Has(out, j) \/ j = i
    BY <1>0, <1>2, HasAppend DEF Finished
  <2>2. Distinct(out')
    BY <1>0, <1>2, HasAppend DEF Finished, Apart
  <2>3. QED
    BY <1>0, <1>2, <2>1, <2>2 DEF Finished, Apart
<1>3. ASSUME NEW c \in Caller, NEW i \in Id, Found(c, i) PROVE Apart'
  <2>1. /\ output'[c] = Append(output[c], i)
        /\ \A d \in Caller \ {c} : output'[d] = output[d]
    BY <1>0, <1>3 DEF Found
  <2>2. /\ \A j \in Id : Has(output'[c], j) <=> Has(output[c], j) \/ j = i
        /\ Distinct(output'[c])
    BY <1>0, <1>3, <2>1, HasAppend DEF Found, Apart
  <2>3. QED
    BY <1>0, <1>3, <2>1, <2>2 DEF Found, Apart
<1>4. ASSUME NEW c \in Caller, Fetched(c) PROVE Apart'
  <2>1. /\ Head(out) \in Id /\ Has(out, Head(out)) /\ Distinct(out')
        /\ \A j \in Id : Has(out', j) <=> Has(out, j) /\ j # Head(out)
    BY <1>0, <1>4, HasTail DEF Fetched, Apart
  <2>2. r'[c] = Head(out) /\ \A d \in Caller \ {c} : r'[d] = r[d]
    BY <1>0, <1>4 DEF Fetched
  <2>3. QED
    BY <1>0, <1>4, <2>1, <2>2 DEF Fetched, Apart
<1>5. ASSUME NEW c \in Caller, Sorted(c) PROVE Apart'
  <2> DEFINE x == r[c]
  <2>0. x \in Id /\ UNCHANGED <<fresh, inside>>
    BY <1>5 DEF Sorted
  <2>1. /\ r'[c] \in Id \cup {NoId} /\ r'[c] # x
        /\ \A d \in Caller \ {c} : r'[d] = r[d]
        /\ Distinct(out')
        /\ \A j \in Id : Has(out, j) <=> Has(out', j) \/ j = r'[c]
        /\ ~Has(out', r'[c])
    <3>1. CASE out # <<>> /\ r' = [r EXCEPT ![c] = Head(out)] /\ out' = Tail(out)
      <4>1. /\ Head(out) \in Id /\ Has(out, Head(out)) /\ Distinct(out')
            /\ \A j \in Id : Has(out', j) <=> Has(out, j) /\ j # Head(out)
        BY <1>0, <3>1, HasTail DEF Apart
      <4>2. r'[c] = Head(out) /\ \A d \in Caller \ {c} : r'[d] = r[d]
        BY <1>0, <3>1
      <4>3. QED
        BY <1>0, <2>0, <4>1, <4>2 DEF Apart
    <3>2. CASE r' = [r EXCEPT ![c] = NoId] /\ UNCHANGED out
      <4>1. ~Has(out, NoId)
        BY <1>0 DEF Has
      <4>2. QED
        BY <1>0, <2>0, <3>2, <4>1 DEF Apart
    <3>3. QED
      BY <1>5, <3>1, <3>2 DEF Sorted
  <2>2. CASE Kept(c)
    <3>1. /\ output'[c] = Append(output[c], x)
          /\ \A d \in Caller \ {c} : output'[d] = output[d]
      BY <1>0, <2>2 DEF Kept
    <3>2. /\ \A j \in Id : Has(output'[c], j) <=> Has(output[c], j) \/ j = x
          /\ Distinct(output'[c])
      BY <1>0, <2>0, <3>1, HasAppend DEF Apart
    <3>3. UNCHANGED finishedResources
      BY <2>2 DEF Kept
    <3>4. /\ x \notin fresh \cup inside \cup finishedResources /\ ~Has(out', x)
          /\ \A d \in Caller : r'[d] # x /\ ~Has(output[d], x)
      BY <1>0, <2>0, <2>1 DEF Apart
    <3>5. \A d \in Caller : Distinct(output'[d])
      BY <3>1, <3>2 DEF Apart
    <3>6. ASSUME NEW j \in Id, NEW d \in Caller, Has(output'[d], j)
          PROVE  /\ j \notin fresh \cup inside \cup finishedResources /\ ~Has(out', j)
                 /\ \A e \in Caller : r'[e] # j /\ (Has(output'[e], j) => e = d)
      <4>1. CASE j = x
        BY <1>0, <3>1, <3>2, <3>4, <3>6, <4>1
      <4>2. CASE j # x
        <5>1. Has(output[d], j) /\ \A e \in Caller : Has(output'[e], j) => Has(output[e], j)
          BY <3>1, <3>2, <3>6, <4>2
        <5>2. QED
          BY <1>0, <2>1, <5>1 DEF Apart
      <4>3. QED
        BY <4>1, <4>2
    <3>7. \A j \in Id :
            /\ j \in fresh => j \notin inside
            /\ j \in fresh \cup inside =>
                 ~Has(out', j) /\ j \notin finishedResources /\ \A d \in Caller : r'[d] # j
            /\ Has(out', j) => j \notin finishedResources /\ \A d \in Caller : r'[d] # j
            /\ j \in finishedResources => \A d \in Caller : r'[d] # j
            /\ \A d, e \in Caller : r'[d] = j /\ r'[e] = j => d = e
      BY <1>0, <2>1 DEF Apart
    <3>8. QED
      BY <2>0, <2>1, <3>3, <3>5, <3>6, <3>7 DEF Apart
  <2>3. CASE PutAside(c)
    BY <1>0, <2>0, <2>1, <2>3 DEF PutAside, Apart
  <2>4. QED
    BY <1>5, <2>2, <2>3 DEF Sorted
<1>6. CASE Lost
  BY <1>0, <1>6, HasNone DEF Lost, Apart
<1>7. QED
  BY <1>1, <1>2, <1>3, <1>4, <1>5, <1>6, Ways

LEMMA ApartInvariant == Spec => []Apart
<1>1. Init => Apart
  BY HasNone, CollectorAssumption DEF Init, Apart
<1>2. RolesInv /\ Apart /\ [Next]_vars => Apart'
  BY ApartNext DEF RolesInv
<1>3. QED
  BY <1>1, <1>2, RolesInvariant, PTL DEF Spec

\* No result is handed out twice or is at two places, whichever versions of
\* GetProcessedResources the callers use and however often StopSync unlocks a
\* mutex it does not hold.
THEOREM Places == Spec => []OnePlace
BY ApartInvariant, ApartIsOnePlace, PTL

-----------------------------------------------------------------------------
(***************************************************************************)
(* Sleepers.  finishedResources grows only in the hands of a reader that   *)
(* is still in its drain loop and has noted found_foreign, and the reader  *)
(* leaves the loop with that note only by waking everybody up.             *)
(***************************************************************************)
NoteTaken(c) == pc[c] = "drain" /\ foreign[c]
AllAwake == \A d \in Caller : pc[d] # "wait"

ShelfMove(c) ==
  /\ \/ finishedResources' \subseteq finishedResources
     \/ NoteTaken(c)'
     \/ AllAwake'
  /\ NoteTaken(c) => NoteTaken(c)' \/ AllAwake'
  /\ pc'[c] = "wait" => Missing(c) /\ Missing(c)'

LEMMA ShelfMoves ==
  ASSUME Shape, Flags, NEW c \in Caller, CallerAction(c)
  PROVE  ShelfMove(c)
<1> USE DEF Shape, Flags, ShelfMove, NoteTaken, AllAwake, queueVars, ctlVars
<1>1. CASE \E i \in Id : ProcessResource(c, i)
  BY <1>1 DEF ProcessResource
<1>2. CASE \E t \in Timeout : Call(c, t)
  BY <1>2 DEF Call
<1>3. CASE PassPause(c) \/ Enter(c)
  BY <1>3 DEF PassPause, Enter
<1>4. CASE \E i \in Id : ScanFound(c, i)
  BY <1>4 DEF ScanFound
<1>5. CASE ScanEnd(c)
  BY <1>5 DEF ScanEnd, Return
<1>6. CASE ScanWait(c)
  <2>1. Missing(c) /\ Missing(c)'
    BY <1>6 DEF ScanWait, Missing, Candidates
  <2>2. QED
    BY <1>6, <2>1 DEF ScanWait
<1>7. CASE ScanRead(c)
  BY <1>7 DEF ScanRead
<1>8. CASE Woken(c)
  BY <1>8 DEF Woken, GiveUp
<1>9. CASE QueueGet(c)
  BY <1>9 DEF QueueGet
<1>10. CASE ReadNull(c)
  BY <1>10 DEF ReadNull, GiveUp, SignalSend
<1>11. CASE ReadGot(c)
  BY <1>11 DEF ReadGot
<1>12. ASSUME NEW mine \in BOOLEAN, Place(c, mine)
       PROVE  \/ UNCHANGED <<finishedResources, foreign>>
              \/ foreign'[c] = TRUE
  BY <1>12 DEF Place
<1>13. ASSUME NEW mine \in BOOLEAN, DrainMore(c, mine)
       PROVE  ShelfMove(c)
  BY <1>12, <1>13 DEF DrainMore
<1>14. ASSUME NEW mine \in BOOLEAN, DrainLast(c, mine)
       PROVE  ShelfMove(c)
  <2>1. pc'[c] # "wait"
    BY <1>14 DEF DrainLast, SignalSend
  <2>2. CASE foreign'[c]
    <3>0. \/ pc' = SignalSend([pc EXCEPT ![c] = "lock"])
          \/ pc' = SignalSend([pc EXCEPT ![c] = "scan"])
      BY <1>14, <2>2 DEF DrainLast
    <3>1. AllAwake'
      <4>1. ASSUME NEW f, pc' = SignalSend(f) PROVE \A d \in Caller : pc'[d] # "wait"
        BY <4>1 DEF SignalSend
      <4>2. QED
        BY <3>0, <4>1
    <3>2. QED
      BY <2>1, <3>1
  <2>3. CASE ~foreign'[c]
    BY <1>12, <1>14, <2>1, <2>3 DEF DrainLast
  <2>4. QED
    BY <2>2, <2>3
<1>15. CASE SpuriousWakeup(c) \/ WaitTimesOut(c) \/ QueueTimeout(c)
  BY <1>15 DEF SpuriousWakeup, WaitTimesOut, QueueTimeout
<1> HIDE DEF Shape, Flags, ShelfMove
<1>16. QED
  BY <1>1, <1>2, <1>3, <1>4, <1>5, <1>6, <1>7, <1>8, <1>9, <1>10, <1>11, <1>13, <1>14, <1>15
     DEF CallerAction, CallerStep

LEMMA SleeperNext ==
  Shape /\ Flags /\ SleeperLacksResult /\ [Next]_vars => SleeperLacksResult'
<1> SUFFICES ASSUME Shape, Flags, SleeperLacksResult, [Next]_vars
             PROVE  SleeperLacksResult'
  OBVIOUS
<1>1. ASSUME NEW c \in Caller, CallerAction(c), NEW d \in Caller, pc'[d] = "wait"
      PROVE  Missing(d)' \/ \E e \in Caller : NoteTaken(e)'
  <2>1. ShelfMove(c) /\ Undisturbed(c) /\ UNCHANGED ordered
    BY <1>1, ShelfMoves, CallersApart
  <2>2. ~AllAwake'
    BY <1>1 DEF AllAwake
  <2>3. CASE d = c
    BY <1>1, <2>1, <2>3 DEF ShelfMove
  <2>4. CASE d # c
    <3>1. pc[d] = "wait" /\ Candidates(d)' = Candidates(d)
      BY <1>1, <2>1, <2>4 DEF Undisturbed, Candidates
    <3>2. \A e \in Caller : NoteTaken(e) => NoteTaken(e)'
      BY <2>1, <2>2 DEF ShelfMove, Undisturbed, NoteTaken
    <3>3. Missing(d) \/ \E e \in Caller : NoteTaken(e)
      BY <3>1 DEF SleeperLacksResult, NoteTaken
    <3>4. Missing(d) => Missing(d)' \/ NoteTaken(c)'
      BY <2>1, <2>2, <3>1 DEF ShelfMove, Missing
    <3>5. QED
      BY <3>2, <3>3, <3>4
  <2>5. QED
    BY <2>3, <2>4
<1>2. ASSUME NEW c \in Caller, CallerAction(c) PROVE SleeperLacksResult'
  BY <1>1, <1>2 DEF SleeperLacksResult, NoteTaken
<1>3. CASE Quiet
  BY <1>3 DEF Quiet, callVars, SleeperLacksResult, Missing, Candidates
<1>4. QED
  BY <1>2, <1>3, StepKinds

\* No sleeper is forgotten: a caller of GetProcessedResources that sleeps
\* unsignalled lacks a result, or the reader that has put its result into
\* finishedResources is about to wake it up.
THEOREM Sleepers == Spec => []SleeperLacksResult
<1>1. Init => SleeperLacksResult
  BY DEF Init, SleeperLacksResult
<1>2. RolesInv /\ SleeperLacksResult /\ [Next]_vars => SleeperLacksResult'
  BY SleeperNext DEF RolesInv
<1>3. QED
  BY <1>1, <1>2, RolesInvariant, PTL DEF Spec

-----------------------------------------------------------------------------
(***************************************************************************)
(* Whose results a caller gets.  A caller of the set version compares      *)
(* every result with its own ids; these are the resources it submitted.    *)
(***************************************************************************)
OwnIds == \A c \in Caller \ ordered : \A i \in Id :
            /\ i \in ids[c] => Owner[i] = c
            /\ Has(output[c], i) => Owner[i] = c

OwnMove(c) ==
  /\ \/ ids'[c] \subseteq ids[c]
     \/ \E i \in Id : Owner[i] = c /\ ids'[c] = ids[c] \cup {i}
  /\ \/ output'[c] = output[c]
     \/ \E i \in ids[c] : output'[c] = Append(output[c], i)

LEMMA OwnMoves ==
  ASSUME Shape, Flags, HandHeld, NEW c \in Caller \ ordered, CallerAction(c)
  PROVE  OwnMove(c)
<1> USE DEF Shape, queueVars, ctlVars
<1>1. ASSUME NEW i \in Id, ProcessResource(c, i) PROVE OwnMove(c)
  BY <1>1 DEF ProcessResource, OwnMove
<1>2. ASSUME NEW i \in Id, ScanFound(c, i) PROVE OwnMove(c)
  BY <1>2 DEF ScanFound, Deliver, Forget, Candidates, OwnMove
<1>3. ASSUME NEW mine \in BOOLEAN, IsMine(c, mine), Place(c, mine) PROVE OwnMove(c)
  <2>1. CASE mine
    <3>1. mine = (r[c] \in ids[c])
      BY <1>3 DEF IsMine, Candidates
    <3>2. r[c] \in ids[c]
      BY <2>1, <3>1
    <3>3. /\ output' = [output EXCEPT ![c] = Append(@, r[c])]
          /\ ids' = [ids EXCEPT ![c] = @ \ {r[c]}]
      BY <1>3, <2>1 DEF Place, Deliver, Forget
    <3>4. QED
      BY <3>2, <3>3 DEF OwnMove
  <2>2. CASE ~mine
    BY <1>3, <2>2 DEF Place, OwnMove
  <2>3. QED
    BY <2>1, <2>2
<1>4. ASSUME NEW mine \in BOOLEAN, DrainMore(c, mine) \/ DrainLast(c, mine) PROVE OwnMove(c)
  BY <1>3, <1>4 DEF DrainMore, DrainLast
<1>5. CASE \/ \E t \in Timeout : Call(c, t)
           \/ PassPause(c) \/ Enter(c) \/ ScanEnd(c) \/ ScanWait(c) \/ ScanRead(c)
           \/ Woken(c) \/ QueueGet(c) \/ ReadNull(c) \/ ReadGot(c)
           \/ SpuriousWakeup(c) \/ WaitTimesOut(c) \/ QueueTimeout(c)
  <2>1. UNCHANGED <<ids, output>>
    BY <1>5 DEF Call, PassPause, Enter, ScanEnd, ScanWait, ScanRead, Woken, QueueGet,
       ReadNull, ReadGot, SpuriousWakeup, WaitTimesOut, QueueTimeout
  <2>2. QED
    BY <2>1 DEF OwnMove
<1>6. QED
  BY <1>1, <1>2, <1>4, <1>5 DEF CallerAction, CallerStep

LEMMA OwnNext == Shape /\ Flags /\ HandHeld /\ OwnIds /\ [Next]_vars => OwnIds'
<1> SUFFICES ASSUME Shape, Flags, HandHeld, OwnIds, [Next]_vars PROVE OwnIds'
  OBVIOUS
<1>1. ASSUME NEW c \in Caller, CallerAction(c) PROVE OwnIds'
  <2>1. Undisturbed(c) /\ UNCHANGED ordered
    BY <1>1, CallersApart
  <2>2. \A d \in Caller \ {c} : UNCHANGED <<ids[d], output[d]>>
    BY <2>1 DEF Undisturbed
  <2>3. ASSUME c \notin ordered, NEW j \in Id
        PROVE  /\ j \in ids'[c] => Owner[j] = c
               /\ Has(output'[c], j) => Owner[j] = c
    <3>1. OwnMove(c)
      BY <1>1, <2>3, OwnMoves
    <3>2. j \in ids'[c] => Owner[j] = c
      BY <2>3, <3>1 DEF OwnMove, OwnIds
    <3>3. ASSUME NEW i \in ids[c], output'[c] = Append(output[c], i)
          PROVE  Has(output'[c], j) <=> Has(output[c], j) \/ j = i
      <4>1. i \in Id /\ output[c] \in Seq(Id)
        BY DEF Shape
      <4>2. QED
        BY <3>3, <4>1, HasAppend
    <3>4. Has(output'[c], j) => Owner[j] = c
      BY <2>3, <3>1, <3>3 DEF OwnMove, OwnIds
    <3>5. QED
      BY <3>2, <3>4
  <2>4. QED
    BY <2>1, <2>2, <2>3 DEF OwnIds
<1>2. CASE Quiet
  BY <1>2 DEF Quiet, callVars, OwnIds
<1>3. QED
  BY <1>1, <1>2, StepKinds

\* Where all callers use the set version of GetProcessedResources, a caller
\* gets only results of resources it submitted itself, whoever reads them from
\* the output queue.
THEOREM OwnResults == Spec => [](ordered = {} => OnlyMine)
<1>1. Init => OwnIds
  BY HasNone DEF Init, OwnIds
<1>2. RolesInv /\ OwnIds /\ [Next]_vars => OwnIds'
  BY OwnNext DEF RolesInv
<1>3. OwnIds => (ordered = {} => OnlyMine)
  BY DEF OwnIds, OnlyMine, Got, Has
<1>4. QED
  BY <1>1, <1>2, <1>3, RolesInvariant, PTL DEF Spec

-----------------------------------------------------------------------------
(***************************************************************************)
(* The ordered version, for a caller that has the engine for itself.  What *)
(* it got is the beginning of its vector of ids, and index has not passed  *)
(* it: so the id it looks for is one it already got, or the next one.      *)
(* When index is at the end there is nothing of its own left to be read.   *)
(***************************************************************************)
OneCaller == \A c, d \in Caller : c = d

IsPrefix(s, t) == Len(s) <= Len(t) /\ \A k \in 1..Len(s) : s[k] = t[k]

InStep(c) ==
  /\ Distinct(order[c])
  /\ \A i \in Id : Has(order[c], i) <=> i \notin fresh
  /\ IsPrefix(output[c], order[c])
  /\ index[c] <= Len(output[c])

OrderMove(c) ==
  \/ /\ UNCHANGED <<order[c], output[c], fresh>> /\ index'[c] \in {0, index[c]}
  \/ \E i \in fresh :
       /\ fresh' = fresh \ {i} /\ order'[c] = Append(order[c], i)
       /\ UNCHANGED <<output[c], index[c]>>
  \/ \E i \in Id :
       /\ i \in finishedResources \/ i = r[c]
       /\ index[c] < Len(order[c]) => i = order[c][index[c] + 1]
       /\ output'[c] = Append(output[c], i) /\ index'[c] = index[c] + 1
       /\ UNCHANGED <<order[c], fresh>>

LEMMA OrderMoves ==
  ASSUME Shape, Flags, HandHeld, NEW c \in Caller, c \in ordered, CallerAction(c)
  PROVE  OrderMove(c)
<1> USE DEF Shape, queueVars, ctlVars
<1>1. ASSUME NEW i \in Id, ProcessResource(c, i) PROVE OrderMove(c)
  BY <1>1 DEF ProcessResource, OrderMove
<1>2. ASSUME NEW i \in Id, ScanFound(c, i) PROVE OrderMove(c)
  <2>1. /\ i \in finishedResources /\ UNCHANGED <<order, fresh>>
        /\ output' = [output EXCEPT ![c] = Append(@, i)]
        /\ index' = [index EXCEPT ![c] = @ + 1]
    BY <1>2 DEF ScanFound, Deliver, Forget
  <2>2. i = order[c][index[c] + 1]
    BY <1>2 DEF ScanFound, Candidates
  <2>3. QED
    BY <2>1, <2>2 DEF OrderMove
<1>3. ASSUME NEW mine \in BOOLEAN, pc[c] = "drain", IsMine(c, mine), Place(c, mine),
             UNCHANGED <<order, fresh>>
      PROVE  OrderMove(c)
  <2>1. CASE mine
    <3>1. index[c] < Len(order[c]) => r[c] = order[c][index[c] + 1]
      <4>1. SUFFICES ASSUME index[c] < Len(order[c]) PROVE r[c] = order[c][index[c] + 1]
        OBVIOUS
      <4>2. ~(index[c] >= Len(order[c]))
        BY <4>1
      <4>3. mine = (r[c] \in Candidates(c))
        BY <1>3, <4>2 DEF IsMine
      <4>4. r[c] \in Candidates(c)
        BY <2>1, <4>3
      <4>5. QED
        BY <4>4 DEF Candidates
    <3>2. /\ output' = [output EXCEPT ![c] = Append(@, r[c])]
          /\ index' = [index EXCEPT ![c] = @ + 1]
      BY <1>3, <2>1 DEF Place, Deliver, Forget
    <3>3. r[c] \in Id
      BY <1>3 DEF HandHeld
    <3>4. QED
      BY <1>3, <3>1, <3>2, <3>3 DEF OrderMove
  <2>2. CASE ~mine
    BY <1>3, <2>2 DEF Place, OrderMove
  <2>3. QED
    BY <2>1, <2>2
<1>4. ASSUME NEW mine \in BOOLEAN, DrainMore(c, mine) \/ DrainLast(c, mine)
      PROVE  OrderMove(c)
  BY <1>3, <1>4 DEF DrainMore, DrainLast
<1>5. CASE \E t \in Timeout : Call(c, t)
  BY <1>5 DEF Call, OrderMove
<1>6. CASE \/ PassPause(c) \/ Enter(c) \/ ScanEnd(c) \/ ScanWait(c) \/ ScanRead(c)
           \/ Woken(c) \/ QueueGet(c) \/ ReadNull(c) \/ ReadGot(c)
           \/ SpuriousWakeup(c) \/ WaitTimesOut(c) \/ QueueTimeout(c)
  <2>1. UNCHANGED <<order, index, output, fresh>>
    BY <1>6 DEF PassPause, Enter, ScanEnd, ScanWait, ScanRead, Woken, QueueGet,
       ReadNull, ReadGot, SpuriousWakeup, WaitTimesOut, QueueTimeout
  <2>2. QED
    BY <2>1 DEF OrderMove
<1>7. QED
  BY <1>1, <1>2, <1>4, <1>5, <1>6 DEF CallerAction, CallerStep

LEMMA PrefixGrows ==
  ASSUME NEW s \in Seq(Id), NEW t \in Seq(Id), NEW x \in Id, IsPrefix(s, t)
  PROVE  /\ IsPrefix(s, Append(t, x))
         /\ Len(s) < Len(t) /\ x = t[Len(s) + 1] => IsPrefix(Append(s, x), t)
BY DEF IsPrefix

LEMMA InStepMove ==
  ASSUME Shape, Apart, NEW c \in Caller, InStep(c), OrderMove(c)
  PROVE  InStep(c)'
<1>0. /\ order[c] \in Seq(Id) /\ output[c] \in Seq(Id) /\ index[c] \in Nat
      /\ Len(order[c]) \in Nat /\ Len(output[c]) \in Nat
      /\ finishedResources \subseteq Id /\ fresh \subseteq Id
  BY DEF Shape
<1>1. CASE UNCHANGED <<order[c], output[c], fresh>> /\ index'[c] \in {0, index[c]}
  BY <1>0, <1>1 DEF InStep
<1>2. ASSUME NEW i \in fresh, fresh' = fresh \ {i}, order'[c] = Append(order[c], i),
             UNCHANGED <<output[c], index[c]>>
      PROVE  InStep(c)'
  <2>1. ~Has(order[c], i)
    BY <1>0 DEF InStep
  <2>2. /\ Distinct(order'[c])
        /\ \A j \in Id : Has(order'[c], j) <=> Has(order[c], j) \/ j = i
    BY <1>0, <1>2, <2>1, HasAppend DEF InStep
  <2>3. IsPrefix(output'[c], order'[c])
    BY <1>0, <1>2, PrefixGrows DEF InStep
  <2>4. QED
    BY <1>0, <1>2, <2>2, <2>3 DEF InStep
<1>3. ASSUME NEW i \in Id, i \in finishedResources \/ i = r[c],
             index[c] < Len(order[c]) => i = order[c][index[c] + 1],
             output'[c] = Append(output[c], i), index'[c] = index[c] + 1,
             UNCHANGED <<order[c], fresh>>
      PROVE  InStep(c)'
  <2>1. i \notin fresh /\ ~Has(output[c], i)
    BY <1>3 DEF Apart
  <2>2. PICK k \in 1..Len(order[c]) : order[c][k] = i
    BY <2>1 DEF InStep, Has
  <2>3. k > Len(output[c])
    BY <1>0, <2>1, <2>2 DEF InStep, IsPrefix, Has
  <2>4. index[c] < Len(order[c])
    BY <1>0, <2>2, <2>3 DEF InStep
  <2>5. k = index[c] + 1
    BY <1>0, <1>3, <2>2, <2>4 DEF InStep, Distinct
  <2>6. index[c] = Len(output[c])
    BY <1>0, <2>3, <2>5 DEF InStep
  <2>7. IsPrefix(output'[c], order[c])
    BY <1>0, <1>3, <2>4, <2>6, PrefixGrows DEF InStep
  <2>8. Len(output'[c]) = Len(output[c]) + 1
    BY <1>0, <1>3
  <2>9. QED
    BY <1>0, <1>3, <2>6, <2>7, <2>8 DEF InStep
<1>4. QED
  BY <1>1, <1>2, <1>3 DEF OrderMove

\* GetProcessedResourcesOrdered hands results out in the order of its ids, to a
\* caller that has the engine for itself and makes any number of calls.
THEOREM OrderedResults == Spec => [](OneCaller => InOrder)
<1> DEFINE Aligned == OneCaller => \A c \in ordered : InStep(c)
<1>0. Shape => ordered \subseteq Caller
  BY CollectorAssumption DEF Shape
<1>1. Init => Aligned
  <2> SUFFICES ASSUME Init, NEW c \in ordered PROVE InStep(c)
    OBVIOUS
  <2>1. c \in Caller
    BY CollectorAssumption DEF Init
  <2>2. order[c] = <<>> /\ output[c] = <<>> /\ index[c] = 0 /\ fresh = Id
    BY <2>1 DEF Init
  <2>3. QED
    BY <2>2, HasNone DEF InStep, IsPrefix
<1>2. RolesInv /\ Apart /\ Aligned /\ [Next]_vars => Aligned'
  <2> SUFFICES ASSUME RolesInv, Apart, OneCaller, \A c \in ordered : InStep(c),
                      [Next]_vars, NEW c \in ordered'
               PROVE  InStep(c)'
    OBVIOUS
  <2>1. Shape /\ Flags /\ HandHeld
    BY DEF RolesInv
  <2>2. ASSUME NEW d \in Caller, CallerAction(d) PROVE InStep(c)'
    <3>1. c \in ordered /\ c \in Caller /\ c = d
      BY <1>0, <2>1, <2>2, CallersApart DEF OneCaller
    <3>2. OrderMove(c)
      BY <2>1, <2>2, <3>1, OrderMoves
    <3>3. QED
      BY <2>1, <3>1, <3>2, InStepMove
  <2>3. CASE Quiet
    BY <2>3 DEF Quiet, callVars, InStep
  <2>4. QED
    BY <2>2, <2>3, StepKinds
<1>3. RolesInv /\ Aligned => (OneCaller => InOrder)
  <2> SUFFICES ASSUME Shape, NEW c \in ordered, InStep(c)
               PROVE  /\ Len(output[c]) <= Len(order[c])
                      /\ output[c] = SubSeq(order[c], 1, Len(output[c]))
    BY DEF RolesInv, InOrder
  <2>1. c \in Caller /\ output[c] \in Seq(Id) /\ order[c] \in Seq(Id)
    BY <1>0 DEF Shape
  <2>2. QED
    BY <2>1 DEF InStep, IsPrefix
<1>4. QED
  BY <1>1, <1>2, <1>3, RolesInvariant, ApartInvariant, PTL DEF Spec

=============================================================================
