--------------------------- MODULE ResultCollector ---------------------------
(***************************************************************************)
(* How callers of a processing engine get their results back:              *)
(* GetProcessedResources, GetProcessedResourcesOrdered, StartSync,         *)
(* StopSync, PauseSync and ResumeSync of                                   *)
(* lib/processing_engine/ProcessingEngine.cc.                              *)
(*                                                                         *)
(* One caller at a time reads outputQueue (waitingInQueue) and leaves the  *)
(* results of the others in finishedResources; the others sleep on         *)
(* finishedLock.  outputQueue is the abstract channel of module Channel,   *)
(* which lib/SyncQueue.h implements.                                       *)
(*                                                                         *)
(* finishedLock is a plain pthread mutex.  StopSync unlocks it without     *)
(* having locked it, which frees the mutex whoever holds it.               *)
(***************************************************************************)
EXTENDS Integers, Sequences, FiniteSets

CONSTANTS
  Caller,      \* threads that ask for results (BaseServer, CallProcessingEngine)
  Modes,       \* the sets of callers that may use the ordered version
  Id,          \* ids of resources
  NoId,        \* NULL
  NoOne,       \* finishedLock is free
  Stopper,     \* the thread in StopSync
  Owner,       \* Owner[i]: the caller that submits resource i
  MaxStops     \* bound: how many times the engine is stopped

ASSUME CollectorAssumption ==
  /\ Modes \subseteq SUBSET Caller
  /\ IsFiniteSet(Caller)
  /\ NoId \notin Id
  /\ NoOne \notin Caller /\ Stopper \notin Caller /\ NoOne # Stopper
  /\ Owner \in [Id -> Caller]
  /\ MaxStops \in Nat

Timeout == {"null", "forever", "deadline"}

VARIABLES
  ordered,          \* the callers that use GetProcessedResourcesOrdered
  fresh,            \* resources nobody submitted yet
  inside,           \* resources in the input queue or in a processor
  out,              \* outputQueue
  closed,           \* outputQueue is stopped
  finishedResources,
  waitingInQueue,
  waiting,
  cancel,
  paused,           \* pauseLock and the lock of outputQueue are held by Pause
  lock,             \* holder of finishedLock
  pc,               \* where each caller is
  ids,              \* ids[c]: the ids c waits for, in no order
  order,            \* order[c]: the vector ids of an ordered caller
  index,            \* index[c]: how many of them were found in this call
  timeout,
  result,
  r,                \* the resource taken from outputQueue
  foreign,          \* found_foreign
  output,           \* what each caller got, in this and in earlier calls
  ctl,              \* the thread that runs StartSync and StopSync
  stops

queueVars == <<fresh, inside, out, closed>>
callVars == <<pc, ids, order, index, timeout, result, r, foreign, output>>
ctlVars == <<ordered, cancel, paused, ctl, stops>>
vars == <<ordered, fresh, inside, out, closed, finishedResources,
          waitingInQueue, waiting, cancel, paused, lock, pc, ids, order, index, timeout, result,
          r, foreign, output, ctl, stops>>

PC == {"idle", "pause", "lock", "scan", "wait", "woken", "timedout",
       "queue", "got", "null", "drain"}

TypeOK ==
  /\ ordered \in Modes
  /\ fresh \subseteq Id
  /\ inside \subseteq Id
  /\ out \in Seq(Id)
  /\ closed \in BOOLEAN
  /\ finishedResources \subseteq Id
  /\ waitingInQueue \in BOOLEAN
  /\ waiting \in Nat
  /\ cancel \in BOOLEAN
  /\ paused \in BOOLEAN
  /\ lock \in Caller \cup {NoOne, Stopper}
  /\ pc \in [Caller -> PC]
  /\ ids \in [Caller -> SUBSET Id]
  /\ order \in [Caller -> Seq(Id)]
  /\ index \in [Caller -> Nat]
  /\ timeout \in [Caller -> Timeout]
  /\ result \in [Caller -> BOOLEAN]
  /\ r \in [Caller -> Id \cup {NoId}]
  /\ foreign \in [Caller -> BOOLEAN]
  /\ output \in [Caller -> Seq(Id)]
  /\ ctl \in {"off", "run", "spin", "relock", "queue", "processors"}
  /\ stops \in 0..MaxStops

Init ==
  /\ ordered \in Modes
  /\ fresh = Id
  /\ inside = {}
  /\ out = <<>>
  /\ closed = FALSE
  /\ finishedResources = {}
  /\ waitingInQueue = FALSE
  /\ waiting = 0
  /\ cancel = FALSE
  /\ paused = FALSE
  /\ lock = NoOne
  /\ pc = [c \in Caller |-> "idle"]
  /\ ids = [c \in Caller |-> {}]
  /\ order = [c \in Caller |-> <<>>]
  /\ index = [c \in Caller |-> 0]
  /\ timeout = [c \in Caller |-> "null"]
  /\ result = [c \in Caller |-> TRUE]
  /\ r = [c \in Caller |-> NoId]
  /\ foreign = [c \in Caller |-> FALSE]
  /\ output = [c \in Caller |-> <<>>]
  /\ ctl = "off"
  /\ stops = 0

-----------------------------------------------------------------------------
(***************************************************************************)
(* finishedLock.                                                           *)
(***************************************************************************)

\* Mutation: the mutex is taken although another thread holds it.
AcquireAnyway(t) == lock' = t
Acquire(t) == lock = NoOne /\ lock' = t
Release == lock' = NoOne

\* A broadcast on the condition variable the callers sleep on; f is the
\* state of the callers once the signaller itself has moved.
SignalSend(f) == [c \in Caller |-> IF f[c] = "wait" THEN "woken" ELSE f[c]]

SpuriousWakeup(c) ==
  /\ pc[c] = "wait"
  /\ pc' = [pc EXCEPT ![c] = "woken"]
  /\ UNCHANGED <<queueVars, ctlVars, finishedResources, waitingInQueue, waiting,
                 lock, ids, order, index, timeout, result, r, foreign, output>>

WaitTimesOut(c) ==
  /\ pc[c] = "wait" /\ timeout[c] = "deadline"
  /\ pc' = [pc EXCEPT ![c] = "timedout"]
  /\ UNCHANGED <<queueVars, ctlVars, finishedResources, waitingInQueue, waiting,
                 lock, ids, order, index, timeout, result, r, foreign, output>>

-----------------------------------------------------------------------------
(***************************************************************************)
(* The engine: a caller submits a resource (ProcessResource), the          *)
(* processors finish resources in any order.  A resource that no processor *)
(* can put on the stopped output queue is lost.                            *)
(***************************************************************************)

ProcessResource(c, i) ==
  /\ pc[c] = "idle" /\ i \in fresh /\ Owner[i] = c
  /\ fresh' = fresh \ {i}
  /\ inside' = inside \cup {i}
  /\ IF c \in ordered
       THEN order' = [order EXCEPT ![c] = Append(@, i)] /\ UNCHANGED ids
       ELSE ids' = [ids EXCEPT ![c] = @ \cup {i}] /\ UNCHANGED order
  /\ UNCHANGED <<ctlVars, out, closed, finishedResources, waitingInQueue,
                 waiting, lock, pc, index, timeout, result, r, foreign,
                 output>>

Finish(i) ==
  /\ i \in inside /\ ctl # "off" /\ ~closed /\ ~paused
  /\ inside' = inside \ {i}
  /\ out' = Append(out, i)
  /\ UNCHANGED <<callVars, ctlVars, fresh, closed, finishedResources,
                 waitingInQueue, waiting, lock>>

-----------------------------------------------------------------------------
(***************************************************************************)
(* The callers.                                                            *)
(***************************************************************************)

Call(c, t) ==
  /\ pc[c] = "idle"
  /\ pc' = [pc EXCEPT ![c] = "pause"]
  /\ timeout' = [timeout EXCEPT ![c] = t]
  /\ result' = [result EXCEPT ![c] = TRUE]
  /\ index' = [index EXCEPT ![c] = 0]
  /\ UNCHANGED <<queueVars, ctlVars, finishedResources, waitingInQueue, waiting,
                 lock, ids, order, r, foreign, output>>

PassPause(c) ==
  /\ pc[c] = "pause" /\ ~paused
  /\ pc' = [pc EXCEPT ![c] = "lock"]
  /\ UNCHANGED <<queueVars, ctlVars, finishedResources, waitingInQueue, waiting,
                 lock, ids, order, index, timeout, result, r, foreign, output>>

Enter(c) ==
  /\ pc[c] = "lock" /\ Acquire(c)
  /\ pc' = [pc EXCEPT ![c] = "scan"]
  /\ UNCHANGED <<queueVars, ctlVars, finishedResources, waitingInQueue, waiting,
                 ids, order, index, timeout, result, r, foreign, output>>

Deliver(c, i) == output' = [output EXCEPT ![c] = Append(@, i)]

\* The ids the scan may look at next: the hash order of the set is not
\* determined, an ordered caller looks at (*ids)[index].
Candidates(c) == IF c \in ordered
              THEN {order[c][k] : k \in {index[c] + 1} \cap 1..Len(order[c])}
              ELSE ids[c]

Forget(c, i) ==
  IF c \in ordered THEN index' = [index EXCEPT ![c] = @ + 1] /\ UNCHANGED ids
                   ELSE ids' = [ids EXCEPT ![c] = @ \ {i}] /\ UNCHANGED index

\* Mutation: the resource stays in finishedResources.
ScanFoundNoErase(c, i) ==
  /\ pc[c] = "scan" /\ i \in Candidates(c) \cap finishedResources
  /\ Deliver(c, i)
  /\ UNCHANGED finishedResources
  /\ Forget(c, i)
  /\ UNCHANGED <<queueVars, ctlVars, waitingInQueue, waiting, lock, pc, order,
                 timeout, result, r, foreign>>
\* Resource found.
ScanFound(c, i) ==
  /\ pc[c] = "scan" /\ i \in Candidates(c) \cap finishedResources
  /\ Deliver(c, i)
  /\ finishedResources' = finishedResources \ {i}
  /\ Forget(c, i)
  /\ UNCHANGED <<queueVars, ctlVars, waitingInQueue, waiting, lock, pc, order,
                 timeout, result, r, foreign>>

Missing(c) == Candidates(c) \ finishedResources # {}

Return(c, b) ==
  /\ Release
  /\ pc' = [pc EXCEPT ![c] = "idle"]
  /\ timeout' = [timeout EXCEPT ![c] = "null"]
  /\ result' = [result EXCEPT ![c] = b]

\* Nothing is left to find, or the caller cannot wait for what is missing.
ScanEnd(c) ==
  /\ pc[c] = "scan"
  /\ IF timeout[c] = "null" THEN Candidates(c) \cap finishedResources = {}
                            ELSE Candidates(c) = {}
  /\ Return(c, result[c])
  /\ UNCHANGED <<queueVars, ctlVars, finishedResources, waitingInQueue, waiting,
                 ids, order, index, r, foreign, output>>

\* Mutation: the sleeper is not counted.
ScanWaitNoCount(c) ==
  /\ pc[c] = "scan" /\ Missing(c) /\ timeout[c] # "null" /\ waitingInQueue
  /\ UNCHANGED waiting
  /\ Release
  /\ pc' = [pc EXCEPT ![c] = "wait"]
  /\ UNCHANGED <<queueVars, ctlVars, finishedResources, waitingInQueue, ids,
                 order, index, timeout, result, r, foreign, output>>
\* Another caller reads the queue: sleep on finishedLock.
ScanWait(c) ==
  /\ pc[c] = "scan" /\ Missing(c) /\ timeout[c] # "null" /\ waitingInQueue
  /\ waiting' = waiting + 1
  /\ Release
  /\ pc' = [pc EXCEPT ![c] = "wait"]
  /\ UNCHANGED <<queueVars, ctlVars, finishedResources, waitingInQueue, ids,
                 order, index, timeout, result, r, foreign, output>>

\* Mutation: the flag is not set.
ScanReadNoFlag(c) ==
  /\ pc[c] = "scan" /\ Missing(c) /\ timeout[c] # "null" /\ ~waitingInQueue
  /\ UNCHANGED waitingInQueue
  /\ Release
  /\ pc' = [pc EXCEPT ![c] = "queue"]
  /\ UNCHANGED <<queueVars, ctlVars, finishedResources, waiting, ids, order, index,
                 timeout, result, r, foreign, output>>
\* Become the reader of the queue.
ScanRead(c) ==
  /\ pc[c] = "scan" /\ Missing(c) /\ timeout[c] # "null" /\ ~waitingInQueue
  /\ waitingInQueue' = TRUE
  /\ Release
  /\ pc' = [pc EXCEPT ![c] = "queue"]
  /\ UNCHANGED <<queueVars, ctlVars, finishedResources, waiting, ids, order, index,
                 timeout, result, r, foreign, output>>

\* The set version goes over the remaining ids once more without waiting,
\* the ordered one returns.
GiveUp(c, f) ==
  IF c \in ordered
    THEN /\ lock = NoOne /\ UNCHANGED lock
         /\ pc' = [f EXCEPT ![c] = "idle"]
         /\ timeout' = [timeout EXCEPT ![c] = "null"]
         /\ result' = [result EXCEPT ![c] = FALSE]
    ELSE /\ Acquire(c)
         /\ pc' = [f EXCEPT ![c] = "scan"]
         /\ timeout' = [timeout EXCEPT ![c] = "null"]
         /\ result' = [result EXCEPT ![c] = FALSE]

\* Mutation: waiting is decremented on both paths that follow the wait.
WokenTwice(c) ==
  /\ pc[c] \in {"woken", "timedout"}
  /\ waiting' = waiting - 2
  /\ Acquire(c)
  /\ pc' = [pc EXCEPT ![c] = "scan"]
  /\ UNCHANGED <<timeout, result>>
  /\ UNCHANGED <<queueVars, ctlVars, finishedResources, waitingInQueue, ids,
                 order, index, r, foreign, output>>
\* WaitSend has returned.
Woken(c) ==
  /\ pc[c] \in {"woken", "timedout"}
  /\ waiting' = waiting - 1
  /\ IF cancel \/ pc[c] = "timedout"
       THEN GiveUp(c, pc)
       ELSE /\ Acquire(c)
            /\ pc' = [pc EXCEPT ![c] = "scan"]
            /\ UNCHANGED <<timeout, result>>
  /\ UNCHANGED <<queueVars, ctlVars, finishedResources, waitingInQueue, ids,
                 order, index, r, foreign, output>>

\* outputQueue->GetItem(timeout), with finishedLock free.
QueueGet(c) ==
  /\ pc[c] = "queue" /\ ~paused
  /\ \/ /\ ~closed /\ out # <<>>
        /\ r' = [r EXCEPT ![c] = Head(out)]
        /\ out' = Tail(out)
        /\ pc' = [pc EXCEPT ![c] = "got"]
     \/ /\ closed
        /\ pc' = [pc EXCEPT ![c] = "null"]
        /\ UNCHANGED <<r, out>>
  /\ UNCHANGED <<ctlVars, fresh, inside, closed, finishedResources,
                 waitingInQueue, waiting, lock, ids, order, index, timeout, result,
                 foreign, output>>

QueueTimeout(c) ==
  /\ pc[c] = "queue" /\ ~paused /\ timeout[c] = "deadline"
  /\ pc' = [pc EXCEPT ![c] = "null"]
  /\ UNCHANGED <<queueVars, ctlVars, finishedResources, waitingInQueue, waiting,
                 lock, ids, order, index, timeout, result, r, foreign, output>>

\* GetItem returned NULL: cancelled or timed out.
ReadNull(c) ==
  /\ pc[c] = "null"
  /\ waitingInQueue' = FALSE
  /\ GiveUp(c, SignalSend(pc))
  /\ UNCHANGED <<queueVars, ctlVars, finishedResources, waiting, ids, order, index,
                 r, foreign, output>>

\* Mutation: waitingInQueue is not reset.
ReadGotKeepsFlag(c) ==
  /\ pc[c] = "got" /\ Acquire(c)
  /\ UNCHANGED waitingInQueue
  /\ foreign' = [foreign EXCEPT ![c] = FALSE]
  /\ pc' = [pc EXCEPT ![c] = "drain"]
  /\ UNCHANGED <<queueVars, ctlVars, finishedResources, waiting, ids, order,
                 index, timeout, result, r, output>>
\* GetItem returned a resource.
ReadGot(c) ==
  /\ pc[c] = "got" /\ Acquire(c)
  /\ waitingInQueue' = FALSE
  /\ foreign' = [foreign EXCEPT ![c] = FALSE]
  /\ pc' = [pc EXCEPT ![c] = "drain"]
  /\ UNCHANGED <<queueVars, ctlVars, finishedResources, waiting, ids, order, index,
                 timeout, result, r, output>>

\* Mutation: every resource is taken for one's own.
IsMineAlways(c, mine) == mine = TRUE
\* Mutation: an ordered caller takes any of its ids.
IsMineInAnyOrder(c, mine) ==
  mine = (r[c] \in ids[c] \/ \E k \in 1..Len(order[c]) : order[c][k] = r[c])
\* One resource of the drain loop.  An ordered caller compares it with
\* (*ids)[index] even when index is past the end of ids: the comparison may
\* then come out either way.
IsMine(c, mine) ==
  IF c \in ordered /\ index[c] >= Len(order[c])
    THEN mine \in BOOLEAN
    ELSE mine = (r[c] \in Candidates(c))

Place(c, mine) ==
  IF mine
    THEN /\ Deliver(c, r[c])
         /\ Forget(c, r[c])
         /\ UNCHANGED <<finishedResources, foreign>>
    ELSE /\ finishedResources' = finishedResources \cup {r[c]}
         /\ foreign' = [foreign EXCEPT ![c] = TRUE]
         /\ UNCHANGED <<ids, index, output>>

\* ... and the next one, GetItem(NULL).
DrainMore(c, mine) ==
  /\ pc[c] = "drain" /\ ~paused /\ ~closed /\ out # <<>>
  /\ IsMine(c, mine) /\ Place(c, mine)
  /\ r' = [r EXCEPT ![c] = Head(out)]
  /\ out' = Tail(out)
  /\ UNCHANGED <<ctlVars, fresh, inside, closed, waitingInQueue, waiting, lock,
                 pc, order, timeout, result>>

\* Mutation: the others are not woken.
DrainLastQuiet(c, mine) ==
  /\ pc[c] = "drain" /\ ~paused /\ (closed \/ out = <<>>)
  /\ IsMine(c, mine) /\ Place(c, mine)
  /\ r' = [r EXCEPT ![c] = NoId]
  /\ UNCHANGED lock /\ pc' = [pc EXCEPT ![c] = "scan"]
  /\ UNCHANGED <<queueVars, ctlVars, waitingInQueue, waiting, order, timeout,
                 result>>
\* The queue is empty: wake the others if one of them may have a result now.
\* An ordered caller then lets go of the lock for a moment.
DrainLast(c, mine) ==
  /\ pc[c] = "drain" /\ ~paused /\ (closed \/ out = <<>>)
  /\ IsMine(c, mine) /\ Place(c, mine)
  /\ r' = [r EXCEPT ![c] = NoId]
  /\ IF foreign'[c]
       THEN IF c \in ordered
              THEN Release /\ pc' = SignalSend([pc EXCEPT ![c] = "lock"])
              ELSE UNCHANGED lock /\ pc' = SignalSend([pc EXCEPT ![c] = "scan"])
       ELSE UNCHANGED lock /\ pc' = [pc EXCEPT ![c] = "scan"]
  /\ UNCHANGED <<queueVars, ctlVars, waitingInQueue, waiting, order, timeout,
                 result>>

-----------------------------------------------------------------------------
(***************************************************************************)
(* StartSync, StopSync, PauseSync, ResumeSync, under the lock of the       *)
(* engine object.                                                          *)
(***************************************************************************)

collectorVars == <<ordered, fresh, finishedResources, waitingInQueue, waiting, callVars>>

Start ==
  /\ ctl = "off"
  /\ ctl' = "run"
  /\ cancel' = FALSE
  /\ closed' = FALSE
  /\ UNCHANGED <<collectorVars, inside, out, paused, lock, stops>>

\* Mutation: the loop goes on until waiting is negative.
StopLoopsAtZero == waiting >= 0
\* The condition of the loop, read without the lock in the first round.
StopLoops == waiting > 0

\* A paused engine is resumed, then the sleeping callers are to be cancelled.
StopBegin ==
  /\ ctl = "run" /\ stops < MaxStops
  /\ stops' = stops + 1
  /\ paused' = FALSE
  /\ cancel' = TRUE
  /\ ctl' = IF StopLoops THEN "spin" ELSE "queue"
  /\ UNCHANGED <<collectorVars, inside, out, closed, lock>>

\* A round of the loop: SignalRecv, on which no caller sleeps, and Unlock of
\* a mutex this thread does not hold in the first round ...
StopSpin ==
  /\ ctl = "spin"
  /\ Release
  /\ ctl' = "relock"
  /\ UNCHANGED <<collectorVars, inside, out, closed, cancel, paused, stops>>

\* ... and Lock, after sched_yield.
StopRelock ==
  /\ ctl = "relock" /\ Acquire(Stopper)
  /\ ctl' = IF StopLoops THEN "spin" ELSE "queue"
  /\ UNCHANGED <<collectorVars, inside, out, closed, cancel, paused, stops>>

\* Mutation: the output queue is not stopped.
StopQueueNot ==
  /\ ctl = "queue"
  /\ ctl' = "processors"
  /\ UNCHANGED <<collectorVars, inside, out, closed, cancel, paused, lock, stops>>
\* outputQueue->Stop().
StopQueue ==
  /\ ctl = "queue"
  /\ closed' = TRUE
  /\ out' = <<>>
  /\ ctl' = "processors"
  /\ UNCHANGED <<collectorVars, inside, cancel, paused, lock, stops>>

\* processors[i]->Stop() for each of them: what they work on is lost.
StopProcessors ==
  /\ ctl = "processors"
  /\ inside' = {}
  /\ ctl' = "off"
  /\ UNCHANGED <<collectorVars, out, closed, cancel, paused, lock, stops>>

Pause ==
  /\ ctl = "run" /\ ~paused
  /\ paused' = TRUE
  /\ UNCHANGED <<collectorVars, inside, out, closed, cancel, lock, ctl, stops>>

Resume ==
  /\ ctl = "run" /\ paused
  /\ paused' = FALSE
  /\ UNCHANGED <<collectorVars, inside, out, closed, cancel, lock, ctl, stops>>

-----------------------------------------------------------------------------

\* What a caller does by itself once it is in a call.
CallerStep(c) ==
  \/ PassPause(c) \/ Enter(c)
  \/ \E i \in Id : ScanFound(c, i)
  \/ ScanEnd(c) \/ ScanWait(c) \/ ScanRead(c)
  \/ Woken(c)
  \/ QueueGet(c) \/ ReadNull(c) \/ ReadGot(c)
  \/ \E mine \in BOOLEAN : DrainMore(c, mine) \/ DrainLast(c, mine)

StopStep == StopSpin \/ StopRelock \/ StopQueue \/ StopProcessors

Next ==
  \/ \E c \in Caller :
       \/ \E i \in Id : ProcessResource(c, i)
       \/ \E t \in Timeout : Call(c, t)
       \/ CallerStep(c)
       \/ SpuriousWakeup(c) \/ WaitTimesOut(c) \/ QueueTimeout(c)
  \/ \E i \in Id : Finish(i)
  \/ Start \/ StopBegin \/ StopStep \/ Pause \/ Resume

Spec == Init /\ [][Next]_vars

(***************************************************************************)
(* Fairness: a caller inside a call goes on when it can, also when the     *)
(* mutex is free only now and then; deadlines pass; processors finish what *)
(* they work on; the thread in StopSync is scheduled.  Nobody has to call, *)
(* stop, start, pause or resume.                                           *)
(***************************************************************************)
Fairness ==
  /\ \A c \in Caller : /\ SF_vars(CallerStep(c))
                       /\ WF_vars(WaitTimesOut(c) \/ QueueTimeout(c))
  /\ \A i \in Id : WF_vars(Finish(i))
  /\ SF_vars(StopStep)

FairSpec == Spec /\ Fairness

-----------------------------------------------------------------------------
(***************************************************************************)
(* Properties.                                                             *)
(***************************************************************************)

InOut(i) == \E k \in 1..Len(out) : out[k] = i
Got(c, i) == \E k \in 1..Len(output[c]) : output[c][k] = i

\* No result is handed out twice, and none is at two places: not yet finished,
\* on the output queue, in the hands of the reader, in finishedResources or
\* with a caller, although readers, sleepers and StopSync move them around.
OnePlace ==
  /\ \A j, k \in 1..Len(out) : out[j] = out[k] => j = k
  /\ \A c \in Caller : \A j, k \in 1..Len(output[c]) :
       output[c][j] = output[c][k] => j = k
  /\ \A i \in Id :
       /\ i \in fresh \cup inside =>
            ~InOut(i) /\ i \notin finishedResources /\ \A c \in Caller : r[c] # i
       /\ InOut(i) => i \notin finishedResources /\ \A c \in Caller : r[c] # i
       /\ i \in finishedResources => \A c \in Caller : r[c] # i
       /\ \A c \in Caller : Got(c, i) =>
            /\ i \notin fresh \cup inside \cup finishedResources /\ ~InOut(i)
            /\ \A d \in Caller : r[d] # i /\ (Got(d, i) => d = c)
       /\ \A c, d \in Caller : r[c] = i /\ r[d] = i => c = d

\* A caller gets only results of resources it submitted: the reader sorts the
\* results of the others into finishedResources.
OnlyMine == \A c \in Caller, i \in Id : Got(c, i) => Owner[i] = c

\* waiting counts the callers that have not come back from WaitSend: StopSync
\* leaves its loop on it.
WaitingExact ==
  waiting = Cardinality({c \in Caller : pc[c] \in {"wait", "woken", "timedout"}})

Reading(c) == pc[c] \in {"queue", "got", "null"}

\* There is one reader of outputQueue at most, and waitingInQueue tells whether
\* there is one.
OneReader ==
  /\ waitingInQueue <=> \E c \in Caller : Reading(c)
  /\ \A c, d \in Caller : Reading(c) /\ Reading(d) => c = d

\* A caller that sleeps unsignalled has an id that is not in
\* finishedResources: a reader that puts the last one there wakes it up when
\* it has emptied the queue.
SleeperLacksResult ==
  \A c \in Caller : pc[c] = "wait" =>
    Missing(c) \/ \E d \in Caller : pc[d] = "drain" /\ foreign[d]

\* Until StopSync unlocks a mutex it does not hold, only the holder of
\* finishedLock is in the critical section.
Exclusive ==
  stops = 0 => \A c \in Caller : pc[c] \in {"scan", "drain"} => lock = c

\* GetProcessedResourcesOrdered delivers in the order of its ids.
InOrder ==
  \A c \in ordered : /\ Len(output[c]) <= Len(order[c])
                      /\ output[c] = SubSeq(order[c], 1, Len(output[c]))

\* A caller all of whose results are finished returns, if the engine is not
\* stopped and does not stay paused.  The ordered version never forgets an id,
\* so that a second call for the same vector waits for results already given.
Produced(c) ==
  /\ ids[c] \cap (fresh \cup inside) = {}
  /\ \A k \in 1..Len(order[c]) : order[c][k] \notin fresh \cup inside
ResultsReachCaller ==
  ordered = {} /\ <>[]~paused /\ [](stops = 0) =>
    \A c \in Caller : pc[c] # "idle" /\ Produced(c) ~> pc[c] = "idle"

\* StopSync returns.
StopReturns == ctl \in {"spin", "relock", "queue", "processors"} ~> ctl = "off"

\* A caller that is in a call when the engine is stopped leaves it, unless the
\* engine is started again first.
StopFreesCallers ==
  \A c \in Caller : ctl = "off" /\ stops > 0 /\ pc[c] # "idle"
                       ~> pc[c] = "idle" \/ ctl # "off"

\* The bookkeeping of GetProcessedResources: one thread in the critical section,
\* one reader, and exact counts of the callers that sleep.
RolesExact == TypeOK /\ Exclusive /\ OneReader /\ WaitingExact

\* StopSync: it returns, and the callers it finds inside leave.
StopEnds == StopReturns /\ StopFreesCallers

=============================================================================
