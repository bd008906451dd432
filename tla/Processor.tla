------------------------------ MODULE Processor ------------------------------
(***************************************************************************)
(* lib/processing_engine/Processor.cc: the threads of one processor, from  *)
(* Start to Stop.  A thread takes a resource from the input queue or from  *)
(* an INPUT module, applies a SIMPLE module, hands it to a MULTI module if *)
(* there is one (TestMulti of the repository) and puts it on the queues    *)
(* that the output filters name.                                           *)
(*                                                                         *)
(* Queues are the abstract channels that lib/SyncQueue.h implements.  The  *)
(* deque deletedResources is shared by the threads and has no lock, so     *)
(* looking at its front and removing it are steps of their own.            *)
(***************************************************************************)
EXTENDS Integers, Sequences, FiniteSets

CONSTANTS
  Thread,
  Id,            \* resources
  NoId,          \* NULL
  HasInput,      \* the first module is an INPUT module
  HasMulti,      \* there is a MULTI module
  Doomed,        \* resources the first module marks as deleted
  NFilter,       \* number of output filters
  Copy,          \* filters that pass on a copy
  Accepts,       \* Accepts[f]: resources whose status passes filter f
  ToEngine,      \* filters that lead to the output queue of the engine
  Cap,           \* Cap[f]: limit of the queue of filter f, 0 for none
  EngineQueue,   \* the engine has an output queue
  MAX_RESOURCES, \* of TestMulti
  Burst          \* how many resources the MULTI module lets go in one call: one
                 \* in TestMulti, several in the modules that call an engine

Filter == 1..NFilter

ASSUME ProcessorAssumption ==
  /\ NoId \notin Id
  /\ HasInput \in BOOLEAN /\ HasMulti \in BOOLEAN /\ EngineQueue \in BOOLEAN
  /\ Doomed \subseteq Id
  /\ NFilter \in Nat
  /\ Copy \subseteq Filter /\ ToEngine \subseteq Filter
  /\ Accepts \in [Filter -> SUBSET Id]
  /\ Cap \in [Filter -> Nat]
  /\ MAX_RESOURCES \in Nat \ {0} /\ Burst \in Nat \ {0}
  /\ \A f, g \in ToEngine : f = g
  /\ ToEngine # {} => EngineQueue

VARIABLES
  fresh,          \* resources that have not come to the processor
  inputQueue,
  inputClosed,
  len,            \* len[f]: resources on the queue of filter f
  passed,         \* passed[f][i]: how often i was put on the queue of f
  outClosed,      \* the queues of the filters are stopped
  deletedResources,
  gone,           \* gone[i]: how often i was handed on or released as deleted
  dropped,        \* released by QueueResource because no filter took them
  resourceCount,  \* of the engine
  downstream,     \* counted resources that have left for other processors
  running,
  pauseInput,
  ctl,            \* the thread that runs Processor::Stop
  th              \* the threads

vars == <<fresh, inputQueue, inputClosed, len, passed, outClosed,
          deletedResources, gone, dropped, resourceCount, downstream, running,
          pauseInput, ctl, th>>

Place == {"new", "top", "read", "pauseWait", "pauseWoken", "pauseLock", "input",
       "queue", "multi", "out", "qpend", "qres", "after", "flush", "flushPop",
       "ended", "aborted"}

ThreadState ==
  [at : Place, block : BOOLEAN, readMax : Int, nread : Nat, r : Id \cup {NoId},
   min : Seq(Id), held : Seq(Id), mout : Seq(Id), pending : Id \cup {NoId},
   nqueued : Nat, qf : Nat]

TypeOK ==
  /\ fresh \subseteq Id
  /\ inputQueue \in Seq(Id)
  /\ inputClosed \in BOOLEAN
  /\ len \in [Filter -> Nat]
  /\ passed \in [Filter -> [Id -> Nat]]
  /\ outClosed \in BOOLEAN
  /\ deletedResources \in Seq(Id)
  /\ gone \in [Id -> Nat]
  /\ dropped \subseteq Id
  /\ resourceCount \in Int
  /\ downstream \in Nat
  /\ running \in BOOLEAN
  /\ pauseInput \in BOOLEAN
  /\ ctl \in {"run", "queue", "signal", "join", "off"}
  /\ th \in [Thread -> ThreadState]

Init ==
  /\ fresh = Id
  /\ inputQueue = <<>>
  /\ inputClosed = FALSE
  /\ len = [f \in Filter |-> 0]
  /\ passed = [f \in Filter |-> [i \in Id |-> 0]]
  /\ outClosed = FALSE
  /\ deletedResources = <<>>
  /\ gone = [i \in Id |-> 0]
  /\ dropped = {}
  /\ resourceCount = 0
  /\ downstream = 0
  /\ running = TRUE
  /\ pauseInput \in IF HasInput THEN BOOLEAN ELSE {FALSE}
  /\ ctl = "run"
  /\ th = [t \in Thread |->
            [at |-> "new", block |-> TRUE, readMax |-> 1, nread |-> 0,
             r |-> NoId, min |-> <<>>, held |-> <<>>, mout |-> <<>>,
             pending |-> NoId, nqueued |-> 0, qf |-> 1]]

inVars == <<fresh, inputQueue, inputClosed>>
outVars == <<len, passed, outClosed, dropped, downstream>>
delVars == <<deletedResources, gone>>
ctlVars == <<running, pauseInput, ctl>>

At(t, a) == th[t].at = a
Goto(t, a) == th' = [th EXCEPT ![t].at = a]

-----------------------------------------------------------------------------
(***************************************************************************)
(* The surroundings: resources arrive on the input queue, already counted, *)
(* and the processors behind the filters take what is put there.           *)
(***************************************************************************)

Arrive(i) ==
  /\ ~HasInput /\ i \in fresh /\ ~inputClosed
  /\ fresh' = fresh \ {i}
  /\ inputQueue' = Append(inputQueue, i)
  /\ resourceCount' = resourceCount + 1
  /\ UNCHANGED <<inputClosed, outVars, delVars, ctlVars, th>>

\* Mutation: an empty queue is not noticed.
ConsumeAlways(f) ==
  /\ len' = [len EXCEPT ![f] = @ - 1]
  /\ UNCHANGED <<inVars, passed, outClosed, delVars, dropped, resourceCount,
                 downstream, ctlVars, th>>
Consume(f) ==
  /\ len[f] > 0
  /\ len' = [len EXCEPT ![f] = @ - 1]
  /\ UNCHANGED <<inVars, passed, outClosed, delVars, dropped, resourceCount,
                 downstream, ctlVars, th>>

-----------------------------------------------------------------------------
(***************************************************************************)
(* RunThread, up to the first MULTI module.                                *)
(***************************************************************************)

Top(t) ==
  /\ At(t, "new") \/ At(t, "top")
  /\ th' = [th EXCEPT ![t].at = IF running THEN "read" ELSE "ended",
                      ![t].nread = 0]
  /\ UNCHANGED <<inVars, outVars, delVars, resourceCount, ctlVars>>

\* What follows when the reading is over.
AfterRead == IF HasMulti THEN "multi" ELSE "after"

Blocks(t) == th[t].block /\ th[t].nread = 0
\* Mutation: one resource too many is read.
MayReadMore(t) == At(t, "read") /\ th[t].nread <= th[t].readMax
MayRead(t) == At(t, "read") /\ th[t].nread < th[t].readMax

ReadEnd(t) ==
  /\ At(t, "read") /\ th[t].nread >= th[t].readMax
  /\ Goto(t, AfterRead)
  /\ UNCHANGED <<inVars, outVars, delVars, resourceCount, ctlVars>>

\* Mutation: the resource replaces the ones that wait for the MULTI module.
ApplyReplaces(t, i, n) ==
  IF HasMulti
    THEN th' = [th EXCEPT ![t].at = "read", ![t].nread = @ + n, ![t].min = <<i>>]
    ELSE th' = [th EXCEPT ![t].at = "queue", ![t].nread = @ + n,
                          ![t].r = i, ![t].qf = 1]
\* ApplyModules on resource i and what RunThread does with its result; nread
\* is incremented by n.
Apply(t, i, n) ==
  IF HasMulti
    THEN th' = [th EXCEPT ![t].at = "read", ![t].nread = @ + n,
                          ![t].min = Append(@, i)]
    ELSE th' = [th EXCEPT ![t].at = "queue", ![t].nread = @ + n,
                          ![t].r = i, ![t].qf = 1]

\* Mutation: the resource stays on the queue.
TakePeek(t) ==
  LET i == Head(inputQueue) IN
  /\ MayRead(t) /\ ~HasInput /\ ~inputClosed /\ inputQueue # <<>>
  /\ Apply(t, i, 2)
  /\ UNCHANGED <<inVars, outVars, delVars, resourceCount, ctlVars>>
\* A resource from the queue is counted twice in resourcesRead, unless the
\* SIMPLE module marks it as deleted, which ends the reading.
Take(t) ==
  LET i == Head(inputQueue) IN
  /\ MayRead(t) /\ ~HasInput /\ ~inputClosed /\ inputQueue # <<>>
  /\ inputQueue' = Tail(inputQueue)
  /\ IF i \in Doomed
       THEN /\ deletedResources' = Append(deletedResources, i)
            /\ Goto(t, AfterRead)
       ELSE Apply(t, i, 2) /\ UNCHANGED deletedResources
  /\ UNCHANGED <<fresh, inputClosed, outVars, gone, resourceCount, ctlVars>>

\* GetItem returns NULL: the queue is stopped, or empty and we do not block.
TakeNone(t) ==
  /\ MayRead(t) /\ ~HasInput
  /\ inputClosed \/ (inputQueue = <<>> /\ ~Blocks(t))
  /\ Goto(t, IF Blocks(t) THEN "ended" ELSE AfterRead)
  /\ UNCHANGED <<inVars, outVars, delVars, resourceCount, ctlVars>>

\* pauseInputCond.Lock() and the test of pauseInput before an INPUT module.
PauseGate(t) ==
  /\ MayRead(t) /\ HasInput
  /\ Goto(t, IF ~pauseInput THEN "input"
             ELSE IF th[t].block THEN "pauseWait" ELSE AfterRead)
  /\ UNCHANGED <<inVars, outVars, delVars, resourceCount, ctlVars>>

SpuriousWakeup(t) ==
  /\ At(t, "pauseWait")
  /\ Goto(t, "pauseWoken")
  /\ UNCHANGED <<inVars, outVars, delVars, resourceCount, ctlVars>>

\* After WaitSend the lock is released, IsRunning is tested ...
PauseBack(t) ==
  /\ At(t, "pauseWoken")
  /\ Goto(t, IF running THEN "pauseLock" ELSE "ended")
  /\ UNCHANGED <<inVars, outVars, delVars, resourceCount, ctlVars>>

\* ... and the lock is taken again.
PauseAgain(t) ==
  /\ At(t, "pauseLock")
  /\ Goto(t, IF pauseInput THEN "pauseWait" ELSE "input")
  /\ UNCHANGED <<inVars, outVars, delVars, resourceCount, ctlVars>>

\* An INPUT module; a resource marked as deleted is not counted.
Input(t, i) ==
  /\ At(t, "input") /\ i \in fresh
  /\ fresh' = fresh \ {i}
  /\ IF i \in Doomed
       THEN /\ deletedResources' = Append(deletedResources, i)
            /\ UNCHANGED <<resourceCount, th>>
       ELSE /\ Apply(t, i, 1)
            /\ resourceCount' = resourceCount + 1
            /\ UNCHANGED deletedResources
  /\ UNCHANGED <<inputQueue, inputClosed, outVars, gone, ctlVars>>

InputNone(t) ==
  /\ At(t, "input") /\ fresh = {}
  /\ Goto(t, IF Blocks(t) THEN "ended" ELSE AfterRead)
  /\ UNCHANGED <<inVars, outVars, delVars, resourceCount, ctlVars>>

-----------------------------------------------------------------------------
(***************************************************************************)
(* QueueResource.  It is called at three places: "queue" for a resource    *)
(* that met no MULTI module, "qres" for one that comes out of it, "qpend"  *)
(* for one that could not be queued before.                                *)
(***************************************************************************)

Queueing(t) == th[t].at \in {"queue", "qpend", "qres"}
Current(t) == IF At(t, "qpend") THEN th[t].pending ELSE th[t].r
Matches(f, i) == f \in Filter /\ i \in Accepts[f]
HasSpace(f) == Cap[f] = 0 \/ len[f] < Cap[f]

\* PutItem with a NULL timeout does not wait.
WaitsForSpace(t) == At(t, "queue") \/ (th[t].block /\ th[t].nqueued = 0)

\* QueueResource returns true.
QueuedNext(t) ==
  CASE At(t, "queue") -> [th[t] EXCEPT !.at = "read", !.r = NoId]
    [] At(t, "qres")  -> [th[t] EXCEPT !.at = "out", !.r = NoId,
                                       !.nqueued = @ + 1]
    [] At(t, "qpend") -> [th[t] EXCEPT !.at = "qres", !.pending = NoId, !.qf = 1,
                                       !.nqueued = @ + 1]

\* It returns false.  A resource that waits for the pending one is forgotten.
RefusedNext(t) ==
  CASE At(t, "queue") -> [th[t] EXCEPT !.at = "ended", !.r = NoId]
    [] At(t, "qres")  -> [th[t] EXCEPT !.at = "after", !.pending = th[t].r,
                                       !.r = NoId]
    [] At(t, "qpend") -> [th[t] EXCEPT !.at = "after", !.r = NoId]

\* A filter that does not let the status pass.
QueueSkip(t) ==
  /\ Queueing(t) /\ th[t].qf <= NFilter /\ ~Matches(th[t].qf, Current(t))
  /\ th' = [th EXCEPT ![t].qf = @ + 1]
  /\ UNCHANGED <<inVars, outVars, delVars, resourceCount, ctlVars>>

\* Mutation: the loop over the filters ends after a copy too.
QueueCopyEnds(t) ==
  LET f == th[t].qf IN
  /\ Queueing(t) /\ Matches(f, Current(t)) /\ f \in Copy
  /\ ~outClosed /\ HasSpace(f)
  /\ len' = [len EXCEPT ![f] = @ + 1]
  /\ passed' = [passed EXCEPT ![f][Current(t)] = @ + 1]
  /\ downstream' = downstream + 1
  /\ th' = [th EXCEPT ![t] = QueuedNext(t)]
  /\ UNCHANGED <<inVars, outClosed, dropped, delVars, resourceCount, ctlVars>>
\* Mutation: the copy goes through the same filter again.
QueueCopyAgain(t) ==
  LET f == th[t].qf IN
  /\ Queueing(t) /\ Matches(f, Current(t)) /\ f \in Copy
  /\ ~outClosed /\ HasSpace(f)
  /\ len' = [len EXCEPT ![f] = @ + 1]
  /\ passed' = [passed EXCEPT ![f][Current(t)] = @ + 1]
  /\ resourceCount' = resourceCount + 1
  /\ downstream' = downstream + 1
  /\ UNCHANGED <<inVars, outClosed, dropped, delVars, ctlVars, th>>
\* A copy goes on, the resource itself looks for another filter.
QueueCopy(t) ==
  LET f == th[t].qf IN
  /\ Queueing(t) /\ Matches(f, Current(t)) /\ f \in Copy
  /\ ~outClosed /\ HasSpace(f)
  /\ len' = [len EXCEPT ![f] = @ + 1]
  /\ passed' = [passed EXCEPT ![f][Current(t)] = @ + 1]
  /\ resourceCount' = resourceCount + 1
  /\ downstream' = downstream + 1
  /\ th' = [th EXCEPT ![t].qf = @ + 1]
  /\ UNCHANGED <<inVars, outClosed, dropped, delVars, ctlVars>>

\* Mutation: a resource for the engine's output queue stays counted.
QueuePutKeepsCount(t) ==
  LET f == th[t].qf IN
  /\ Queueing(t) /\ Matches(f, Current(t)) /\ f \notin Copy
  /\ ~outClosed /\ HasSpace(f)
  /\ len' = [len EXCEPT ![f] = @ + 1]
  /\ passed' = [passed EXCEPT ![f][Current(t)] = @ + 1]
  /\ UNCHANGED resourceCount
  /\ downstream' = IF f \in ToEngine THEN downstream ELSE downstream + 1
  /\ th' = [th EXCEPT ![t] = QueuedNext(t)]
  /\ UNCHANGED <<inVars, outClosed, dropped, delVars, ctlVars>>
QueuePut(t) ==
  LET f == th[t].qf IN
  /\ Queueing(t) /\ Matches(f, Current(t)) /\ f \notin Copy
  /\ ~outClosed /\ HasSpace(f)
  /\ len' = [len EXCEPT ![f] = @ + 1]
  /\ passed' = [passed EXCEPT ![f][Current(t)] = @ + 1]
  /\ IF f \in ToEngine
       THEN resourceCount' = resourceCount - 1 /\ UNCHANGED downstream
       ELSE downstream' = downstream + 1 /\ UNCHANGED resourceCount
  /\ th' = [th EXCEPT ![t] = QueuedNext(t)]
  /\ UNCHANGED <<inVars, outClosed, dropped, delVars, ctlVars>>

\* Mutation: a resource that no filter took stays counted.
QueueDropKeepsCount(t) ==
  /\ Queueing(t) /\ th[t].qf > NFilter
  /\ dropped' = dropped \cup {Current(t)}
  /\ th' = [th EXCEPT ![t] = QueuedNext(t)]
  /\ UNCHANGED <<inVars, len, passed, outClosed, downstream, delVars,
                 resourceCount, ctlVars>>
\* "Lost resource": no filter took it.
QueueDrop(t) ==
  /\ Queueing(t) /\ th[t].qf > NFilter
  /\ dropped' = dropped \cup {Current(t)}
  /\ resourceCount' = resourceCount - 1
  /\ th' = [th EXCEPT ![t] = QueuedNext(t)]
  /\ UNCHANGED <<inVars, len, passed, outClosed, downstream, delVars, ctlVars>>

\* PutItem returns false: the queue is stopped, or full and we do not wait.
\* The next attempt starts again at the filter this one started with.
QueueRefused(t) ==
  /\ Queueing(t) /\ Matches(th[t].qf, Current(t))
  /\ outClosed \/ (~HasSpace(th[t].qf) /\ ~WaitsForSpace(t))
  /\ th' = [th EXCEPT ![t] = RefusedNext(t)]
  /\ UNCHANGED <<inVars, outVars, delVars, resourceCount, ctlVars>>

-----------------------------------------------------------------------------
(***************************************************************************)
(* The MULTI module, and what comes out of it.                             *)
(***************************************************************************)

SeqMin(a, b) == IF a < b THEN a ELSE b

\* TestMulti::ProcessMultiSync takes from its input while it holds at most
\* MAX_RESOURCES, and lets go of its oldest resources.
Multi(t) ==
  LET s == th[t]
      room == IF Len(s.held) <= MAX_RESOURCES
                THEN MAX_RESOURCES + 1 - Len(s.held) ELSE 0
      k == SeqMin(room, Len(s.min))
      all == s.held \o SubSeq(s.min, 1, k)
      left == SubSeq(s.min, k + 1, Len(s.min))
      b == SeqMin(Burst, Len(all))
      kept == SubSeq(all, b + 1, Len(all))
  IN
  /\ At(t, "multi")
  /\ th' = [th EXCEPT ![t] =
       IF all = <<>>
         THEN [s EXCEPT !.at = "out", !.min = left, !.block = TRUE,
                        !.readMax = MAX_RESOURCES - Len(left), !.nqueued = 0]
         ELSE [s EXCEPT !.at = "out", !.min = left, !.held = kept,
                        !.mout = @ \o SubSeq(all, 1, b), !.block = kept = <<>>,
                        !.readMax = MAX_RESOURCES - Len(kept) - Len(left),
                        !.nqueued = 0]]
  /\ UNCHANGED <<inVars, outVars, delVars, resourceCount, ctlVars>>

\* Mutation: the output stays in the queue of the module.
OutPeek(t) ==
  /\ At(t, "out")
  /\ IF th[t].mout = <<>>
       THEN Goto(t, "after")
       ELSE th' = [th EXCEPT ![t].r = Head(th[t].mout), ![t].qf = 1,
                             ![t].at = IF th[t].pending # NoId THEN "qpend"
                                                               ELSE "qres"]
  /\ UNCHANGED <<inVars, outVars, delVars, resourceCount, ctlVars>>
\* Take the next output; a resource that is still pending goes first.
Out(t) ==
  /\ At(t, "out")
  /\ IF th[t].mout = <<>>
       THEN Goto(t, "after")
       ELSE th' = [th EXCEPT ![t].r = Head(th[t].mout), ![t].mout = Tail(@),
                             ![t].qf = 1,
                             ![t].at = IF th[t].pending # NoId THEN "qpend"
                                                               ELSE "qres"]
  /\ UNCHANGED <<inVars, outVars, delVars, resourceCount, ctlVars>>

\* Output that is left over: the thread was cancelled, or it runs into
\* assert(multiIndex == -1) while multiIndex is the index of the module.
After(t) ==
  /\ At(t, "after")
  /\ th' = [th EXCEPT ![t] =
       IF ~HasMulti THEN [@ EXCEPT !.at = "flush", !.block = TRUE, !.readMax = 1]
       ELSE IF @.mout = <<>> THEN [@ EXCEPT !.at = "flush"]
       ELSE IF @.block /\ @.nqueued = 0 THEN [@ EXCEPT !.at = "ended"]
       ELSE [@ EXCEPT !.at = "aborted"]]
  /\ UNCHANGED <<inVars, outVars, delVars, resourceCount, ctlVars>>

-----------------------------------------------------------------------------
(***************************************************************************)
(* Deleted resources go to the output queue of the engine, or are released *)
(* if it has none.                                                         *)
(***************************************************************************)

Flush(t) ==
  /\ At(t, "flush")
  /\ IF deletedResources = <<>>
       THEN Goto(t, "top") /\ UNCHANGED <<len, gone, resourceCount>>
     ELSE IF EngineQueue /\ (outClosed \/ \E f \in ToEngine : ~HasSpace(f))
       THEN /\ th' = [th EXCEPT ![t].at = "top", ![t].readMax = 0]
            /\ UNCHANGED <<len, gone, resourceCount>>
     ELSE /\ gone' = [gone EXCEPT ![Head(deletedResources)] = @ + 1]
          /\ len' = [f \in Filter |-> IF f \in ToEngine THEN len[f] + 1 ELSE len[f]]
          /\ resourceCount' = resourceCount - 1
          /\ Goto(t, "flushPop")
  /\ UNCHANGED <<inVars, passed, outClosed, dropped, downstream,
                 deletedResources, ctlVars>>

\* deletedResources.pop(); with an empty deque it is undefined.
FlushPop(t) ==
  /\ At(t, "flushPop")
  /\ IF deletedResources = <<>>
       THEN Goto(t, "aborted") /\ UNCHANGED deletedResources
       ELSE Goto(t, "flush") /\ deletedResources' = Tail(deletedResources)
  /\ UNCHANGED <<inVars, outVars, gone, resourceCount, ctlVars>>

-----------------------------------------------------------------------------
(***************************************************************************)
(* SetPauseInput, and Stop in the order of its steps.                      *)
(***************************************************************************)

Signalled(f) ==
  [t \in Thread |-> IF f[t].at = "pauseWait" THEN [f[t] EXCEPT !.at = "pauseWoken"]
                                             ELSE f[t]]

SetPauseInput(b) ==
  /\ HasInput /\ pauseInput # b /\ ctl = "run"
  /\ pauseInput' = b
  /\ th' = IF b THEN th ELSE Signalled(th)
  /\ UNCHANGED <<inVars, outVars, delVars, resourceCount, running, ctl>>

StopRunning ==
  /\ ctl = "run"
  /\ running' = FALSE
  /\ ctl' = "queue"
  /\ UNCHANGED <<inVars, outVars, delVars, resourceCount, pauseInput, th>>

\* Mutation: the input queue is not stopped.
StopInputQueueNot ==
  /\ ctl = "queue"
  /\ ctl' = "signal"
  /\ UNCHANGED <<inVars, outVars, delVars, resourceCount, running, pauseInput, th>>
StopInputQueue ==
  /\ ctl = "queue"
  /\ inputClosed' = TRUE
  /\ inputQueue' = <<>>
  /\ ctl' = "signal"
  /\ UNCHANGED <<fresh, outVars, delVars, resourceCount, running, pauseInput, th>>

StopSignal ==
  /\ ctl = "signal"
  /\ th' = Signalled(th)
  /\ ctl' = "join"
  /\ UNCHANGED <<inVars, outVars, delVars, resourceCount, running, pauseInput>>

StopJoin ==
  /\ ctl = "join" /\ \A t \in Thread : At(t, "ended")
  /\ ctl' = "off"
  /\ UNCHANGED <<inVars, outVars, delVars, resourceCount, running, pauseInput, th>>

\* The engine also stops its output queue and the processors behind.
CloseOut ==
  /\ ctl # "run" /\ ~outClosed
  /\ outClosed' = TRUE
  /\ UNCHANGED <<inVars, len, passed, dropped, downstream, delVars,
                 resourceCount, ctlVars, th>>

-----------------------------------------------------------------------------

\* What thread t does by itself.
ThreadStep(t) ==
  \/ Top(t) \/ ReadEnd(t) \/ Take(t) \/ TakeNone(t)
  \/ PauseGate(t) \/ PauseBack(t) \/ PauseAgain(t)
  \/ (\E i \in Id : Input(t, i)) \/ InputNone(t)
  \/ QueueSkip(t) \/ QueueCopy(t) \/ QueuePut(t) \/ QueueDrop(t)
  \/ QueueRefused(t)
  \/ Multi(t) \/ Out(t) \/ After(t) \/ Flush(t) \/ FlushPop(t)

StopStep == StopInputQueue \/ StopSignal \/ StopJoin

Next ==
  \/ \E i \in Id : Arrive(i)
  \/ \E f \in Filter : Consume(f)
  \/ \E t \in Thread : ThreadStep(t) \/ SpuriousWakeup(t)
  \/ \E b \in BOOLEAN : SetPauseInput(b)
  \/ StopRunning \/ StopStep \/ CloseOut

Spec == Init /\ [][Next]_vars

(***************************************************************************)
(* Fairness: threads that can run are scheduled, the processors behind the *)
(* filters take what they get, the thread in Stop goes on.                 *)
(***************************************************************************)
FairSpec ==
  /\ Spec
  /\ \A t \in Thread : WF_vars(ThreadStep(t))
  /\ \A f \in Filter : WF_vars(Consume(f))
  /\ WF_vars(StopStep)

-----------------------------------------------------------------------------
(***************************************************************************)
(* Properties.                                                             *)
(***************************************************************************)

In(i, s) == \E k \in 1..Len(s) : s[k] = i
Carries(t, i) ==
  /\ th[t].at # "ended"
  /\ \/ i \in {th[t].r, th[t].pending}
     \/ In(i, th[t].min) \/ In(i, th[t].held) \/ In(i, th[t].mout)
HandedOn(i) == \E f \in Filter \ Copy : passed[f][i] > 0

\* While the processor runs no resource gets lost: what has come in is on the
\* input queue, with a thread that goes on, among the deleted resources, or
\* was handed on or released on purpose.
NoLoss ==
  running => \A i \in Id \ fresh :
    \/ In(i, inputQueue) \/ In(i, deletedResources)
    \/ \E t \in Thread : Carries(t, i)
    \/ HandedOn(i) \/ gone[i] > 0 \/ i \in dropped

\* A filter passes a resource, or its copy, on once, although QueueResource is
\* repeated for a resource that met a full queue.
PassedOnce == \A f \in Filter, i \in Id : passed[f][i] <= 1

\* A deleted resource is handed on or released once, although the threads
\* share deletedResources.
DeletedOnce == \A i \in Id : gone[i] <= 1

\* A resource has one owner in the processor, and none once it is handed on.
OneHolder ==
  \A i \in Id :
    /\ \A t, u \in Thread : Carries(t, i) /\ Carries(u, i) => t = u
    /\ HandedOn(i) \/ i \in dropped \/ i \in fresh \/ In(i, inputQueue)
         => \A t \in Thread : ~Carries(t, i)

\* resourceCount is the number of resources of the engine that are here or on
\* their way to other processors: it decides when a batch is finished.
Carried == {i \in Id : \E t \in Thread : Carries(t, i)}
CountExact ==
  running =>
    resourceCount = Len(inputQueue) + Len(deletedResources) + downstream
                    + Cardinality(Carried)
                    - Cardinality({t \in Thread : At(t, "flushPop")})

\* RunThread, ApplyModules and QueueResource: every resource is somewhere, in the
\* hands of one thread at most, and counted once.
ResourcesExact == TypeOK /\ NoLoss /\ OneHolder /\ CountExact

\* No more than MAX_RESOURCES wait for a MULTI module and are in it: readMax is
\* computed so that it is not overloaded, although a resource from the queue
\* counts twice.
NotOverloaded ==
  \A t \in Thread : Len(th[t].held) + Len(th[t].min) <= MAX_RESOURCES

\* No thread runs into a failing assertion or an undefined operation.
NeverAborts == \A t \in Thread : th[t].at # "aborted"

\* Stop returns: all threads end and are joined.
StopReturns == ctl # "run" ~> ctl = "off"

=============================================================================
