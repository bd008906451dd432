-------------------------- MODULE BatchTermination --------------------------
(***************************************************************************)
(* Batch mode: how the server finds out that all work is done.             *)
(*                                                                         *)
(* Threads report to their processor that they go to sleep or wake up      *)
(* (Processor::UpdateSleeping, ThreadFinished), processors report to their *)
(* engine, which also counts its resources (ProcessingEngine::             *)
(* ProcessorSleeping, ProcessorWakeup, UpdateResourceCount,                *)
(* CheckSleeping), engines report to the server (Server::                  *)
(* ProcessingEngineSleeping, ProcessingEngineWakeup), which ends Start.    *)
(* Every level decides under its own lock what to report and reports after *)
(* it has released it, so reports overtake each other.                     *)
(*                                                                         *)
(* Resources are counted, not told apart.  A source is a processor whose   *)
(* first module is an INPUT module; every thread of it has a module        *)
(* instance of its own with Feed resources.  A processor either passes a   *)
(* resource on to Succ, ends it in an OUTPUT module, or puts it on the     *)
(* output queue of its engine; one with a Callee first has a copy of it    *)
(* processed by another engine (CallProcessingEngine).                     *)
(***************************************************************************)
EXTENDS Integers, FiniteSets

CONSTANTS
  Thread,
  Proc,
  Engine,
  ProcOf,     \* ProcOf[t]: the processor of thread t
  EngineOf,   \* EngineOf[p]: the engine of processor p
  Source,     \* processors that start with an INPUT module
  Entry,      \* processors whose queue is the input queue of their engine
  Succ,       \* Succ[p]: the next processor, Sink or Answer
  Sink,       \* p ends with an OUTPUT module
  Answer,     \* p puts its results on the output queue of its engine
  Callee,     \* Callee[p]: the entry of the engine p calls, or Sink for none
  Feed        \* bound: how many resources an INPUT module produces

ASSUME BatchAssumption ==
  /\ IsFiniteSet(Thread) /\ IsFiniteSet(Proc) /\ IsFiniteSet(Engine)
  /\ ProcOf \in [Thread -> Proc]
  /\ EngineOf \in [Proc -> Engine]
  /\ Source \subseteq Proc /\ Entry \subseteq Proc \ Source
  /\ Sink \notin Proc /\ Answer \notin Proc /\ Sink # Answer
  /\ Succ \in [Proc -> Proc \cup {Sink, Answer}]
  /\ Callee \in [Proc -> Entry \cup {Sink}]
  /\ Feed \in Nat

VARIABLES
  at,                  \* where each thread is in RunThread
  call,                \* the report the thread is making
  feed,                \* what is left of the input of each source thread
  queue,               \* queue[p]: resources in the input queue of p
  answers,             \* answers[e]: resources on the output queue of e
  runningThreads,
  sleepingThreads,
  sleeping,            \* sleeping[p] of the processor
  processorsSleeping,
  engineSleeping,      \* sleeping of the engine
  resourceCount,
  sleepingProcessingEngines,
  wokenUp,
  serverLock,          \* a thread keeps the object lock of the server
  usingWokenUp,        \* a thread keeps usingWokenUp
  main                 \* the thread in Server::Start

procVars == <<runningThreads, sleepingThreads, sleeping>>
engineVars == <<processorsSleeping, engineSleeping, resourceCount>>
serverVars == <<sleepingProcessingEngines, wokenUp, serverLock, usingWokenUp>>
workVars == <<feed, queue, answers>>
vars == <<at, call, feed, queue, answers, runningThreads, sleepingThreads,
          sleeping, processorsSleeping, engineSleeping, resourceCount,
          sleepingProcessingEngines, wokenUp, serverLock, usingWokenUp, main>>

AT == {"off", "new", "loop", "get", "got", "count", "have", "calling", "put",
       "end", "done"}
Report == {"none", "plus", "minus", "sleep", "wakeup", "check", "srvSleep",
           "srvWakeup", "using", "yield", "signal"}

TypeOK ==
  /\ at \in [Thread -> AT]
  /\ call \in [Thread -> Report]
  /\ feed \in [Thread -> 0..Feed]
  /\ queue \in [Proc -> Nat]
  /\ answers \in [Engine -> Nat]
  /\ runningThreads \in [Proc -> Nat]
  /\ sleepingThreads \in [Proc -> Nat]
  /\ sleeping \in [Proc -> BOOLEAN]
  /\ processorsSleeping \in [Engine -> Int]
  /\ engineSleeping \in [Engine -> BOOLEAN]
  /\ resourceCount \in [Engine -> Int]
  /\ sleepingProcessingEngines \in Int
  /\ wokenUp \in BOOLEAN
  /\ serverLock \in BOOLEAN
  /\ usingWokenUp \in BOOLEAN
  /\ main \in {"start", "wait", "stop"}

Init ==
  /\ at = [t \in Thread |-> "off"]
  /\ call = [t \in Thread |-> "none"]
  /\ feed = [t \in Thread |-> IF ProcOf[t] \in Source THEN Feed ELSE 0]
  /\ queue = [p \in Proc |-> 0]
  /\ answers = [e \in Engine |-> 0]
  /\ runningThreads = [p \in Proc |-> 0]
  /\ sleepingThreads = [p \in Proc |-> 0]
  /\ sleeping = [p \in Proc |-> FALSE]
  /\ processorsSleeping = [e \in Engine |-> 0]
  /\ engineSleeping = [e \in Engine |-> FALSE]
  /\ resourceCount = [e \in Engine |-> 0]
  /\ sleepingProcessingEngines = 0
  /\ wokenUp \in BOOLEAN          \* not initialised by the constructor
  /\ serverLock = FALSE
  /\ usingWokenUp = FALSE
  /\ main = "start"

EngineOfThread(t) == EngineOf[ProcOf[t]]
ProcessorsOf(e) == {p \in Proc : EngineOf[p] = e}

\* The thread goes on in RunThread, or starts the report c and goes on when
\* the report is made.
Free(t) == call[t] = "none"
Go(t, a, c) == at' = [at EXCEPT ![t] = a] /\ call' = [call EXCEPT ![t] = c]
Then(t, c) == call' = [call EXCEPT ![t] = c] /\ UNCHANGED at

-----------------------------------------------------------------------------
(***************************************************************************)
(* Server::Start.  An engine keeps its object lock until all its threads   *)
(* are created, a thread that runs earlier waits for it with its report.   *)
(***************************************************************************)

StartEngine(e) ==
  /\ main = "start"
  /\ \A t \in Thread : EngineOfThread(t) = e => at[t] = "off"
  /\ at' = [t \in Thread |-> IF EngineOfThread(t) = e THEN "new" ELSE at[t]]
  /\ UNCHANGED <<call, workVars, procVars, engineVars, serverVars, main>>

\* batchSleep.WaitRecv(NULL), whatever happened before.
StartWait ==
  /\ main = "start" /\ \A t \in Thread : at[t] # "off"
  /\ main' = "wait"
  /\ UNCHANGED <<at, call, workVars, procVars, engineVars, serverVars>>

-----------------------------------------------------------------------------
(***************************************************************************)
(* Processor.                                                              *)
(***************************************************************************)

RunThread(t) ==
  /\ at[t] = "new"
  /\ runningThreads' = [runningThreads EXCEPT ![ProcOf[t]] = @ + 1]
  /\ Go(t, "loop", "none")
  /\ UNCHANGED <<workVars, sleepingThreads, sleeping, engineVars, serverVars,
                 main>>

\* The INPUT module: a resource, or NULL and the thread ends.
Input(t) ==
  /\ at[t] = "loop" /\ Free(t) /\ ProcOf[t] \in Source
  /\ IF feed[t] > 0
       THEN feed' = [feed EXCEPT ![t] = @ - 1] /\ Go(t, "have", "plus")
       ELSE UNCHANGED feed /\ Go(t, "end", "none")
  /\ UNCHANGED <<queue, answers, procVars, engineVars, serverVars, main>>

\* Mutation: the last thread of a source does not report.
ThreadFinishedQuiet(t) ==
  /\ at[t] = "end"
  /\ runningThreads' = [runningThreads EXCEPT ![ProcOf[t]] = @ - 1]
  /\ Go(t, "done", "none")
  /\ UNCHANGED <<workVars, sleepingThreads, sleeping, engineVars, serverVars,
                 main>>
ThreadFinished(t) ==
  LET p == ProcOf[t] IN
  /\ at[t] = "end"
  /\ runningThreads' = [runningThreads EXCEPT ![p] = @ - 1]
  /\ Go(t, "done", IF runningThreads[p] = 1 THEN "sleep" ELSE "none")
  /\ UNCHANGED <<workVars, sleepingThreads, sleeping, engineVars, serverVars,
                 main>>

UpdateSleeping(t, n, a) ==
  LET p == ProcOf[t]
      s == sleepingThreads[p] + n
      wakes == sleeping[p] /\ s < runningThreads[p]
      sleeps == ~sleeping[p] /\ s = runningThreads[p]
  IN
  /\ sleepingThreads' = [sleepingThreads EXCEPT ![p] = s]
  /\ sleeping' = [sleeping EXCEPT ![p] = (@ /\ ~wakes) \/ sleeps]
  /\ Go(t, a, IF wakes THEN "wakeup" ELSE IF sleeps THEN "sleep" ELSE "none")
  /\ UNCHANGED <<runningThreads, engineVars, serverVars, main>>

\* Mutation: the thread goes to sleep without a report.
SleepQuiet(t) ==
  /\ at[t] = "loop" /\ Free(t) /\ ProcOf[t] \notin Source
  /\ Go(t, "get", "none")
  /\ UNCHANGED <<workVars, procVars, engineVars, serverVars, main>>
Sleep(t) ==
  /\ at[t] = "loop" /\ Free(t) /\ ProcOf[t] \notin Source
  /\ UpdateSleeping(t, 1, "get")
  /\ UNCHANGED workVars

\* inputQueue->GetItem: the thread is still counted as sleeping.
GetItem(t) ==
  /\ at[t] = "get" /\ Free(t) /\ queue[ProcOf[t]] > 0
  /\ queue' = [queue EXCEPT ![ProcOf[t]] = @ - 1]
  /\ Go(t, "got", "none")
  /\ UNCHANGED <<feed, answers, procVars, engineVars, serverVars, main>>

Wake(t) ==
  /\ at[t] = "got"
  /\ UpdateSleeping(t, -1, IF ProcOf[t] \in Entry THEN "count" ELSE "have")
  /\ UNCHANGED workVars

\* Mutation: it is not counted at all.
CountNot(t) ==
  /\ at[t] = "count" /\ Free(t)
  /\ Go(t, "have", "none")
  /\ UNCHANGED <<workVars, procVars, engineVars, serverVars, main>>
\* A resource from the input queue of the engine is counted only now.
Count(t) ==
  /\ at[t] = "count" /\ Free(t)
  /\ Go(t, "have", "plus")
  /\ UNCHANGED <<workVars, procVars, engineVars, serverVars, main>>

\* Apply the modules; a copy goes to the callee first.
Work(t) ==
  LET c == Callee[ProcOf[t]] IN
  /\ at[t] = "have" /\ Free(t)
  /\ IF c = Sink THEN UNCHANGED queue /\ Go(t, "put", "none")
                 ELSE /\ queue' = [queue EXCEPT ![c] = @ + 1]
                      /\ Go(t, "calling", "none")
  /\ UNCHANGED <<feed, answers, procVars, engineVars, serverVars, main>>

Answered(t) ==
  LET e == EngineOf[Callee[ProcOf[t]]] IN
  /\ at[t] = "calling" /\ answers[e] > 0
  /\ answers' = [answers EXCEPT ![e] = @ - 1]
  /\ Go(t, "put", "none")
  /\ UNCHANGED <<feed, queue, procVars, engineVars, serverVars, main>>

\* QueueResource, or the release after an OUTPUT module.
Put(t) ==
  LET s == Succ[ProcOf[t]]
      e == EngineOfThread(t)
  IN
  /\ at[t] = "put"
  /\ \/ /\ s \in Proc
        /\ queue' = [queue EXCEPT ![s] = @ + 1]
        /\ UNCHANGED answers
        /\ Go(t, "loop", "none")
     \/ /\ s = Answer
        /\ answers' = [answers EXCEPT ![e] = @ + 1]
        /\ UNCHANGED queue
        /\ Go(t, "loop", "minus")
     \/ /\ s = Sink
        /\ UNCHANGED <<queue, answers>>
        /\ Go(t, "loop", "minus")
  /\ UNCHANGED <<feed, procVars, engineVars, serverVars, main>>

-----------------------------------------------------------------------------
(***************************************************************************)
(* ProcessingEngine.                                                       *)
(***************************************************************************)

UpdateResourceCount(t) ==
  LET e == EngineOfThread(t) IN
  /\ call[t] \in {"plus", "minus"}
  /\ resourceCount' = [resourceCount EXCEPT
                         ![e] = IF call[t] = "plus" THEN @ + 1 ELSE @ - 1]
  /\ Then(t, "check")
  /\ UNCHANGED <<workVars, procVars, processorsSleeping, engineSleeping,
                 serverVars, main>>

ProcessorSleeping(t) ==
  LET e == EngineOfThread(t) IN
  /\ call[t] = "sleep"
  /\ processorsSleeping' = [processorsSleeping EXCEPT ![e] = @ + 1]
  /\ Then(t, "check")
  /\ UNCHANGED <<workVars, procVars, engineSleeping, resourceCount, serverVars,
                 main>>

ProcessorWakeup(t) ==
  LET e == EngineOfThread(t) IN
  /\ call[t] = "wakeup"
  /\ processorsSleeping' = [processorsSleeping EXCEPT ![e] = @ - 1]
  /\ Then(t, "check")
  /\ UNCHANGED <<workVars, procVars, engineSleeping, resourceCount, serverVars,
                 main>>

AllSleep(e) == processorsSleeping[e] = Cardinality(ProcessorsOf(e))

\* Mutation: resourceCount is not looked at.
CheckSleepingNoCount(t) ==
  LET e == EngineOfThread(t)
      sleeps == ~engineSleeping[e] /\ AllSleep(e)
      wakes == engineSleeping[e] /\ (~AllSleep(e) \/ resourceCount[e] > 0)
  IN
  /\ call[t] = "check"
  /\ engineSleeping' = [engineSleeping EXCEPT ![e] = (@ /\ ~wakes) \/ sleeps]
  /\ Then(t, IF sleeps THEN "srvSleep" ELSE IF wakes THEN "srvWakeup" ELSE "none")
  /\ UNCHANGED <<workVars, procVars, processorsSleeping, resourceCount,
                 serverVars, main>>
CheckSleeping(t) ==
  LET e == EngineOfThread(t)
      sleeps == ~engineSleeping[e] /\ AllSleep(e) /\ resourceCount[e] = 0
      wakes == engineSleeping[e] /\ (~AllSleep(e) \/ resourceCount[e] > 0)
  IN
  /\ call[t] = "check"
  /\ engineSleeping' = [engineSleeping EXCEPT ![e] = (@ /\ ~wakes) \/ sleeps]
  /\ Then(t, IF sleeps THEN "srvSleep" ELSE IF wakes THEN "srvWakeup" ELSE "none")
  /\ UNCHANGED <<workVars, procVars, processorsSleeping, resourceCount,
                 serverVars, main>>

-----------------------------------------------------------------------------
(***************************************************************************)
(* Server.                                                                 *)
(***************************************************************************)

\* Mutation: the number of engines is compared before it is incremented.
ProcessingEngineSleepingLate(t) ==
  /\ call[t] = "srvSleep" /\ ~serverLock
  /\ sleepingProcessingEngines' = sleepingProcessingEngines + 1
  /\ IF sleepingProcessingEngines = Cardinality(Engine)
       THEN serverLock' = TRUE /\ Then(t, "using")
       ELSE UNCHANGED serverLock /\ Then(t, "none")
  /\ UNCHANGED <<workVars, procVars, engineVars, wokenUp, usingWokenUp, main>>
ProcessingEngineSleeping(t) ==
  /\ call[t] = "srvSleep" /\ ~serverLock
  /\ sleepingProcessingEngines' = sleepingProcessingEngines + 1
  /\ IF sleepingProcessingEngines' = Cardinality(Engine)
       THEN serverLock' = TRUE /\ Then(t, "using")
       ELSE UNCHANGED serverLock /\ Then(t, "none")
  /\ UNCHANGED <<workVars, procVars, engineVars, wokenUp, usingWokenUp, main>>

\* usingWokenUp.Lock() while the object lock is held.
UseWokenUp(t) ==
  /\ call[t] = "using" /\ ~usingWokenUp
  /\ usingWokenUp' = TRUE
  /\ wokenUp' = FALSE
  /\ serverLock' = FALSE
  /\ Then(t, "yield")
  /\ UNCHANGED <<workVars, procVars, engineVars, sleepingProcessingEngines, main>>

\* After ten times pthread_yield.
CheckWokenUp(t) ==
  /\ call[t] = "yield" /\ ~serverLock
  /\ usingWokenUp' = FALSE
  /\ Then(t, IF wokenUp THEN "none" ELSE "signal")
  /\ UNCHANGED <<workVars, procVars, engineVars, sleepingProcessingEngines,
                 wokenUp, serverLock, main>>

ProcessingEngineWakeup(t) ==
  /\ call[t] = "srvWakeup" /\ ~serverLock
  /\ sleepingProcessingEngines' = sleepingProcessingEngines - 1
  /\ wokenUp' = TRUE
  /\ Then(t, "none")
  /\ UNCHANGED <<workVars, procVars, engineVars, serverLock, usingWokenUp, main>>

\* batchSleep.SignalRecv().
Signal(t) ==
  /\ call[t] = "signal"
  /\ main' = IF main = "wait" THEN "stop" ELSE main
  /\ Then(t, "none")
  /\ UNCHANGED <<workVars, procVars, engineVars, serverVars>>

-----------------------------------------------------------------------------

\* What thread t does when it can run.
ThreadStep(t) ==
  \/ RunThread(t) \/ Input(t) \/ ThreadFinished(t) \/ Sleep(t) \/ GetItem(t)
  \/ Wake(t) \/ Count(t) \/ Work(t) \/ Answered(t) \/ Put(t)
  \/ UpdateResourceCount(t) \/ ProcessorSleeping(t) \/ ProcessorWakeup(t)
  \/ CheckSleeping(t) \/ ProcessingEngineSleeping(t) \/ UseWokenUp(t)
  \/ CheckWokenUp(t) \/ ProcessingEngineWakeup(t) \/ Signal(t)

StartStep == (\E e \in Engine : StartEngine(e)) \/ StartWait

Next == StartStep \/ \E t \in Thread : ThreadStep(t)

Spec == Init /\ [][Next]_vars

(***************************************************************************)
(* Fairness: the main thread and every thread that can run are scheduled.  *)
(***************************************************************************)
FairSpec ==
  Spec /\ WF_vars(StartStep) /\ \A t \in Thread : SF_vars(ThreadStep(t))

-----------------------------------------------------------------------------
(***************************************************************************)
(* Properties.                                                             *)
(***************************************************************************)

\* No resource is left anywhere.
AllDone ==
  /\ \A t \in Thread : feed[t] = 0
  /\ \A t \in Thread : at[t] \notin {"got", "count", "have", "calling", "put"}
  /\ \A p \in Proc : queue[p] = 0
  /\ \A e \in Engine : answers[e] = 0

\* Once a thread has decided that the batch is finished nothing is left to be
\* processed: Server::Start stops the engines then and what is left is lost.
FinishedMeansDone == (\E t \in Thread : call[t] = "signal") => AllDone

\* The main thread leaves Server::Start: it waits for the batch to finish.
BatchEnds == <>(main = "stop")

\* Some thread finds out that the batch is finished, whether or not the main
\* thread sleeps by then: no report is missed and no two threads wait for each
\* other's locks.
FinishIsFound == <>(\E t \in Thread : call[t] = "signal")

=============================================================================
