------------------------- MODULE MCBatchTermination -------------------------
(***************************************************************************)
(* Configurations of processors for batch mode, and the two invariants     *)
(* that add up what the threads hold and have still to report.             *)
(***************************************************************************)
EXTENDS BatchTermination, FiniteSetsExt, TLC

CONSTANTS t1, t2, t3, t4, src, snk, svc, e1, e2

\* src -> snk in e1; the two threads of snk call svc of e2.
CallProcOf == (t1 :> src) @@ (t2 :> snk) @@ (t3 :> svc) @@ (t4 :> snk)
CallEngineOf == (src :> e1) @@ (snk :> e1) @@ (svc :> e2)
CallSucc == (src :> snk) @@ (snk :> Sink) @@ (svc :> Answer)
CallCallee == (src :> Sink) @@ (snk :> svc) @@ (svc :> Sink)

ThreadsOf(e) == {t \in Thread : EngineOfThread(t) = e}
Reporting(e, c) == Cardinality({t \in ThreadsOf(e) : call[t] = c})

\* Resources the engine is in charge of: on the queues between its processors
\* and with its threads, from the moment a thread has counted them.
Holds(t) ==
  \/ at[t] \in {"have", "calling", "put"}
  \/ at[t] = "got" /\ ProcOf[t] \notin Entry
InCharge(e) ==
  MapThenSumSet(LAMBDA p : queue[p], ProcessorsOf(e) \ Entry)
    + Cardinality({t \in ThreadsOf(e) : Holds(t)})

\* resourceCount is the number of resources of the engine, but for the updates
\* that threads are about to make (UpdateResourceCount in ApplyModules,
\* QueueResource and RunThread).
CountExact ==
  \A e \in Engine :
    resourceCount[e] = InCharge(e) - Reporting(e, "plus") + Reporting(e, "minus")

Asleep(p) ==
  IF p \in Source THEN \A t \in Thread : ProcOf[t] = p => at[t] = "done"
                  ELSE sleeping[p]

\* processorsSleeping is the number of processors that sleep or have ended,
\* but for the reports under way: none is lost, none is made twice.
SleepersExact ==
  \A e \in Engine :
    processorsSleeping[e] = Cardinality({p \in ProcessorsOf(e) : Asleep(p)})
                              - Reporting(e, "sleep") + Reporting(e, "wakeup")

\* The counters that decide about the end of the batch (resourceCount,
\* sleepingThreads, processorsSleeping) are exact but for reports under way.
CountersExact == TypeOK /\ CountExact /\ SleepersExact

=============================================================================
