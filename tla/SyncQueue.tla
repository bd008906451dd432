------------------------------ MODULE SyncQueue ------------------------------
(***************************************************************************)
(* lib/SyncQueue.h: the blocking priority queue that connects processors,  *)
(* processing engines and the threads of the HTTP server, with the lock    *)
(* and the two condition variables of lib/CondLock.h.                      *)
(*                                                                         *)
(* All shared state is guarded by queueLock, so one critical section of    *)
(* the code (from Lock, or from the return of a wait, up to Unlock or up   *)
(* to the next wait) is one action.  A thread asleep on a condition        *)
(* variable is at "wait"; a broadcast moves it to "woken" and it goes on   *)
(* once it holds the mutex again.  The counters waitingReaders and         *)
(* waitingWriters are decremented only then, which is what Stop relies on. *)
(***************************************************************************)
EXTENDS Integers, Sequences, FiniteSets

CONSTANTS
  Writers,      \* threads that call PutItem
  Readers,      \* threads that call GetItem
  Item,         \* items (resources, file descriptors)
  NoItem,       \* NULL
  Size,         \* Size[i] is GetSize() of item i
  Prio,         \* priorities of the sub-queues made with addQueue
  MaxItems,     \* MaxItems[p] of sub-queue p, 0 for no limit
  MaxSize,      \* MaxSize[p] of sub-queue p, 0 for no limit
  MaxStops      \* bound: how many times Stop is called

Thread == Writers \cup Readers

ASSUME SyncQueueAssumption ==
  /\ Writers \cap Readers = {}
  /\ IsFiniteSet(Writers)
  /\ IsFiniteSet(Readers)
  /\ NoItem \notin Item
  /\ Size \in [Item -> Nat]
  /\ Prio \subseteq Int
  /\ MaxItems \in [Prio -> Nat]
  /\ MaxSize \in [Prio -> Nat]
  /\ MaxStops \in Nat

(***************************************************************************)
(* The timeout argument: NULL (do not sleep), {0, 0} (sleep forever), or   *)
(* a deadline.                                                             *)
(***************************************************************************)
Timeout == {"null", "forever", "deadline"}

VARIABLES
  queue,           \* queue[p]: the deque of sub-queue p
  queueSize,       \* queueSize[p]: the running total of item sizes
  waitingReaders,
  waitingWriters,
  cancel,
  paused,          \* pauseLock is held by a caller of Pause
  pc,              \* where each thread is in PutItem / GetItem
  timeout,         \* the timeout of the call in progress
  prio,            \* prio[w]: the priority argument of writer w's call
  held,            \* the item a thread owns: argument of a put, result of a get
  ctl,             \* where the controlling thread is in Stop
  stops            \* how many times Stop was called

callVars == <<pc, timeout, prio, held>>
vars == <<queue, queueSize, waitingReaders, waitingWriters, cancel, paused,
          pc, timeout, prio, held, ctl, stops>>

PC == {"idle", "pause", "lock", "wait", "woken", "timedout"}

TypeOK ==
  /\ queue \in [Prio -> Seq(Item)]
  /\ queueSize \in [Prio -> Int]
  /\ waitingReaders \in Nat
  /\ waitingWriters \in Nat
  /\ cancel \in BOOLEAN
  /\ paused \in BOOLEAN
  /\ pc \in [Thread -> PC]
  /\ timeout \in [Thread -> Timeout]
  /\ prio \in [Writers -> Prio]
  /\ held \in [Thread -> Item \cup {NoItem}]
  /\ ctl \in {"idle", "readers", "writers"}
  /\ stops \in Nat

\* A thread is counted as waiting until it has the mutex back.
Waiting(t) == pc[t] \in {"wait", "woken", "timedout"}

InQueue(i) == \E p \in Prio : \E k \in 1..Len(queue[p]) : queue[p][k] = i

Free(i) == ~InQueue(i) /\ \A t \in Thread : held[t] # i

Init ==
  /\ queue = [p \in Prio |-> <<>>]
  /\ queueSize = [p \in Prio |-> 0]
  /\ waitingReaders = 0
  /\ waitingWriters = 0
  /\ cancel = FALSE
  /\ paused = FALSE
  /\ pc = [t \in Thread |-> "idle"]
  /\ timeout = [t \in Thread |-> "null"]
  /\ prio \in [Writers -> Prio]
  /\ held = [t \in Thread |-> NoItem]
  /\ ctl = "idle"
  /\ stops = 0

-----------------------------------------------------------------------------
(***************************************************************************)
(* SimpleQueue and CondLock.                                               *)
(***************************************************************************)

\* Mutation: the comparison with maxItems is off by one.
IsSpaceForOneMore(p, itemSize) ==
  /\ MaxItems[p] = 0 \/ Len(queue[p]) <= MaxItems[p]
  /\ MaxSize[p] = 0 \/ queueSize[p] + itemSize <= MaxSize[p]
\* Mutation: the size of the new item is not counted.
IsSpaceForNoSize(p, itemSize) ==
  /\ MaxItems[p] = 0 \/ Len(queue[p]) < MaxItems[p]
  /\ MaxSize[p] = 0 \/ queueSize[p] <= MaxSize[p]

IsSpaceFor(p, itemSize) ==
  /\ MaxItems[p] = 0 \/ Len(queue[p]) < MaxItems[p]
  /\ MaxSize[p] = 0 \/ queueSize[p] + itemSize <= MaxSize[p]

\* The sub-queues are kept in descending order of priority, so the first
\* one that is not empty is the one of the highest priority.
NonEmpty == {p \in Prio : queue[p] # <<>>}
FirstNonEmpty(p) == p \in NonEmpty /\ \A q \in NonEmpty : q <= p

\* SignalRecv and SignalSend are broadcasts; f is the state of the threads
\* once the caller itself has moved.
\* Mutation of either one: nobody is woken.
SignalNobody(f) == f
SignalRecv(f) ==
  [t \in Thread |-> IF t \in Readers /\ f[t] = "wait" THEN "woken" ELSE f[t]]
SignalSend(f) ==
  [t \in Thread |-> IF t \in Writers /\ f[t] = "wait" THEN "woken" ELSE f[t]]

-----------------------------------------------------------------------------
(***************************************************************************)
(* PutItem.  The pause lock is taken and released first; n is the change   *)
(* of waitingWriters that the critical section starts with (-1 when the    *)
(* thread comes back from WaitSend).                                       *)
(***************************************************************************)

CallPut(w, i, p, t) ==
  /\ pc[w] = "idle"
  /\ held[w] = i \/ (held[w] = NoItem /\ Free(i))
  /\ held' = [held EXCEPT ![w] = i]
  /\ prio' = [prio EXCEPT ![w] = p]
  /\ timeout' = [timeout EXCEPT ![w] = t]
  /\ pc' = [pc EXCEPT ![w] = "pause"]
  /\ UNCHANGED <<queue, queueSize, waitingReaders, waitingWriters, cancel,
                 paused, ctl, stops>>

\* The argument of a call is gone when the call returns.
Return(t) == timeout' = [timeout EXCEPT ![t] = "null"]

\* pauseLock.Lock(); pauseLock.Unlock() of both operations.
PassPause(t) ==
  /\ pc[t] = "pause"
  /\ ~paused
  /\ pc' = [pc EXCEPT ![t] = "lock"]
  /\ UNCHANGED <<queue, queueSize, waitingReaders, waitingWriters, cancel,
                 paused, timeout, prio, held, ctl, stops>>

\* Return false: the caller keeps the item.
PutFalse(w, n) ==
  /\ waitingWriters' = waitingWriters + n
  /\ Return(w)
  /\ pc' = [pc EXCEPT ![w] = "idle"]
  /\ UNCHANGED <<queue, queueSize, held>>

PutWait(w, n) ==
  /\ ~IsSpaceFor(prio[w], Size[held[w]])
  /\ timeout[w] # "null"
  /\ waitingWriters' = waitingWriters + n + 1
  /\ pc' = [pc EXCEPT ![w] = "wait"]
  /\ UNCHANGED <<queue, queueSize, held, timeout>>

PutTrue(w, n) ==
  /\ IsSpaceFor(prio[w], Size[held[w]])
  /\ queue' = [queue EXCEPT ![prio[w]] = Append(@, held[w])]
  /\ queueSize' = [queueSize EXCEPT ![prio[w]] = @ + Size[held[w]]]
  /\ held' = [held EXCEPT ![w] = NoItem]
  /\ waitingWriters' = waitingWriters + n
  /\ Return(w)
  /\ pc' = SignalRecv([pc EXCEPT ![w] = "idle"])

PutRefused(w) ==
  ~IsSpaceFor(prio[w], Size[held[w]]) /\ timeout[w] = "null"

\* The critical section that PutItem enters with.
PutEnter(w) ==
  /\ pc[w] = "lock"
  /\ \/ (cancel \/ PutRefused(w)) /\ PutFalse(w, 0)
     \/ ~cancel /\ PutWait(w, 0)
     \/ ~cancel /\ PutTrue(w, 0)
  /\ UNCHANGED <<waitingReaders, cancel, paused, prio, ctl, stops>>

\* Mutation: cancel is not looked at again after WaitSend.
PutWakeNoCancel(w) ==
  /\ pc[w] \in {"woken", "timedout"}
  /\ \/ pc[w] = "timedout" /\ PutFalse(w, -1)
     \/ pc[w] = "woken" /\ (PutWait(w, -1) \/ PutTrue(w, -1))
  /\ UNCHANGED <<waitingReaders, cancel, paused, prio, ctl, stops>>
\* The one that follows the return of WaitSend.
PutWake(w) ==
  /\ pc[w] \in {"woken", "timedout"}
  /\ \/ (cancel \/ pc[w] = "timedout") /\ PutFalse(w, -1)
     \/ ~cancel /\ pc[w] = "woken" /\ (PutWait(w, -1) \/ PutTrue(w, -1))
  /\ UNCHANGED <<waitingReaders, cancel, paused, prio, ctl, stops>>

-----------------------------------------------------------------------------
(***************************************************************************)
(* GetItem.                                                                *)
(***************************************************************************)

CallGet(r, t) ==
  /\ pc[r] = "idle"
  /\ held[r] = NoItem
  /\ timeout' = [timeout EXCEPT ![r] = t]
  /\ pc' = [pc EXCEPT ![r] = "pause"]
  /\ UNCHANGED <<queue, queueSize, waitingReaders, waitingWriters, cancel,
                 paused, prio, held, ctl, stops>>

\* Mutation: a reader that is cancelled returns before waitingReaders--.
GetNullNoDecrement(r, n) ==
  /\ waitingReaders' = waitingReaders
  /\ Return(r)
  /\ pc' = [pc EXCEPT ![r] = "idle"]
  /\ UNCHANGED <<queue, queueSize, held>>
\* Return NULL.
GetNull(r, n) ==
  /\ waitingReaders' = waitingReaders + n
  /\ Return(r)
  /\ pc' = [pc EXCEPT ![r] = "idle"]
  /\ UNCHANGED <<queue, queueSize, held>>

GetWait(r, n) ==
  /\ NonEmpty = {}
  /\ timeout[r] # "null"
  /\ waitingReaders' = waitingReaders + n + 1
  /\ pc' = [pc EXCEPT ![r] = "wait"]
  /\ UNCHANGED <<queue, queueSize, held, timeout>>

\* Mutation: the item is read but not popped.
GetFirstNoPop(r, n) ==
  \E p \in NonEmpty :
    /\ FirstNonEmpty(p)
    /\ held' = [held EXCEPT ![r] = Head(queue[p])]
    /\ waitingReaders' = waitingReaders + n
    /\ Return(r)
    /\ pc' = SignalSend([pc EXCEPT ![r] = "idle"])
    /\ UNCHANGED <<queue, queueSize>>
GetFirst(r, n) ==
  \E p \in NonEmpty :
    /\ FirstNonEmpty(p)
    /\ held' = [held EXCEPT ![r] = Head(queue[p])]
    /\ queueSize' = [queueSize EXCEPT ![p] = @ - Size[Head(queue[p])]]
    /\ queue' = [queue EXCEPT ![p] = Tail(@)]
    /\ waitingReaders' = waitingReaders + n
    /\ Return(r)
    /\ pc' = SignalSend([pc EXCEPT ![r] = "idle"])

GetRefused(r) == NonEmpty = {} /\ timeout[r] = "null"

\* Mutation: a reader that arrives late does not see that the queue stopped.
GetEnterNoCancel(r) ==
  /\ pc[r] = "lock"
  /\ \/ GetRefused(r) /\ GetNull(r, 0)
     \/ GetWait(r, 0)
     \/ GetFirst(r, 0)
  /\ UNCHANGED <<waitingWriters, cancel, paused, prio, ctl, stops>>
\* The critical section that GetItem enters with.
GetEnter(r) ==
  /\ pc[r] = "lock"
  /\ \/ (cancel \/ GetRefused(r)) /\ GetNull(r, 0)
     \/ ~cancel /\ GetWait(r, 0)
     \/ ~cancel /\ GetFirst(r, 0)
  /\ UNCHANGED <<waitingWriters, cancel, paused, prio, ctl, stops>>

\* The one that follows the return of WaitRecv.
GetWake(r) ==
  /\ pc[r] \in {"woken", "timedout"}
  /\ \/ (cancel \/ pc[r] = "timedout") /\ GetNull(r, -1)
     \/ ~cancel /\ pc[r] = "woken" /\ (GetWait(r, -1) \/ GetFirst(r, -1))
  /\ UNCHANGED <<waitingWriters, cancel, paused, prio, ctl, stops>>

-----------------------------------------------------------------------------
(***************************************************************************)
(* What the threads do between calls, and the returns of a wait that no    *)
(* signal causes.                                                          *)
(***************************************************************************)

\* The owner of an item is done with it (a reader consumed it, a writer
\* gives up on it).
Release(t) ==
  /\ pc[t] = "idle"
  /\ held[t] # NoItem
  /\ held' = [held EXCEPT ![t] = NoItem]
  /\ UNCHANGED <<queue, queueSize, waitingReaders, waitingWriters, cancel,
                 paused, pc, timeout, prio, ctl, stops>>

WaitReturns(t, how) ==
  /\ pc[t] = "wait"
  /\ pc' = [pc EXCEPT ![t] = how]
  /\ UNCHANGED <<queue, queueSize, waitingReaders, waitingWriters, cancel,
                 paused, timeout, prio, held, ctl, stops>>

\* pthread_cond_timedwait reaches its deadline.
WaitTimesOut(t) == timeout[t] = "deadline" /\ WaitReturns(t, "timedout")

\* A condition variable may wake a thread that nobody signalled.
SpuriousWakeup(t) == WaitReturns(t, "woken")

-----------------------------------------------------------------------------
(***************************************************************************)
(* Stop, Start, Pause and Resume, called by one controlling thread:        *)
(* ProcessingEngine calls them under its own lock, resumes before it stops *)
(* and pauses only while it runs.                                          *)
(***************************************************************************)

\* Mutation: Stop does not wait for the writers.
StopRoundReadersOnly(from) ==
  IF from = "readers" /\ waitingReaders > 0
  THEN /\ pc' = SignalRecv(pc)
       /\ ctl' = "readers"
       /\ UNCHANGED <<queue, queueSize>>
  ELSE /\ queue' = [p \in Prio |-> <<>>]
       /\ ctl' = "idle"
       /\ UNCHANGED <<queueSize, pc>>
\* The part of Stop that runs with queueLock held, from the test of the loop
\* that is reached first: wake the readers and yield, or wake the writers
\* and yield, or delete all items and return.
StopRound(from) ==
  IF from = "readers" /\ waitingReaders > 0
  THEN /\ pc' = SignalRecv(pc)
       /\ ctl' = "readers"
       /\ UNCHANGED <<queue, queueSize>>
  ELSE IF waitingWriters > 0
  THEN /\ pc' = SignalSend(pc)
       /\ ctl' = "writers"
       /\ UNCHANGED <<queue, queueSize>>
  ELSE /\ queue' = [p \in Prio |-> <<>>]   \* deleteAllItems: queueSize stays
       /\ ctl' = "idle"
       /\ UNCHANGED <<queueSize, pc>>

StopCall ==
  /\ ctl = "idle"
  /\ ~paused
  /\ stops < MaxStops
  /\ stops' = stops + 1
  /\ cancel' = TRUE
  /\ StopRound("readers")
  /\ UNCHANGED <<waitingReaders, waitingWriters, paused, timeout, prio, held>>

StopContinue ==
  /\ ctl # "idle"
  /\ StopRound(ctl)
  /\ UNCHANGED <<waitingReaders, waitingWriters, cancel, paused, timeout, prio,
                 held, stops>>

Start ==
  /\ ctl = "idle"
  /\ cancel
  /\ cancel' = FALSE
  /\ UNCHANGED <<queue, queueSize, waitingReaders, waitingWriters, paused, pc,
                 timeout, prio, held, ctl, stops>>

Pause ==
  /\ ctl = "idle" /\ ~cancel
  /\ ~paused
  /\ paused' = TRUE
  /\ UNCHANGED <<queue, queueSize, waitingReaders, waitingWriters, cancel, pc,
                 timeout, prio, held, ctl, stops>>

Resume ==
  /\ paused
  /\ paused' = FALSE
  /\ UNCHANGED <<queue, queueSize, waitingReaders, waitingWriters, cancel, pc,
                 timeout, prio, held, ctl, stops>>

-----------------------------------------------------------------------------

WriterStep(w) ==
  \/ \E i \in Item, p \in Prio, t \in Timeout : CallPut(w, i, p, t)
  \/ PutEnter(w)
  \/ PutWake(w)

ReaderStep(r) ==
  \/ \E t \in Timeout : CallGet(r, t)
  \/ GetEnter(r)
  \/ GetWake(r)

ThreadStep(t) ==
  \/ PassPause(t)
  \/ Release(t)
  \/ WaitTimesOut(t)
  \/ SpuriousWakeup(t)

Next ==
  \/ \E w \in Writers : WriterStep(w)
  \/ \E r \in Readers : ReaderStep(r)
  \/ \E t \in Thread : ThreadStep(t)
  \/ StopCall \/ StopContinue \/ Start \/ Pause \/ Resume

Spec == Init /\ [][Next]_vars

(***************************************************************************)
(* Fairness: every thread that can run goes on with its call (the mutex is *)
(* not withheld from one thread forever), a reader calls GetItem again and *)
(* again as Processor::RunThread and SimpleServer::ServiceThread do, and   *)
(* the thread inside Stop is scheduled.  No fairness for the callers of    *)
(* PutItem, for Stop, Start, Pause and Resume being called, for deadlines  *)
(* or for spurious wakeups.                                                *)
(***************************************************************************)
Fairness ==
  /\ \A w \in Writers : WF_vars(PassPause(w)) /\ WF_vars(PutEnter(w) \/ PutWake(w))
  /\ \A r \in Readers : WF_vars(PassPause(r)) /\ WF_vars(Release(r) \/ ReaderStep(r))
  /\ WF_vars(StopContinue)

FairSpec == Spec /\ Fairness

-----------------------------------------------------------------------------
(***************************************************************************)
(* Properties.                                                             *)
(***************************************************************************)

\* An item has one owner: it is at one place of one sub-queue or with one
\* thread, never at two (a second delivery of a Resource pointer would end
\* in a double free), through every race of PutItem, GetItem and Stop.
OneOwner ==
  /\ \A p, q \in Prio : \A j \in 1..Len(queue[p]), k \in 1..Len(queue[q]) :
       queue[p][j] = queue[q][k] => p = q /\ j = k
  /\ \A t \in Thread : held[t] # NoItem => ~InQueue(held[t])
  /\ \A t, u \in Thread : held[t] # NoItem /\ held[t] = held[u] => t = u

\* A sub-queue never holds more items than maxItems, although a writer that
\* was woken may find the place taken by another one.
ItemsWithinLimit ==
  \A p \in Prio : MaxItems[p] # 0 => Len(queue[p]) <= MaxItems[p]

\* The units of size that the items of q take.
Units(q) == UNION {{k} \X (1..Size[q[k]]) : k \in 1..Len(q)}

\* The items of a sub-queue never take more than maxSize, in particular not
\* after Stop, where deleteAllItems keeps the old total.
SizeWithinLimit ==
  \A p \in Prio : MaxSize[p] # 0 => Cardinality(Units(queue[p])) <= MaxSize[p]

\* waitingReaders and waitingWriters count exactly the threads that have not
\* come back from their wait: Stop leaves its loops on these counters.
CountersAgree ==
  /\ waitingReaders = Cardinality({r \in Readers : Waiting(r)})
  /\ waitingWriters = Cardinality({w \in Writers : Waiting(w)})

\* No lost wakeup on condRecv: while a reader sleeps unsignalled in GetItem
\* there is nothing to read.
NoReaderAsleepOverItems ==
  (\E r \in Readers : pc[r] = "wait") => NonEmpty = {}

\* No lost wakeup on condSend: while a writer sleeps unsignalled in PutItem
\* its item does not fit, as IsSpaceFor sees it.
NoWriterAsleepOverSpace ==
  \A w \in Writers : pc[w] = "wait" => ~IsSpaceFor(prio[w], Size[held[w]])

\* When Stop has returned and until Start, no thread is inside a wait and no
\* item is left: SyncQueue::~SyncQueue and Processor::Stop rely on both.
StoppedIsQuiet ==
  cancel /\ ctl = "idle" => NonEmpty = {} /\ \A t \in Thread : ~Waiting(t)

\* The queue implements the channel its callers think of.
Abstract == INSTANCE Channel WITH content <- queue, owned <- held, open <- ~cancel
ImplementsChannel == Abstract!CSpec

\* Stop returns: its two yield loops end, whatever the other threads do.
StopReturns == ctl # "idle" ~> ctl = "idle"

\* A thread that is in a call when the queue is stopped leaves it, unless
\* the queue is started again first.
StopFreesThreads ==
  \A t \in Thread : cancel /\ ctl = "idle" /\ pc[t] # "idle"
                      ~> pc[t] = "idle" \/ ~cancel

\* Unless the queue ends up paused, every accepted item leaves the queue when
\* there is one priority: readers do not sleep while it waits.
EveryItemLeaves ==
  <>[]~paused => \A i \in Item : InQueue(i) ~> ~InQueue(i)

\* Stop: it returns, and the threads it finds in the queue leave.
StopEnds == StopReturns /\ StopFreesThreads

=============================================================================
