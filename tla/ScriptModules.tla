--------------------------- MODULE ScriptModules ---------------------------
(***************************************************************************)
(* Modules written in Perl and in Python: PerlModule, PythonModule, the    *)
(* interpreters they embed, and the object lock that Object and Module     *)
(* take around every call.                                                 *)
(*                                                                         *)
(* A call takes the object lock of its module (read for GetProperty and    *)
(* ListProperties, write for everything else), enters the interpreter, runs*)
(* the script and returns.  Each Perl module has an interpreter of its own,*)
(* guarded by the object lock alone, so the two reading calls trade their  *)
(* read lock for a write lock; all Python modules share one interpreter and*)
(* its global lock, the GIL, taken after the object lock.  A script can    *)
(* read a property of another object (ObjectRegistry is in the bindings),  *)
(* which nests a call in the one that runs it.                             *)
(*                                                                         *)
(* A resource is handed to a script inside an object that owns it: when the*)
(* script lets go of the object the resource is deleted.  What the script  *)
(* returns is taken back by clearing the owner mark.  The data of resources*)
(* and properties is left out; a script that raises an exception, returns  *)
(* the wrong number of values or something that is not a resource is one   *)
(* that returns nothing.  Scripts do not keep what they give back and do   *)
(* not read a property of an object whose call they run in, and only Perl   *)
(* modules get resources of a class that the bindings do not know.         *)
(***************************************************************************)
EXTENDS Naturals, Sequences, FiniteSets

CONSTANTS
  Thread,     \* threads of processors and of the server's clients
  Perl,       \* modules written in Perl
  Python,     \* modules written in Python
  Resource,   \* names for resources; the name of a deleted one is reused
  Unbound,    \* resources whose class the bindings do not know
  Scenes,     \* configurations, see SceneOK
  NoOne       \* NULL

Module == Perl \cup Python

Kind == {"INPUT", "SIMPLE", "MULTI"}

\* A configuration: the modules in use, the processor thread that runs each,
\* their types (an OUTPUT module is called as a SIMPLE one), the threads that
\* serve clients, and the pairs <<m, n>> where the script of m reads a property
\* of n.
SceneOK(s) ==
  /\ DOMAIN s.owner \subseteq Module
  /\ s.owner \in [DOMAIN s.owner -> Thread]
  /\ s.kind \in [DOMAIN s.owner -> Kind]
  /\ s.clients \subseteq Thread \ {s.owner[m] : m \in DOMAIN s.owner}
  /\ s.reads \subseteq {e \in (DOMAIN s.owner) \X (DOMAIN s.owner) : e[1] # e[2]}

ASSUME ScriptAssumption ==
  /\ Perl \cap Python = {} /\ IsFiniteSet(Python)
  /\ NoOne \notin Thread \cup Resource \cup Module
  /\ Unbound \subseteq Resource
  /\ \A s \in Scenes : SceneOK(s)

VARIABLES
  scene,      \* the configuration
  phase,      \* "init", "run", "end" or "crashed"
  life,       \* of a module: "none", "made", "ready", "invalid" or "gone"
  ref,        \* modules whose script object exists
  used,       \* EmbeddedPython::used
  initialized,\* EmbeddedPython::initialized
  lock,       \* the object lock of a module: its writer and its readers
  gil,        \* the thread that holds the GIL ("main": the main thread, at exit)
  context,    \* the Perl interpreter a thread has set as its context
  stack,      \* the calls a thread is in, the innermost first
  hand,       \* the resource a processor thread works on
  inq, outq,  \* inputResources and outputResources of a MULTI module
  own,        \* resources whose script object has the owner mark
  kept,       \* resources a script keeps between calls
  stuck,      \* resources in Perl arrays that nothing refers to
  pool        \* resources that do not exist or are elsewhere in the engine

lockVars == <<lock, gil>>
lifeVars == <<scene, phase, life, ref, used, initialized>>
resVars == <<hand, inq, outq, own, kept, stuck, pool>>
vars == <<lifeVars, lockVars, context, stack, resVars>>

Present == DOMAIN scene.owner
Free == [w |-> NoOne, r |-> {}]
Top(t) == Head(stack[t])
Busy(t) == stack[t] # <<>>
At(t, pc) == phase = "run" /\ Busy(t) /\ Top(t).pc = pc
MayRead == {"GetProperty", "ListProperties"}
ReadOp(t) == Top(t).op \in MayRead

Init ==
  /\ scene \in Scenes
  /\ phase = "init" /\ ref = {} /\ used = 0 /\ initialized = FALSE
  /\ life = [m \in Module |-> "none"]
  /\ lock = [m \in Module |-> Free]
  /\ gil = NoOne
  /\ context = [t \in Thread |-> NoOne]
  /\ stack = [t \in Thread |-> <<>>]
  /\ hand = [t \in Thread |-> NoOne]
  /\ inq = [m \in Module |-> {}] /\ outq = [m \in Module |-> {}]
  /\ own = {} /\ stuck = {} /\ pool = Resource
  /\ kept = [m \in Module |-> {}]

(***************************************************************************)
(* Construction, Init and destruction: the main thread, while no other one *)
(* is in a module.                                                         *)
(***************************************************************************)
\* PerlModule::PerlModule: allocates an interpreter, leaves the context alone.
PerlNew(m) ==
  /\ phase = "init" /\ m \in Perl \cap Present /\ life[m] = "none"
  /\ life' = [life EXCEPT ![m] = "made"]
  /\ UNCHANGED <<scene, phase, ref, used, initialized, lockVars, context, stack, resVars>>

\* A constructor that does not count itself.
PythonNewUncounted(m) ==
  /\ phase = "init" /\ m \in Python \cap Present /\ life[m] = "none"
  /\ life' = [life EXCEPT ![m] = "made"]
  /\ UNCHANGED <<scene, phase, ref, used, initialized, lockVars, context, stack, resVars>>

\* PythonModule::PythonModule and EmbeddedPython::EmbeddedPython: the first
\* one starts the interpreter.
PythonNew(m) ==
  /\ phase = "init" /\ m \in Python \cap Present /\ life[m] = "none"
  /\ life' = [life EXCEPT ![m] = "made"]
  /\ used' = used + 1
  /\ UNCHANGED <<scene, phase, ref, initialized, lockVars, context, stack, resVars>>

\* PerlModule::Init: the interpreter or the script may not load, which leaves
\* ref NULL, and the script's Init may fail.
PerlInit(m) ==
  /\ phase = "init" /\ m \in Perl /\ life[m] = "made"
  /\ \E loaded, ok \in BOOLEAN :
       /\ ok => loaded
       /\ ref' = IF loaded THEN ref \cup {m} ELSE ref
       /\ life' = [life EXCEPT ![m] = IF ok THEN "ready" ELSE "invalid"]
  /\ UNCHANGED <<scene, phase, used, initialized, lockVars, context, stack, resVars>>

\* EmbeddedPython::Init: imports the bindings and finds its functions, once
\* in the life of the process.
PythonLoad(ok) == initialized' = (initialized \/ ok)

\* PythonModule::Init: fails unless the bindings and the script load and the
\* script's Init returns True.
PythonInit(m) ==
  /\ phase = "init" /\ m \in Python /\ life[m] = "made" /\ gil = NoOne
  /\ \E bound, loaded, ok \in BOOLEAN :
       /\ ok => loaded
       /\ loaded => bound \/ initialized
       /\ PythonLoad(bound)
       /\ ref' = IF loaded THEN ref \cup {m} ELSE ref
       /\ life' = [life EXCEPT ![m] = IF ok THEN "ready" ELSE "invalid"]
  /\ UNCHANGED <<scene, phase, used, lockVars, context, stack, resVars>>

\* GetType: a script that fails to tell its type makes the module invalid.
GetType(m) ==
  /\ phase = "init" /\ life[m] = "ready" /\ lock[m] = Free
  /\ life' = [life EXCEPT ![m] = "invalid"]
  /\ UNCHANGED <<scene, phase, ref, used, initialized, lockVars, context, stack, resVars>>

\* The server runs when every module is ready, and gives up otherwise.
Ready ==
  /\ phase = "init" /\ \A m \in Present : life[m] \in {"ready", "invalid"}
  /\ phase' = IF \A m \in Present : life[m] = "ready" THEN "run" ELSE "end"
  /\ UNCHANGED <<scene, life, ref, used, initialized, lockVars, context, stack, resVars>>

Shutdown ==
  /\ phase = "run" /\ \A t \in Thread : ~Busy(t)
  /\ phase' = "end"
  /\ UNCHANGED <<scene, life, ref, used, initialized, lockVars, context, stack, resVars>>

\* What a module's script still holds goes with its objects.
DropAll(m) ==
  /\ kept' = [kept EXCEPT ![m] = {}]
  /\ own' = own \ kept[m]
  /\ pool' = pool \cup (kept[m] \cap own)
  /\ UNCHANGED <<hand, inq, outq, stuck>>

\* PerlModule::~PerlModule: calls Finish on ref, which is NULL when the script
\* was not loaded.
PerlDelete(m) ==
  /\ phase = "end" /\ m \in Perl /\ life[m] \in {"made", "ready", "invalid"}
  /\ life' = [life EXCEPT ![m] = "gone"]
  /\ phase' = IF m \in ref THEN phase ELSE "crashed"
  /\ DropAll(m)
  /\ UNCHANGED <<scene, ref, used, initialized, lockVars, context, stack>>

\* PythonModule::~PythonModule and EmbeddedPython::~EmbeddedPython: the last
\* one ends the interpreter with the GIL taken.
PythonDelete(m) ==
  /\ phase = "end" /\ m \in Python /\ life[m] \in {"made", "ready", "invalid"}
  /\ gil = NoOne
  /\ life' = [life EXCEPT ![m] = "gone"]
  /\ used' = used - 1
  /\ gil' = IF used' = 0 THEN "main" ELSE NoOne
  /\ DropAll(m)
  /\ UNCHANGED <<scene, phase, ref, initialized, lock, context, stack>>

(***************************************************************************)
(* Object and Module: the lock around every call.                          *)
(***************************************************************************)
Frame(m, op) == [m |-> m, op |-> op, pc |-> "lock", nested |-> FALSE, args |-> {}]
SetPc(t, pc) == stack' = [stack EXCEPT ![t][1].pc = pc]

\* Object::GetProperty, SetProperty and ListProperties, called for a client.
PropertyCall(t, m) ==
  /\ phase = "run" /\ ~Busy(t) /\ t \in scene.clients
  /\ \E op \in MayRead \cup {"SetProperty"} :
       stack' = [stack EXCEPT ![t] = <<Frame(m, op)>>]
  /\ UNCHANGED <<lifeVars, lockVars, context, resVars>>

\* Module::Start, Stop, Pause and Resume, called for a client.
ControlCall(t, m) ==
  /\ phase = "run" /\ ~Busy(t) /\ t \in scene.clients
  /\ stack' = [stack EXCEPT ![t] = <<Frame(m, "Notify")>>]
  /\ UNCHANGED <<lifeVars, lockVars, context, resVars>>

\* Module::ProcessInput, ProcessOutput, ProcessSimple and ProcessMulti, called
\* by the processor thread the module belongs to.
ProcessCall(t, m) ==
  /\ phase = "run" /\ ~Busy(t) /\ scene.owner[m] = t
  /\ (scene.kind[m] = "SIMPLE") = (hand[t] # NoOne)
  /\ stack' = [stack EXCEPT ![t] = <<Frame(m, scene.kind[m])>>]
  /\ UNCHANGED <<lifeVars, lockVars, context, resVars>>

\* The processor gets a resource to work on, fills the input of its MULTI
\* modules, and passes on what modules returned.
Fetch(t, m) ==
  /\ phase = "run" /\ ~Busy(t) /\ scene.owner[m] = t /\ hand[t] = NoOne
  /\ \E r \in IF m \in Python THEN pool \ Unbound ELSE pool :
       /\ pool' = pool \ {r}
       /\ \/ scene.kind[m] = "SIMPLE" /\ hand' = [hand EXCEPT ![t] = r] /\ UNCHANGED inq
          \/ scene.kind[m] = "MULTI" /\ inq' = [inq EXCEPT ![m] = @ \cup {r}] /\ UNCHANGED hand
  /\ UNCHANGED <<lifeVars, lockVars, context, stack, outq, own, kept, stuck>>

PassOn(t, m) ==
  /\ phase = "run" /\ ~Busy(t) /\ scene.owner[m] = t
  /\ \/ /\ hand[t] # NoOne
        /\ pool' = pool \cup {hand[t]} /\ hand' = [hand EXCEPT ![t] = NoOne]
        /\ UNCHANGED outq
     \/ /\ outq[m] # {}
        /\ pool' = pool \cup outq[m] /\ outq' = [outq EXCEPT ![m] = {}]
        /\ UNCHANGED hand
  /\ UNCHANGED <<lifeVars, lockVars, context, stack, inq, own, kept, stuck>>

\* Object::ObjectLockRead and ObjectLockWrite.
LockRead(t, m) ==
  /\ lock[m].w = NoOne
  /\ lock' = [lock EXCEPT ![m].r = @ \cup {t}]

LockWrite(t, m) ==
  /\ lock[m] = Free
  /\ lock' = [lock EXCEPT ![m].w = t]

\* Object::ObjectUnlock, of a read or of a write lock.
Unlocked(t, m) ==
  [lock EXCEPT ![m] = [w |-> IF @.w = t THEN NoOne ELSE @.w, r |-> @.r \ {t}]]

\* A call gets its object lock.
Acquire(t) ==
  /\ At(t, "lock")
  /\ IF ReadOp(t) THEN LockRead(t, Top(t).m) ELSE LockWrite(t, Top(t).m)
  /\ SetPc(t, IF ReadOp(t) /\ Top(t).m \in Perl THEN "upgrade" ELSE "enter")
  /\ UNCHANGED <<lifeVars, gil, context, resVars>>

\* An upgrade that starts over when it has given up the read lock.
PerlUpgradeRetry(t) ==
  /\ At(t, "upgrade")
  /\ lock' = Unlocked(t, Top(t).m)
  /\ SetPc(t, "lock")
  /\ UNCHANGED <<lifeVars, gil, context, resVars>>

\* PerlModule::GetPropertySync and ListPropertiesSync give up the read lock ...
PerlUpgrade(t) ==
  /\ At(t, "upgrade")
  /\ lock' = Unlocked(t, Top(t).m)
  /\ SetPc(t, "relock")
  /\ UNCHANGED <<lifeVars, gil, context, resVars>>

\* An upgrade that takes the read lock again.
PerlRelockRead(t) ==
  /\ At(t, "relock")
  /\ LockRead(t, Top(t).m)
  /\ SetPc(t, "enter")
  /\ UNCHANGED <<lifeVars, gil, context, resVars>>

\* ... and take a write lock: anything may happen to the module in between.
PerlRelock(t) ==
  /\ At(t, "relock")
  /\ LockWrite(t, Top(t).m)
  /\ SetPc(t, "enter")
  /\ UNCHANGED <<lifeVars, gil, context, resVars>>

\* A return that leaves the lock.
ReturnLocked(t) ==
  /\ UNCHANGED lock
  /\ stack' = [stack EXCEPT ![t] = Tail(@)]

\* The call returns: the lock is released, the caller goes on.
Return(t) ==
  /\ lock' = Unlocked(t, Top(t).m)
  /\ stack' = [stack EXCEPT ![t] = Tail(@)]

(***************************************************************************)
(* Entering the interpreter, and what a script may do while it runs.       *)
(***************************************************************************)
\* The arguments of the call, wrapped in objects that own them.
Wrap(t, res) ==
  /\ stack' = [stack EXCEPT ![t][1].pc = "script", ![t][1].args = res]
  /\ own' = own \cup res

\* A call that relies on the context it finds.
KeepContext(t) == UNCHANGED context

\* Every call of PerlModule starts by making its interpreter the context of
\* the thread, and never puts the old one back.
SetContext(t) == context' = [context EXCEPT ![t] = Top(t).m]

PerlEnter(t) ==
  /\ At(t, "enter") /\ Top(t).m \in Perl /\ Top(t).op \notin {"SIMPLE", "MULTI"}
  /\ SetContext(t)
  /\ Wrap(t, {})
  /\ UNCHANGED <<lifeVars, lockVars, hand, inq, outq, kept, stuck, pool>>

\* PerlModule::ProcessOutputSync and ProcessSimpleSync up to the call: with a
\* class the bindings do not know they return NULL, and nobody has the resource.
PerlEnterSimple(t) ==
  /\ At(t, "enter") /\ Top(t).m \in Perl /\ Top(t).op = "SIMPLE"
  /\ SetContext(t)
  /\ hand' = [hand EXCEPT ![t] = NoOne]
  /\ IF hand[t] \in Unbound
       THEN Return(t) /\ UNCHANGED own
       ELSE Wrap(t, {hand[t]}) /\ UNCHANGED lock
  /\ UNCHANGED <<lifeVars, gil, inq, outq, kept, stuck, pool>>

\* PerlModule::ProcessMultiSync up to the call: the input is moved to an array
\* one by one; a class the bindings do not know ends it with false, and what
\* was moved so far stays in an array that nothing refers to.
PerlEnterMulti(t) ==
  /\ At(t, "enter") /\ Top(t).m \in Perl /\ Top(t).op = "MULTI"
  /\ SetContext(t)
  /\ LET m == Top(t).m IN
     \E moved \in SUBSET (inq[m] \ Unbound) :
       /\ inq' = [inq EXCEPT ![m] = @ \ moved]
       /\ IF inq[m] \cap Unbound # {}
            THEN /\ Return(t)
                 /\ stuck' = stuck \cup moved
                 /\ own' = own \cup moved
            ELSE /\ moved = inq[m]
                 /\ Wrap(t, moved)
                 /\ UNCHANGED <<lock, stuck>>
  /\ UNCHANGED <<lifeVars, gil, hand, outq, kept, pool>>

\* EmbeddedPython::Lock, at the start of every call of PythonModule.  A thread
\* that has the GIL already keeps it; ProcessMultiSync hands over the input
\* and what is left in the output.
PythonEnter(t) ==
  /\ At(t, "enter") /\ Top(t).m \in Python /\ gil \in {NoOne, t}
  /\ gil' = t
  /\ LET m == Top(t).m
         res == CASE Top(t).op = "SIMPLE" -> {hand[t]}
                  [] Top(t).op = "MULTI" -> inq[m] \cup outq[m]
                  [] OTHER -> {}
     IN /\ stack' = [stack EXCEPT ![t][1].pc = "script", ![t][1].args = res,
                                  ![t][1].nested = (gil = t)]
        /\ own' = own \cup res
        /\ hand' = IF Top(t).op = "SIMPLE" THEN [hand EXCEPT ![t] = NoOne] ELSE hand
        /\ inq' = IF Top(t).op = "MULTI" THEN [inq EXCEPT ![m] = {}] ELSE inq
        /\ outq' = IF Top(t).op = "MULTI" THEN [outq EXCEPT ![m] = {}] ELSE outq
  /\ UNCHANGED <<lifeVars, lock, context, kept, stuck, pool>>

\* External: the interpreter lets another thread run, and goes on later.
Yield(t) ==
  /\ At(t, "script") /\ Top(t).m \in Python
  /\ gil' = NoOne
  /\ SetPc(t, "yield")
  /\ UNCHANGED <<lifeVars, lock, context, resVars>>

Unyield(t) ==
  /\ At(t, "yield") /\ gil = NoOne
  /\ gil' = t
  /\ SetPc(t, "script")
  /\ UNCHANGED <<lifeVars, lock, context, resVars>>

\* The script reads a property of another object: ObjectRegistry::
\* GetObjectProperty calls Object::GetProperty in the same thread.
ScriptReads(t, n) ==
  /\ At(t, "script") /\ <<Top(t).m, n>> \in scene.reads
  /\ \A i \in DOMAIN stack[t] : stack[t][i].m # n
  /\ stack' = [stack EXCEPT ![t] = <<Frame(n, "GetProperty")>> \o @]
  /\ UNCHANGED <<lifeVars, lockVars, context, resVars>>

(***************************************************************************)
(* What comes back from a script.  It holds its arguments and what it kept *)
(* from earlier calls; of these it returns some, keeps some, and lets go of*)
(* the rest.                                                               *)
(***************************************************************************)
Has(t) == Top(t).args \cup kept[Top(t).m]

\* ConvertPtr without DISOWN.
SettleOwned(t, back, keep) ==
  LET gone == Has(t) \ (back \cup keep) IN
  /\ kept' = [kept EXCEPT ![Top(t).m] = keep]
  /\ own' = (own \cup back) \ gone
  /\ pool' = (pool \ back) \cup (gone \cap own)

\* ConvertPtr with DISOWN clears the owner mark of what is returned; the
\* objects that are let go delete their resource if they own it.
Settle(t, back, keep) ==
  LET gone == Has(t) \ (back \cup keep) IN
  /\ kept' = [kept EXCEPT ![Top(t).m] = keep]
  /\ own' = own \ (back \cup gone)
  /\ pool' = (pool \ back) \cup (gone \cap own)

Crash(t) ==
  /\ phase' = "crashed"
  /\ UNCHANGED <<scene, life, ref, used, initialized, lockVars, context, stack, resVars>>

\* GetProperty returns NULL, SetProperty false, and Start, Stop, Pause and
\* Resume nothing when the script fails.
PerlPlain(t) ==
  /\ At(t, "script") /\ Top(t).m \in Perl /\ Top(t).op \in {"GetProperty", "SetProperty", "Notify"}
  /\ Return(t)
  /\ UNCHANGED <<lifeVars, gil, context, resVars>>

\* PerlModule::ListPropertiesSync returns NULL when the script fails, and
\* Object::ListProperties appends to what it gets.
PerlList(t) ==
  /\ At(t, "script") /\ Top(t).m \in Perl /\ Top(t).op = "ListProperties"
  /\ \/ Return(t) /\ UNCHANGED <<lifeVars, gil, context, resVars>>
     \/ Crash(t)

\* PerlModule::ProcessInputSync: the script makes a resource, or returns one it
\* kept, or nothing.
PerlInput(t) ==
  /\ At(t, "script") /\ Top(t).m \in Perl /\ Top(t).op = "INPUT"
  /\ \E r \in (pool \ Unbound) \cup kept[Top(t).m] \cup {NoOne} :
       /\ hand' = [hand EXCEPT ![t] = r]
       /\ Settle(t, {r} \ {NoOne}, kept[Top(t).m] \ {r})
  /\ Return(t)
  /\ UNCHANGED <<lifeVars, gil, context, inq, outq, stuck>>

\* PerlModule::ProcessOutputSync and ProcessSimpleSync after the call.
PerlSimple(t) ==
  /\ At(t, "script") /\ Top(t).m \in Perl /\ Top(t).op = "SIMPLE"
  /\ \E r \in Has(t) \cup {NoOne} : \E keep \in SUBSET (Has(t) \ {r}) :
       /\ hand' = [hand EXCEPT ![t] = r]
       /\ Settle(t, {r} \ {NoOne}, keep)
  /\ Return(t)
  /\ UNCHANGED <<lifeVars, gil, context, inq, outq, stuck>>

\* PerlModule::ProcessMultiSync after a call that went well: both arrays are
\* emptied into the queues.
PerlMulti(t) ==
  /\ At(t, "script") /\ Top(t).m \in Perl /\ Top(t).op = "MULTI"
  /\ \E in, out \in SUBSET Has(t) : \E keep \in SUBSET (Has(t) \ (in \cup out)) :
       /\ in \cap out = {}
       /\ inq' = [inq EXCEPT ![Top(t).m] = @ \cup in]
       /\ outq' = [outq EXCEPT ![Top(t).m] = @ \cup out]
       /\ Settle(t, in \cup out, keep)
  /\ Return(t)
  /\ UNCHANGED <<lifeVars, gil, context, hand, stuck>>

\* A failing call that disowns what is in the arrays and does not return it.
PerlMultiFailsDisown(t) ==
  /\ At(t, "script") /\ Top(t).m \in Perl /\ Top(t).op = "MULTI"
  /\ Settle(t, Has(t), {})
  /\ Return(t)
  /\ UNCHANGED <<lifeVars, gil, context, hand, inq, outq, stuck>>

\* ... and after an exception, the wrong number of results or a result that is
\* not a number: false, and the arrays stay as they are with nobody to free
\* them.
PerlMultiFails(t) ==
  /\ At(t, "script") /\ Top(t).m \in Perl /\ Top(t).op = "MULTI"
  /\ \E left \in SUBSET Has(t) : \E keep \in SUBSET (Has(t) \ left) :
       LET gone == Has(t) \ (left \cup keep) IN
       /\ stuck' = stuck \cup left
       /\ kept' = [kept EXCEPT ![Top(t).m] = keep]
       /\ own' = own \ gone
       /\ pool' = pool \cup (gone \cap own)
  /\ Return(t)
  /\ UNCHANGED <<lifeVars, gil, context, hand, inq, outq>>

\* Undefined behaviour: the interpreter of another module is the context.
PerlLost(t) ==
  /\ At(t, "script") /\ Top(t).m \in Perl /\ context[t] # Top(t).m
  /\ Crash(t)

\* EmbeddedPython::Unlock and the return of a call of PythonModule.
PythonReturn(t) ==
  /\ Return(t)
  /\ gil' = IF Top(t).nested THEN t ELSE NoOne

\* SetProperty, Start, Stop, Pause and Resume of PythonModule.
PythonPlain(t) ==
  /\ At(t, "script") /\ Top(t).m \in Python /\ Top(t).op \in {"SetProperty", "Notify"}
  /\ PythonReturn(t)
  /\ UNCHANGED <<lifeVars, context, resVars>>

\* GetPropertySync and ListPropertiesSync of PythonModule: PyString_Check is
\* tested with >= 0, so a value that is no string becomes a NULL string.
PythonRead(t) ==
  /\ At(t, "script") /\ Top(t).m \in Python /\ ReadOp(t)
  /\ \/ PythonReturn(t) /\ UNCHANGED <<lifeVars, context, resVars>>
     \/ Crash(t)

\* PythonModule::ProcessInputSync.
PythonInput(t) ==
  /\ At(t, "script") /\ Top(t).m \in Python /\ Top(t).op = "INPUT"
  /\ \E r \in (pool \ Unbound) \cup kept[Top(t).m] \cup {NoOne} :
       /\ hand' = [hand EXCEPT ![t] = r]
       /\ Settle(t, {r} \ {NoOne}, kept[Top(t).m] \ {r})
  /\ PythonReturn(t)
  /\ UNCHANGED <<lifeVars, context, inq, outq, stuck>>

\* PythonModule::ProcessOutputSync and ProcessSimpleSync.
PythonSimple(t) ==
  /\ At(t, "script") /\ Top(t).m \in Python /\ Top(t).op = "SIMPLE"
  /\ \E r \in Has(t) \cup {NoOne} : \E keep \in SUBSET (Has(t) \ {r}) :
       /\ hand' = [hand EXCEPT ![t] = r]
       /\ Settle(t, {r} \ {NoOne}, keep)
  /\ PythonReturn(t)
  /\ UNCHANGED <<lifeVars, context, inq, outq, stuck>>

\* PythonModule::ProcessMultiSync: what is in the lists comes back, whether the
\* script raised an exception or not; a result that is not a tuple is read as
\* one (PyTuple_Check >= 0).
PythonMulti(t) ==
  /\ At(t, "script") /\ Top(t).m \in Python /\ Top(t).op = "MULTI"
  /\ \/ /\ \E in, out \in SUBSET Has(t) : \E keep \in SUBSET (Has(t) \ (in \cup out)) :
             /\ in \cap out = {}
             /\ inq' = [inq EXCEPT ![Top(t).m] = in]
             /\ outq' = [outq EXCEPT ![Top(t).m] = out]
             /\ Settle(t, in \cup out, keep)
        /\ PythonReturn(t)
        /\ UNCHANGED <<lifeVars, context, hand, stuck>>
     \/ Crash(t)

PerlReturns(t) ==
  \/ PerlPlain(t) \/ PerlList(t) \/ PerlInput(t) \/ PerlSimple(t)
  \/ PerlMulti(t) \/ PerlMultiFails(t)
PythonReturns(t) ==
  PythonPlain(t) \/ PythonRead(t) \/ PythonInput(t) \/ PythonSimple(t) \/ PythonMulti(t)
Enters(t) == PerlEnter(t) \/ PerlEnterSimple(t) \/ PerlEnterMulti(t) \/ PythonEnter(t)

Proceeds(t) == Acquire(t) \/ PerlUpgrade(t) \/ PerlRelock(t) \/ Enters(t) \/ Unyield(t)

Lifecycle ==
  \/ \E m \in Present :
       \/ PerlNew(m) \/ PythonNew(m) \/ PerlInit(m) \/ PythonInit(m) \/ GetType(m)
       \/ PerlDelete(m) \/ PythonDelete(m)
  \/ Ready \/ Shutdown

Next ==
  \/ Lifecycle
  \/ \E t \in Thread :
       \/ \E m \in Present :
            \/ PropertyCall(t, m) \/ ControlCall(t, m) \/ ProcessCall(t, m)
            \/ Fetch(t, m) \/ PassOn(t, m) \/ ScriptReads(t, m)
       \/ Proceeds(t) \/ Yield(t) \/ PerlLost(t)
       \/ PerlReturns(t) \/ PythonReturns(t)

Spec == Init /\ [][Next]_vars

\* A script ends if it gets to run; a thread that waits for a lock gets it if
\* the lock is free again and again (neither pthreads nor Python promise it,
\* but a waiting thread is overtaken only by luck).
Fairness ==
  \A t \in Thread :
    /\ SF_vars(Proceeds(t))
    /\ SF_vars(PerlReturns(t)) /\ SF_vars(PythonReturns(t))

FairSpec == Spec /\ Fairness
----------------------------------------------------------------------------
\* The state is well formed.
TypeOK ==
  /\ scene \in Scenes
  /\ phase \in {"init", "run", "end", "crashed"}
  /\ life \in [Module -> {"none", "made", "ready", "invalid", "gone"}]
  /\ ref \subseteq Module /\ used \in 0 .. Cardinality(Python) /\ initialized \in BOOLEAN
  /\ lock \in [Module -> [w : Thread \cup {NoOne}, r : SUBSET Thread]]
  /\ gil \in Thread \cup {NoOne, "main"}
  /\ context \in [Thread -> Perl \cup {NoOne}]
  /\ hand \in [Thread -> Resource \cup {NoOne}]
  /\ inq \in [Module -> SUBSET Resource] /\ outq \in [Module -> SUBSET Resource]
  /\ kept \in [Module -> SUBSET Resource]
  /\ UNION {own, stuck, pool} \subseteq Resource

InScript(t, m) ==
  {i \in DOMAIN stack[t] : stack[t][i].m = m /\ stack[t][i].pc \in {"script", "yield"}}

\* Only one thread at a time runs the script of a module, also across the gap
\* where PerlModule trades its read lock for a write lock and when a Python
\* script is suspended by its interpreter.  Two readers may meet in a Python
\* module.
ScriptExclusive ==
  \A t, u \in Thread : \A m \in Module : t # u =>
    \A i \in InScript(t, m), j \in InScript(u, m) :
      m \in Python /\ {stack[t][i].op, stack[u][j].op} \subseteq MayRead

Hands == {hand[t] : t \in Thread} \ {NoOne}
Queued == UNION {inq[m] \cup outq[m] : m \in Module}
Args == UNION {UNION {stack[t][i].args : i \in DOMAIN stack[t]} : t \in Thread}

\* A resource has one owner: the script object that will delete it, or the C++
\* side, never both, whatever scripts return, keep or drop.  A resource with
\* two owners is deleted twice, or used after it was deleted.
OneOwner ==
  /\ own \cap (Hands \cup Queued \cup pool) = {}
  /\ pool \cap (Hands \cup Queued) = {}
  /\ Hands \cap Queued = {}

\* A resource that some call took is not lost: a script object owns it, unless
\* the bindings do not know its class; and what has an owner can be reached
\* from the script, except for what a failed ProcessMulti of Perl left behind.
Accounted ==
  /\ Resource \subseteq UNION {own, Hands, Queued, pool, Unbound}
  /\ phase \in {"run", "end"} => own = (UNION {Args, stuck}) \cup (UNION {kept[m] : m \in Module})

\* A Perl script runs with the interpreter of its module as the context of the
\* thread, as long as no script reads a property of a module written in Perl:
\* such a call changes the context and leaves it changed.
ContextIsMine ==
  \/ \E e \in scene.reads : e[2] \in Perl
  \/ \A t \in Thread : At(t, "script") /\ Top(t).m \in Perl => context[t] = Top(t).m

Waits(t) ==
  \/ At(t, "lock") /\ IF ReadOp(t) THEN lock[Top(t).m].w # NoOne ELSE lock[Top(t).m] # Free
  \/ At(t, "relock") /\ lock[Top(t).m] # Free
  \/ At(t, "enter") /\ Top(t).m \in Python /\ gil \notin {t, NoOne}
  \/ At(t, "yield") /\ gil # NoOne

\* When all the threads that are in a call wait for each other, the one with
\* the GIL waits for an object lock: a Python script reads a property of an
\* object whose thread waits for the GIL.  Nothing else can lock up the server.
DeadlockIsGil ==
  (\E t \in Thread : Waits(t)) /\ (\A t \in Thread : Busy(t) => Waits(t)) =>
    gil \in Thread /\ (At(gil, "lock") \/ At(gil, "relock"))

\* Every call returns if no Python script reads properties of other objects,
\* Perl scripts read those of Python modules only, and one thread reads
\* properties: two of them can hold the read lock of a Python module in turn
\* and keep its processor out.
CallsReturn ==
  /\ scene.reads \subseteq Perl \X Python
  /\ Cardinality(scene.clients) + Cardinality(scene.reads) <= 1
  =>
    \A t \in Thread : Busy(t) ~> (~Busy(t) \/ phase = "crashed")

\* The resources that go through a script have one owner and are accounted for.
ResourcesOwned == TypeOK /\ OneOwner /\ Accounted

\* Calls of a Perl or Python module: one thread in a script, in its own context.
ScriptGuarded == ScriptExclusive /\ ContextIsMine

\* Calls end, and where they do not it is for the GIL.
CallsEnd == []DeadlockIsGil /\ CallsReturn

============================================================================
