---------------------------- MODULE ResourcePool ----------------------------
(***************************************************************************)
(* ResourceRegistry, the pool of resources and their identifiers, and      *)
(* PerlInterpreters, the heap of interpreters that the resources written in*)
(* Perl share.                                                             *)
(*                                                                         *)
(* Three kinds of lock are involved.  infoLock guards the tables and the   *)
(* lists of free resources; it is held while a library is looked for and   *)
(* while a resource is cleared.  Each interpreter has a recursive lock,    *)
(* held while a Perl resource is made, cleared, used or deleted.  The lock *)
(* of PerlInterpreters and idLock are held for a few assignments and are   *)
(* part of the steps that take them.  So infoLock comes before the lock of *)
(* an interpreter, but Perl code that looks up a type or an attribute by   *)
(* name takes them the other way round.                                    *)
(*                                                                         *)
(* Users release a resource once.  A resource is a name that is used again *)
(* when it has been deleted.                                               *)
(***************************************************************************)
EXTENDS Naturals, Sequences, FiniteSets, SequencesExt

CONSTANTS
  Thread,     \* threads of the server
  Res,        \* names for resources; bound: some are left for those being made
  Interp,     \* names for interpreters
  Native,     \* resource types with a C++ library
  PerlType,   \* resource types written in Perl
  Scenes,     \* configurations, see SceneOK
  NoOne       \* NULL

Type == Native \cup PerlType

\* A configuration: the threads that run, the capacity of a list of free
\* resources (AVAILABLE_SIZE_MAX), the limit of interpreters
\* (MAX_PERL_INTERPRETERS), the libraries found in the search paths (NoOne: a
\* file that is not a resource), whether Perl code calls the registry, and the
\* bound on identifiers: no resource is asked for when it is reached.
SceneOK(s) ==
  /\ s.threads \subseteq Thread
  /\ s.available \in Nat \ {0} /\ s.interpreters \in 1 .. Cardinality(Interp)
  /\ s.native \in Seq(Native \cup {NoOne}) /\ s.perl \in Seq(PerlType \cup {NoOne})
  /\ s.scripts \in BOOLEAN /\ s.ids \in Nat

ASSUME PoolAssumption ==
  /\ IsFiniteSet(Thread) /\ IsFiniteSet(Res)
  /\ Native \cap PerlType = {}
  /\ NoOne \notin Thread \cup Res \cup Interp \cup Type
  /\ \A s \in Scenes : SceneOK(s)

VARIABLES
  scene,      \* the configuration
  nativeFiles, perlFiles, \* nativeFilenames and perlFilenames
  loaded,     \* the types in id2info and name2id
  available,  \* the free resources of a type
  infoLock,   \* the thread that holds it
  nextId,     \* ResourceRegistry::nextId
  heap,       \* PerlInterpreters::interpreters
  count,      \* users of an interpreter
  position,   \* its place in the heap, from 0
  perlLock,   \* the thread that holds the lock of an interpreter
  obj,        \* of a resource: its type, identifier and interpreter
  user,       \* the thread that uses a resource
  failed,     \* ghost: resources that could not be initialised, per interpreter
  op          \* what a thread is doing

perlVars == <<heap, count, position, failed>>
poolVars == <<nativeFiles, perlFiles, loaded, available>>
vars == <<scene, poolVars, infoLock, nextId, perlVars, perlLock, obj, user, op>>

NoObj == [ty |-> NoOne, id |-> 0, pi |-> NoOne]
Idle == [pc |-> "idle", ty |-> NoOne, r |-> NoOne, load |-> FALSE]
At(t, pc) == op[t].pc = pc
Go(t, pc) == op' = [op EXCEPT ![t].pc = pc]
Done(t) == op' = [op EXCEPT ![t] = Idle]
Unused == {r \in Res : obj[r] = NoObj}
NewName == CHOOSE r \in Unused : TRUE
IsPerl(r) == obj[r].ty \in PerlType
PerlFree(t, i) == perlLock[i] \in {NoOne, t}

Init ==
  /\ scene \in Scenes
  /\ nativeFiles = scene.native /\ perlFiles = scene.perl
  /\ loaded = {} /\ available = [ty \in Type |-> <<>>]
  /\ infoLock = NoOne /\ nextId = 1
  /\ heap = <<>>
  /\ count = [i \in Interp |-> 0] /\ position = [i \in Interp |-> 0]
  /\ failed = [i \in Interp |-> 0]
  /\ perlLock = [i \in Interp |-> NoOne]
  /\ obj = [r \in Res |-> NoObj] /\ user = [r \in Res |-> NoOne]
  /\ op = [t \in Thread |-> Idle]

(***************************************************************************)
(* heapplus.h: a binary heap (places from 1 here) whose elements know their*)
(* place.  An element goes up past parents, or down past children, that    *)
(* compare the wrong way; the others move by one level.                    *)
(***************************************************************************)
\* PerlResourceInterpreter_Compare.
Less(cnt, i, j) == cnt[i] < cnt[j]

\* __up_heap: up[k] is the heap when the hole has come to place k.
UpHeap(h, cnt, k0) ==
  LET v == h[k0]
      up[k \in DOMAIN h] ==
        IF k > 1 /\ Less(cnt, h[k \div 2], v)
          THEN [up[k \div 2] EXCEPT ![k] = h[k \div 2]]
          ELSE [h EXCEPT ![k] = v]
  IN up[k0]

\* __down_heap: the larger child, the left one of two equal ones, moves up.
DownHeap(h, cnt, k0) ==
  LET v == h[k0]
      Largest(k) ==
        IF 2 * k + 1 \in DOMAIN h /\ Less(cnt, h[2 * k], h[2 * k + 1])
          THEN 2 * k + 1 ELSE 2 * k
      down[k \in DOMAIN h] ==
        LET c == Largest(k) IN
        IF c \in DOMAIN h /\ Less(cnt, v, h[c])
          THEN [down[c] EXCEPT ![k] = h[c]]
          ELSE [h EXCEPT ![k] = v]
  IN down[k0]

\* An update that only goes up.
UpdateHeapUp(h, cnt, k) == UpHeap(h, cnt, k)

\* __update_heap.
UpdateHeap(h, cnt, k) ==
  IF k > 1 /\ Less(cnt, h[k \div 2], h[k]) THEN UpHeap(h, cnt, k) ELSE DownHeap(h, cnt, k)

\* PerlResourceInterpreter_Update, for the elements that moved.
Moved(old, new, pos) ==
  [i \in Interp |->
     IF \E k \in DOMAIN new : new[k] = i /\ (k \notin DOMAIN old \/ old[k] # i)
       THEN (CHOOSE k \in DOMAIN new : new[k] = i) - 1 ELSE pos[i]]

\* The count of i changes, and its place with it.
Recount(h, pos, i, cnt) ==
  LET new == UpdateHeap(h, cnt, pos[i] + 1) IN
  /\ heap' = new /\ count' = cnt /\ position' = Moved(h, new, pos)

\* PerlInterpreters::AcquirePerl: a new interpreter below the limit, the first
\* of the heap otherwise.
Chosen ==
  IF Len(heap) < scene.interpreters
    THEN CHOOSE i \in Interp : i \notin Range(heap)
    ELSE heap[1]

\* ... push_heap leaves a new one last, because its count is 0; then the count
\* goes up.
AcquirePerl(i) ==
  IF i \notin Range(heap)
    THEN Recount(Append(heap, i), [position EXCEPT ![i] = Len(heap)], i, [count EXCEPT ![i] = 1])
    ELSE Recount(heap, position, i, [count EXCEPT ![i] = @ + 1])

\* A release that is counted twice.
ReleasePerlTwice(i) ==
  /\ heap' = heap /\ position' = position
  /\ count' = [count EXCEPT ![i] = @ - 2]

\* PerlInterpreters::ReleasePerl.
ReleasePerl(i) == Recount(heap, position, i, [count EXCEPT ![i] = @ - 1])

(***************************************************************************)
(* Making resources.                                                       *)
(***************************************************************************)
\* ResourceRegistry::NextResourceId.
NextId(n) == n + 1

\* Resource::Resource: a new object takes the next identifier.
New(r, ty, pi) ==
  /\ obj' = [obj EXCEPT ![r] = [ty |-> ty, id |-> nextId, pi |-> pi]]
  /\ nextId' = NextId(nextId)

\* ResourceRegistry::AcquireResource, NameToId and GetAttrInfo begin.
Call(t) ==
  /\ At(t, "idle") /\ t \in scene.threads /\ nextId < scene.ids
  /\ Cardinality(Unused) > Cardinality({u \in Thread : ~At(u, "idle")}) + Len(nativeFiles \o perlFiles)
  /\ \E ty \in Type, pc \in {"want", "look"} :
       op' = [op EXCEPT ![t] = [Idle EXCEPT !.pc = pc, !.ty = ty]]
  /\ UNCHANGED <<scene, poolVars, infoLock, nextId, perlVars, perlLock, obj, user>>

\* infoLock is taken; GetInfo looks for the type.
LockInfo(t) ==
  /\ op[t].pc \in {"want", "look"} /\ infoLock = NoOne
  /\ infoLock' = t
  /\ op' = [op EXCEPT ![t].load = (op[t].pc = "want"), ![t].pc = "load"]
  /\ UNCHANGED <<scene, poolVars, nextId, perlVars, perlLock, obj, user>>

\* LoadResourceLibrary, the libraries: each file is tried once, a type that is
\* found gets its first free resource.
LoadNative(t) ==
  /\ At(t, "load") /\ op[t].ty \notin loaded /\ nativeFiles # <<>>
  /\ nativeFiles' = Tail(nativeFiles)
  /\ LET ty == Head(nativeFiles) IN
     IF ty = NoOne
       THEN UNCHANGED <<loaded, available, obj, nextId>>
       ELSE /\ New(NewName, ty, NoOne)
            /\ loaded' = loaded \cup {ty}
            /\ available' = [available EXCEPT ![ty] = Append(@, NewName)]
  /\ UNCHANGED <<scene, perlFiles, infoLock, perlVars, perlLock, user, op>>

\* ... then the Perl files: an interpreter is acquired for each.
LoadPerl(t) ==
  /\ At(t, "load") /\ op[t].ty \notin loaded /\ nativeFiles = <<>> /\ perlFiles # <<>>
  /\ AcquirePerl(Chosen)
  /\ New(NewName, Head(perlFiles), Chosen)
  /\ op' = [op EXCEPT ![t].pc = "loadinit", ![t].r = NewName]
  /\ perlFiles' = Tail(perlFiles)
  /\ UNCHANGED <<scene, nativeFiles, loaded, available, infoLock, failed, perlLock, user>>

\* AcquirePerl fails: the other files are not tried.
LoadNoPerl(t) ==
  /\ At(t, "load") /\ op[t].ty \notin loaded /\ nativeFiles = <<>> /\ perlFiles # <<>>
  /\ Len(heap) < scene.interpreters
  /\ perlFiles' = <<>>
  /\ UNCHANGED <<scene, nativeFiles, loaded, available, infoLock, nextId, perlVars, perlLock, obj, user, op>>

\* PerlResource::Init and GetResourceInfo under the lock of the interpreter.  A
\* file that is no resource is deleted, or left behind if only the second
\* call fails; the interpreter stays acquired.
LoadInit(t) ==
  /\ At(t, "loadinit")
  /\ LET r == op[t].r
         ty == obj[r].ty
     IN /\ PerlFree(t, obj[r].pi)
        /\ IF ty = NoOne
             THEN /\ failed' = [failed EXCEPT ![obj[r].pi] = @ + 1]
                  /\ obj' = [obj EXCEPT ![r] = NoObj]
                  /\ UNCHANGED <<loaded, available>>
             ELSE /\ loaded' = loaded \cup {ty}
                  /\ available' = [available EXCEPT ![ty] = Append(@, r)]
                  /\ UNCHANGED <<failed, obj>>
  /\ op' = [op EXCEPT ![t].pc = "load", ![t].r = NoOne]
  /\ UNCHANGED <<scene, nativeFiles, perlFiles, infoLock, nextId, heap, count, position, perlLock, user>>

\* A search that starts again when there are no files left.
NotFoundAgain(t) ==
  /\ At(t, "load")
  /\ op[t].ty \in loaded => ~op[t].load
  /\ op[t].ty \notin loaded => nativeFiles = <<>> /\ perlFiles = <<>>
  /\ infoLock' = NoOne
  /\ op' = [op EXCEPT ![t].pc = IF op[t].load THEN "want" ELSE "look"]
  /\ UNCHANGED <<scene, poolVars, nextId, perlVars, perlLock, obj, user>>

\* The type is unknown, or the call only asked for it.
NotFound(t) ==
  /\ At(t, "load")
  /\ op[t].ty \in loaded => ~op[t].load
  /\ op[t].ty \notin loaded => nativeFiles = <<>> /\ perlFiles = <<>>
  /\ infoLock' = NoOne
  /\ Done(t)
  /\ UNCHANGED <<scene, poolVars, nextId, perlVars, perlLock, obj, user>>

\* AcquireResource takes the last free resource and gives up infoLock ...
Take(t) ==
  /\ At(t, "load") /\ op[t].load /\ op[t].ty \in loaded /\ available[op[t].ty] # <<>>
  /\ op' = [op EXCEPT ![t].pc = "setid", ![t].r = Last(available[op[t].ty])]
  /\ available' = [available EXCEPT ![op[t].ty] = Front(@)]
  /\ infoLock' = NoOne
  /\ UNCHANGED <<scene, nativeFiles, perlFiles, loaded, nextId, perlVars, perlLock, obj, user>>

\* A resource that is returned with the identifier it has.
SetIdNot(t) ==
  /\ At(t, "setid")
  /\ user' = [user EXCEPT ![op[t].r] = t]
  /\ Done(t)
  /\ UNCHANGED <<scene, poolVars, infoLock, nextId, perlVars, perlLock, obj>>

\* ... and then gives it a new identifier.
SetId(t) ==
  /\ At(t, "setid")
  /\ obj' = [obj EXCEPT ![op[t].r].id = nextId]
  /\ nextId' = NextId(nextId)
  /\ user' = [user EXCEPT ![op[t].r] = t]
  /\ Done(t)
  /\ UNCHANGED <<scene, poolVars, infoLock, perlVars, perlLock>>

\* No resource is free: infoLock is given up and one is made, for a Perl type
\* in an interpreter that is acquired now.
Create(t) ==
  /\ At(t, "load") /\ op[t].load /\ op[t].ty \in loaded /\ available[op[t].ty] = <<>>
  /\ infoLock' = NoOne
  /\ IF op[t].ty \in Native
       THEN /\ New(NewName, op[t].ty, NoOne)
            /\ user' = [user EXCEPT ![NewName] = t]
            /\ Done(t)
            /\ UNCHANGED <<heap, count, position>>
       ELSE /\ AcquirePerl(Chosen)
            /\ New(NewName, op[t].ty, Chosen)
            /\ op' = [op EXCEPT ![t].pc = "init", ![t].r = NewName]
            /\ UNCHANGED user
  /\ UNCHANGED <<scene, poolVars, failed, perlLock>>

\* PerlResource::Init for AcquireResource; when it fails NULL is returned and
\* neither the object nor the interpreter is released.
InitPerl(t) ==
  /\ At(t, "init") /\ PerlFree(t, obj[op[t].r].pi)
  /\ \/ /\ user' = [user EXCEPT ![op[t].r] = t]
        /\ UNCHANGED <<obj, failed>>
     \/ /\ failed' = [failed EXCEPT ![obj[op[t].r].pi] = @ + 1]
        /\ obj' = [obj EXCEPT ![op[t].r] = NoObj]
        /\ UNCHANGED user
  /\ Done(t)
  /\ UNCHANGED <<scene, poolVars, infoLock, nextId, heap, count, position, perlLock>>

(***************************************************************************)
(* Using and releasing resources.                                          *)
(***************************************************************************)
\* Serialize, Deserialize, Skip, GetSize, ToString and the attributes of a
\* PerlResource run Perl code under the lock of its interpreter.
Use(t, r) ==
  /\ At(t, "idle") /\ user[r] = t /\ IsPerl(r) /\ perlLock[obj[r].pi] = NoOne
  /\ perlLock' = [perlLock EXCEPT ![obj[r].pi] = t]
  /\ op' = [op EXCEPT ![t] = [Idle EXCEPT !.pc = "run", !.r = r]]
  /\ UNCHANGED <<scene, poolVars, infoLock, nextId, perlVars, obj, user>>

\* The Perl code reads an attribute by name: GetAttrInfo needs infoLock.
ScriptLooks(t) ==
  /\ At(t, "run") /\ scene.scripts
  /\ Go(t, "attr")
  /\ UNCHANGED <<scene, poolVars, infoLock, nextId, perlVars, perlLock, obj, user>>

ScriptFound(t) ==
  /\ At(t, "attr") /\ infoLock = NoOne
  /\ Go(t, "run")
  /\ UNCHANGED <<scene, poolVars, infoLock, nextId, perlVars, perlLock, obj, user>>

EndUse(t) ==
  /\ At(t, "run")
  /\ perlLock' = [perlLock EXCEPT ![obj[op[t].r].pi] = NoOne]
  /\ Done(t)
  /\ UNCHANGED <<scene, poolVars, infoLock, nextId, perlVars, obj, user>>

\* ResourceRegistry::ReleaseResource begins.
Release(t, r) ==
  /\ At(t, "idle") /\ user[r] = t
  /\ user' = [user EXCEPT ![r] = NoOne]
  /\ op' = [op EXCEPT ![t] = [Idle EXCEPT !.pc = "give", !.r = r]]
  /\ UNCHANGED <<scene, poolVars, infoLock, nextId, perlVars, perlLock, obj>>

\* A release that does not look at the size of the list.
LockGiveAlways(t) ==
  /\ At(t, "give") /\ infoLock = NoOne
  /\ infoLock' = t /\ Go(t, "clear")
  /\ UNCHANGED <<scene, poolVars, nextId, perlVars, perlLock, obj, user>>

\* infoLock is taken; when the list is full it is given up again.
LockGive(t) ==
  /\ At(t, "give") /\ infoLock = NoOne
  /\ IF Len(available[obj[op[t].r].ty]) < scene.available
       THEN infoLock' = t /\ Go(t, "clear")
       ELSE UNCHANGED infoLock /\ Go(t, "drop")
  /\ UNCHANGED <<scene, poolVars, nextId, perlVars, perlLock, obj, user>>

\* A release that gives up infoLock to clear the resource, with its place in
\* the list already taken, and never takes it back.
ClearLate(t) ==
  /\ At(t, "clear")
  /\ IsPerl(op[t].r) => PerlFree(t, obj[op[t].r].pi)
  /\ obj' = [obj EXCEPT ![op[t].r].id = 0]
  /\ available' = [available EXCEPT ![obj[op[t].r].ty] = Append(@, op[t].r)]
  /\ Done(t)
  /\ UNCHANGED <<scene, nativeFiles, perlFiles, loaded, infoLock, nextId, perlVars, perlLock, user>>

\* Resource::Clear, for a PerlResource under the lock of its interpreter and
\* with infoLock held: the identifier is 0 until the resource is taken again.
Clear(t) ==
  /\ At(t, "clear")
  /\ IsPerl(op[t].r) => PerlFree(t, obj[op[t].r].pi)
  /\ obj' = [obj EXCEPT ![op[t].r].id = 0]
  /\ available' = [available EXCEPT ![obj[op[t].r].ty] = Append(@, op[t].r)]
  /\ infoLock' = NoOne
  /\ Done(t)
  /\ UNCHANGED <<scene, nativeFiles, perlFiles, loaded, nextId, perlVars, perlLock, user>>

\* A resource that is deleted while its interpreter stays acquired.
DropOnly(t) ==
  /\ At(t, "drop")
  /\ Go(t, "delete")
  /\ UNCHANGED <<scene, poolVars, infoLock, nextId, perlVars, perlLock, obj, user>>

\* The list is full: the interpreter is released ...
Drop(t) ==
  /\ At(t, "drop")
  /\ IF IsPerl(op[t].r)
       THEN ReleasePerl(obj[op[t].r].pi)
       ELSE UNCHANGED <<heap, count, position>>
  /\ Go(t, "delete")
  /\ UNCHANGED <<scene, poolVars, infoLock, nextId, failed, perlLock, obj, user>>

\* ... and the resource deleted, a PerlResource under the lock of its interpreter.
Delete(t) ==
  /\ At(t, "delete")
  /\ IsPerl(op[t].r) => PerlFree(t, obj[op[t].r].pi)
  /\ obj' = [obj EXCEPT ![op[t].r] = NoObj]
  /\ Done(t)
  /\ UNCHANGED <<scene, poolVars, infoLock, nextId, perlVars, perlLock, user>>

Step(t) ==
  \/ LockInfo(t) \/ LoadNative(t) \/ LoadPerl(t) \/ LoadNoPerl(t) \/ LoadInit(t) \/ NotFound(t)
  \/ Take(t) \/ SetId(t) \/ Create(t) \/ InitPerl(t)
  \/ ScriptFound(t) \/ LockGive(t) \/ Clear(t) \/ Drop(t) \/ Delete(t)

Next ==
  \E t \in Thread :
    \/ Call(t) \/ Step(t) \/ ScriptLooks(t) \/ EndUse(t)
    \/ \E r \in Res : Use(t, r) \/ Release(t, r)

Spec == Init /\ [][Next]_vars

\* Threads go on when they can, Perl code ends, and a thread that waits for a
\* lock gets it if it is free again and again.
Fairness == \A t \in Thread : SF_vars(Step(t)) /\ SF_vars(EndUse(t))

FairSpec == Spec /\ Fairness
----------------------------------------------------------------------------
\* Where a thread is in a call.
PCs ==
  {"idle", "want", "look", "load", "loadinit", "setid", "init", "run", "attr",
   "give", "clear", "drop", "delete"}

\* The state is well formed.
TypeOK ==
  /\ scene \in Scenes /\ nextId \in Nat
  /\ loaded \subseteq Type /\ available \in [Type -> Seq(Res)]
  /\ infoLock \in Thread \cup {NoOne}
  /\ heap \in Seq(Interp) /\ count \in [Interp -> Nat] /\ position \in [Interp -> Nat]
  /\ failed \in [Interp -> Nat]
  /\ perlLock \in [Interp -> Thread \cup {NoOne}]
  /\ obj \in [Res -> [ty : Type \cup {NoOne}, id : Nat, pi : Interp \cup {NoOne}]]
  /\ user \in [Res -> Thread \cup {NoOne}]
  /\ op \in [Thread -> [pc : PCs, ty : Type \cup {NoOne}, r : Res \cup {NoOne}, load : BOOLEAN]]

\* Every interpreter knows its place, and the heap is ordered: AcquirePerl and
\* ReleasePerl change one count and find the interpreter by its place, so one
\* place that is wrong makes them reorder another one.
HeapOrdered ==
  /\ \A k \in DOMAIN heap : position[heap[k]] = k - 1
  /\ \A k \in DOMAIN heap : k > 1 => count[heap[k]] <= count[heap[k \div 2]]

\* The resources that live in an interpreter, until ReleasePerl.
Tenants(i) ==
  {r \in Res : obj[r].pi = i /\ ~\E t \in Thread : At(t, "delete") /\ op[t].r = r}

\* The count of an interpreter is the number of resources that live in it and
\* of those that could not be initialised, which are never given back.
CountExact ==
  \A i \in Interp : count[i] = Cardinality(Tenants(i)) + failed[i]

\* A resource has one user or is in one list of free resources once; a list
\* does not exceed its capacity.
OneHolder ==
  /\ \A ty \in Type :
       /\ IsInjective(available[ty])
       /\ \A r \in Range(available[ty]) : user[r] = NoOne /\ obj[r].ty = ty
       /\ Len(available[ty]) <= scene.available
  /\ \A t \in Thread : op[t].r # NoOne => \A ty \in Type : op[t].r \notin Range(available[ty])

\* Resources in use have different identifiers, none is that of a cleared
\* resource: results are told apart by identifier.
IdsDistinct ==
  \A r, s \in {x \in Res : user[x] # NoOne} :
    obj[r].id # 0 /\ (r # s => obj[r].id # obj[s].id)

WaitsPerl(t) ==
  /\ op[t].pc \in {"loadinit", "init", "clear", "delete"}
  /\ obj[op[t].r].pi # NoOne /\ ~PerlFree(t, obj[op[t].r].pi)
WaitsInfo(t) == op[t].pc \in {"want", "look", "give", "attr"} /\ infoLock # NoOne

\* When the threads that are in a call wait for each other, Perl code waits for
\* infoLock with an interpreter locked, and the thread that has infoLock waits
\* for that interpreter to load or to clear a resource.
DeadlockIsScript ==
  LET busy == {t \in Thread : ~At(t, "idle")} IN
  busy # {} /\ (\A t \in busy : WaitsPerl(t) \/ WaitsInfo(t)) =>
    \E t, u \in busy :
      /\ At(t, "attr") /\ infoLock = u
      /\ op[u].pc \in {"loadinit", "clear"} /\ perlLock[obj[op[u].r].pi] = t

\* Every call returns, if Perl code does not call the registry.
CallsReturn ==
  ~scene.scripts => \A t \in Thread : ~At(t, "idle") ~> At(t, "idle")

\* PerlInterpreters: the heap is ordered by counts that are exact.
HeapExact == TypeOK /\ HeapOrdered /\ CountExact

\* ResourceRegistry: a resource has one holder, and an identifier of its own.
HeldOnce == OneHolder /\ IdsDistinct

\* Calls end, and where they do not it is for Perl code that calls the registry.
CallsEnd == []DeadlockIsScript /\ CallsReturn

============================================================================
