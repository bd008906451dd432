------------------------- MODULE ResourcePoolProofs -------------------------
(***************************************************************************)
(* Proofs about ResourceRegistry and PerlInterpreters, for any number of   *)
(* threads, types, resources and interpreters, any capacity of the lists   *)
(* and any files.  The resources come first, with what the heap of         *)
(* interpreters chooses left open; then the heap, from its walks up and    *)
(* down to the counts.                                                     *)
(***************************************************************************)
EXTENDS ResourcePool, FiniteSetTheorems, WellFoundedInduction, TLAPS

(***************************************************************************)
(* Types, without those of the heap and of the interpreters.               *)
(***************************************************************************)
Seeking == {"want", "look", "load", "loadinit"}
Running == {"run", "attr"}
Keeping == {"loadinit", "setid", "init", "give", "clear", "drop", "delete"}
Steps == Seeking \cup Running \cup Keeping \cup {"idle"}

Record == [pc : Steps, ty : Type \cup {NoOne}, r : Res \cup {NoOne}, load : BOOLEAN]
Object(P) == [ty : Type \cup {NoOne}, id : Nat, pi : P]

ObjShape == \E P : obj \in [Res -> Object(P)]

OpShape ==
  /\ op \in [Thread -> Record]
  /\ \A t \in Thread : /\ op[t].pc \in Seeking => op[t].ty \in Type
                       /\ op[t].r # NoOne <=> op[t].pc \in Running \cup Keeping

Shape ==
  /\ scene \in Scenes
  /\ nativeFiles \in Seq(Native \cup {NoOne}) /\ perlFiles \in Seq(PerlType \cup {NoOne})
  /\ nextId \in Nat \ {0}
  /\ loaded \subseteq Type /\ available \in [Type -> Seq(Res)]
  /\ infoLock \in Thread \cup {NoOne}
  /\ user \in [Res -> Thread \cup {NoOne}]
  /\ ObjShape /\ OpShape

LEMMA ShapeInit == Init => Shape
<1> SUFFICES ASSUME Init PROVE Shape
  OBVIOUS
<1>1. /\ scene \in Scenes /\ nativeFiles \in Seq(Native \cup {NoOne})
      /\ perlFiles \in Seq(PerlType \cup {NoOne})
  BY PoolAssumption DEF Init, SceneOK
<1>2. ObjShape
  <2>1. obj \in [Res -> Object({NoOne})]
    BY DEF Init, Object, NoObj
  <2>2. QED
    BY <2>1 DEF ObjShape
<1>3. OpShape
  <2>1. op \in [Thread -> Record]
    BY DEF Init, Record, Idle, Steps
  <2>2. QED
    BY <2>1 DEF Init, OpShape, Idle, Seeking, Running, Keeping
<1>4. QED
  BY <1>1, <1>2, <1>3 DEF Init, Shape

(***************************************************************************)
(* While threads look for a type there is a name for every resource that   *)
(* they may have to make: one for each of them and one for every file left.*)
(***************************************************************************)
Seekers == {t \in Thread : op[t].pc \in Seeking}
Names ==
  Seekers # {} =>
    Cardinality(Unused) >= Cardinality(Seekers) + Len(nativeFiles) + Len(perlFiles)

LEMMA Sizes ==
  ASSUME Shape
  PROVE  /\ IsFiniteSet(Unused) /\ Cardinality(Unused) \in Nat
         /\ IsFiniteSet(Seekers) /\ Cardinality(Seekers) \in Nat
         /\ Len(nativeFiles) \in Nat /\ Len(perlFiles) \in Nat
<1>1. IsFiniteSet(Unused) /\ IsFiniteSet(Seekers)
  BY PoolAssumption, FS_Subset DEF Unused, Seekers
<1>2. QED
  BY <1>1, FS_CardinalityType DEF Shape

LEMMA NewNameUnused ==
  ASSUME Shape, Names, NEW t \in Thread, op[t].pc \in Seeking
  PROVE  NewName \in Unused /\ NewName \in Res /\ obj[NewName] = NoObj
<1>1. Cardinality(Seekers) # 0 /\ Seekers # {}
  BY Sizes, FS_EmptySet DEF Seekers
<1>2. Unused # {}
  BY <1>1, Sizes, FS_EmptySet DEF Names
<1>3. QED
  BY <1>2 DEF NewName, Unused

(***************************************************************************)
(* What a step of thread t does, on the resources it concerns: what        *)
(* obj, user and the lists say of them, and what the thread keeps.         *)
(***************************************************************************)
Others(t) == \A u \in Thread \ {t} : op'[u] = op[u]
Steady == UNCHANGED <<available, nextId, obj, user>>

\* The resource n is made, of type ty.
Made(n, ty) ==
  /\ n \in Unused /\ obj'[n].ty = ty /\ obj'[n].id = nextId
  /\ \A s \in Res \ {n} : obj'[s] = obj[s]
  /\ nextId' = nextId + 1

\* The thread keeps the resource it kept, if any.
Walks(t) ==
  /\ op'[t].r = op[t].r /\ Steady
  /\ op[t].pc \in Running <=> op'[t].pc \in Running
  /\ op[t].pc # "loadinit" /\ op'[t].pc \notin {"loadinit", "init", "setid"}
Uses(t, r) ==
  /\ op[t].pc = "idle" /\ user[r] = t /\ op'[t].pc = "run" /\ op'[t].r = r /\ Steady
Ends(t) ==
  /\ op[t].pc \in Running /\ op'[t].pc = "idle" /\ op'[t].r = NoOne /\ Steady
Releases(t, r) ==
  /\ op[t].pc = "idle" /\ user[r] = t /\ op'[t].pc = "give" /\ op'[t].r = r
  /\ user' = [user EXCEPT ![r] = NoOne]
  /\ UNCHANGED <<available, nextId, obj>>
Lists(t, n, ty) ==
  /\ Made(n, ty) /\ ty \in Type /\ op[t].pc = "load" /\ op'[t] = op[t]
  /\ available' = [available EXCEPT ![ty] = Append(@, n)]
  /\ UNCHANGED user
Makes(t, n, ty) ==
  /\ Made(n, ty) /\ op[t].pc = "load"
  /\ op'[t].pc = "loadinit" \/ (op'[t].pc = "init" /\ ty \in Type)
  /\ op'[t].r = n /\ UNCHANGED <<available, user>>
Gives(t, n, ty) ==
  /\ Made(n, ty) /\ ty \in Type /\ op[t].pc = "load"
  /\ op'[t].pc = "idle" /\ op'[t].r = NoOne
  /\ user' = [user EXCEPT ![n] = t] /\ UNCHANGED available
Discards(t) ==
  /\ op[t].pc \in Keeping /\ op'[t].pc \in {"idle", "load"} /\ op'[t].r = NoOne
  /\ obj' = [obj EXCEPT ![op[t].r] = NoObj]
  /\ UNCHANGED <<available, nextId, user>>
Shelves(t, ty) ==
  /\ op[t].pc \in {"loadinit", "clear"} /\ op'[t].pc \in {"idle", "load"} /\ op'[t].r = NoOne
  /\ ty = obj[op[t].r].ty /\ ty \in Type
  /\ available' = [available EXCEPT ![ty] = Append(@, op[t].r)]
  /\ obj'[op[t].r].ty = ty /\ obj'[op[t].r].id \in {0, obj[op[t].r].id}
  /\ \A s \in Res \ {op[t].r} : obj'[s] = obj[s]
  /\ UNCHANGED <<nextId, user>>
Takes(t, ty) ==
  /\ op[t].pc = "load" /\ ty \in Type /\ available[ty] # <<>>
  /\ op'[t].pc = "setid" /\ op'[t].r = Last(available[ty])
  /\ available' = [available EXCEPT ![ty] = Front(@)]
  /\ UNCHANGED <<nextId, obj, user>>
Receives(t) ==
  /\ op[t].pc \in {"setid", "init"} /\ op'[t].pc = "idle" /\ op'[t].r = NoOne
  /\ user' = [user EXCEPT ![op[t].r] = t]
  /\ obj'[op[t].r].ty = obj[op[t].r].ty
  /\ \/ op[t].pc = "setid" /\ obj'[op[t].r].id = nextId /\ nextId' = nextId + 1
     \/ op[t].pc = "init" /\ obj'[op[t].r].id = obj[op[t].r].id /\ UNCHANGED nextId
  /\ \A s \in Res \ {op[t].r} : obj'[s] = obj[s]
  /\ UNCHANGED available

(***************************************************************************)
(* A resource that has been made is used by a thread, on one of the lists, *)
(* once, or kept by a thread that is making or releasing it.               *)
(***************************************************************************)
Has(s, x) == \E k \in 1..Len(s) : s[k] = x
Distinct(s) == \A j, k \in 1..Len(s) : s[j] = s[k] => j = k

Keeps(u) == op[u].pc \in Keeping
Runs(u) == op[u].pc \in Running
Loads(u) == op[u].pc = "loadinit"

PlaceOK(r) ==
  /\ obj[r] = NoObj => /\ user[r] = NoOne
                       /\ \A ty \in Type : ~Has(available[ty], r)
                       /\ \A u \in Thread : op[u].r # r
  /\ user[r] # NoOne => /\ obj[r].ty \in Type
                        /\ \A ty \in Type : ~Has(available[ty], r)
  /\ \A ty \in Type : Has(available[ty], r) =>
       obj[r].ty = ty /\ \A u \in Thread : op[u].r # r
  /\ \A u, v \in Thread : op[u].r = r /\ op[v].r = r => u = v

KeepOK(u) ==
  /\ Runs(u) => user[op[u].r] = u
  /\ Keeps(u) => user[op[u].r] = NoOne
  /\ Keeps(u) /\ ~Loads(u) => obj[op[u].r].ty \in Type

Single ==
  /\ \A ty \in Type : Distinct(available[ty])
  /\ \A r \in Res : PlaceOK(r)
  /\ \A u \in Thread : KeepOK(u)

\* A thread that keeps a resource keeps one that exists.
LEMMA Kept ==
  ASSUME Shape, NEW t \in Thread, op[t].pc \in Running \cup Keeping
  PROVE  op[t].r \in Res
BY DEF Shape, OpShape, Record

LEMMA MadeBy ==
  ASSUME Shape, Names, NEW t \in Thread, op[t].pc \in Seeking,
         NEW ty \in Type \cup {NoOne}, NEW pi, New(NewName, ty, pi)
  PROVE  /\ Made(NewName, ty) /\ NewName \in Res
         /\ ObjShape'
<1>1. PICK P : obj \in [Res -> Object(P)]
  BY DEF Shape, ObjShape
<1>2. NewName \in Res /\ NewName \in Unused
  BY NewNameUnused
<1>3. obj' \in [Res -> Object(P \cup {pi})]
  BY <1>1, <1>2 DEF New, Object, Shape
<1>4. Made(NewName, ty)
  BY <1>1, <1>2 DEF Made, New, NextId
<1>5. QED
  BY <1>2, <1>3, <1>4 DEF ObjShape

Effect(t) ==
  /\ Others(t)
  /\ \/ Walks(t) \/ Ends(t) \/ Discards(t) \/ Receives(t)
     \/ \E r \in Res : Uses(t, r) \/ Releases(t, r)
     \/ \E n \in Res, ty \in Type \cup {NoOne} :
          Lists(t, n, ty) \/ Makes(t, n, ty) \/ Gives(t, n, ty)
     \/ \E ty \in Type : Shelves(t, ty) \/ Takes(t, ty)

\* The variables of the other threads, and the shape of the record of one.
Moves(t, pc, r) ==
  /\ Others(t) /\ OpShape' /\ op'[t].pc = pc /\ op'[t].r = r /\ op'[t].ty \in Type \cup {NoOne}

\* The ways in which the actions set the record of a thread.
LEMMA Records ==
  ASSUME Shape, NEW t \in Thread
  PROVE  /\ Done(t) => Moves(t, "idle", NoOne)
         /\ \A pc \in Steps :
              /\ Go(t, pc)
              /\ pc \in Seeking => op[t].pc \in Seeking
              /\ pc \in Running \cup Keeping <=> op[t].pc \in Running \cup Keeping
              => Moves(t, pc, op[t].r)
         /\ \A pc \in Steps, r \in Res \cup {NoOne} :
              /\ op' = [op EXCEPT ![t].pc = pc, ![t].r = r]
              /\ pc \in Seeking => op[t].pc \in Seeking
              /\ pc \in Running \cup Keeping <=> r # NoOne
              => Moves(t, pc, r)
         /\ \A pc \in (Running \cup Keeping) \ {"loadinit"}, r \in Res :
              op' = [op EXCEPT ![t] = [Idle EXCEPT !.pc = pc, !.r = r]] => Moves(t, pc, r)
<1> USE PoolAssumption DEF Shape, OpShape, Record, Others, Moves
<1>1. Done(t) => Moves(t, "idle", NoOne)
  BY DEF Done, Idle, Steps, Seeking, Running, Keeping
<1>2. ASSUME NEW pc \in Steps, Go(t, pc), pc \in Seeking => op[t].pc \in Seeking,
             pc \in Running \cup Keeping <=> op[t].pc \in Running \cup Keeping
      PROVE  Moves(t, pc, op[t].r)
  BY <1>2, ZenonT(40) DEF Go
<1>3. ASSUME NEW pc \in Steps, NEW r \in Res \cup {NoOne},
             op' = [op EXCEPT ![t].pc = pc, ![t].r = r],
             pc \in Seeking => op[t].pc \in Seeking,
             pc \in Running \cup Keeping <=> r # NoOne
      PROVE  Moves(t, pc, r)
  BY <1>3, ZenonT(40)
<1>4. ASSUME NEW pc \in (Running \cup Keeping) \ {"loadinit"}, NEW r \in Res,
             op' = [op EXCEPT ![t] = [Idle EXCEPT !.pc = pc, !.r = r]]
      PROVE  Moves(t, pc, r)
  BY <1>4 DEF Idle, Steps, Seeking, Running, Keeping
<1>5. QED
  BY <1>1, <1>2, <1>3, <1>4

\* The steps that move a thread on and no resource.
LEMMA WalkEffects ==
  ASSUME Shape, NEW t \in Thread,
         \/ Call(t) \/ LockInfo(t) \/ LoadNoPerl(t) \/ NotFound(t) \/ ScriptLooks(t)
         \/ ScriptFound(t) \/ LockGive(t) \/ Drop(t)
  PROVE  Shape' /\ Others(t) /\ Walks(t)
<1> USE DEF At, Steps, Seeking, Running, Keeping
<1>0. UNCHANGED obj => ObjShape'
  BY DEF Shape, ObjShape
<1>1. ASSUME NEW pc, Moves(t, pc, op[t].r), Steady, UNCHANGED <<scene, loaded>>,
             nativeFiles' \in {nativeFiles, <<>>}, perlFiles' \in {perlFiles, <<>>},
             infoLock' \in {infoLock, t, NoOne},
             op[t].pc \in Running <=> pc \in Running,
             op[t].pc # "loadinit", pc \notin {"loadinit", "init", "setid"}
      PROVE  Shape' /\ Others(t) /\ Walks(t)
  <2>1. ObjShape' /\ OpShape' /\ Others(t)
    <3>1. UNCHANGED obj
      BY <1>1 DEF Steady
    <3>2. QED
      BY <1>0, <1>1, <3>1 DEF Moves
  <2>2. nativeFiles' \in Seq(Native \cup {NoOne}) /\ perlFiles' \in Seq(PerlType \cup {NoOne})
    <3>1. <<>> \in Seq(Native \cup {NoOne}) /\ <<>> \in Seq(PerlType \cup {NoOne})
      OBVIOUS
    <3>2. nativeFiles \in Seq(Native \cup {NoOne}) /\ perlFiles \in Seq(PerlType \cup {NoOne})
      BY DEF Shape
    <3> HIDE DEF Seeking, Running, Keeping, Steps
    <3>3. QED
      BY <1>1, <3>1, <3>2
  <2>3. Shape'
    BY <1>1, <2>1, <2>2 DEF Shape, Steady
  <2>4. Walks(t)
    BY <1>1 DEF Moves, Walks
  <2>5. QED
    BY <2>1, <2>3, <2>4
<1> USE DEF poolVars, Steady
<1>2. CASE Call(t)
  <2>1. PICK ty \in Type, pc \in {"want", "look"} :
          op' = [op EXCEPT ![t] = [Idle EXCEPT !.pc = pc, !.ty = ty]]
    BY <1>2 DEF Call
  <2>2. op[t].r = NoOne
    BY <1>2 DEF Call, Shape, OpShape
  <2>3. Moves(t, pc, op[t].r)
    BY <2>1, <2>2, PoolAssumption DEF Shape, OpShape, Record, Others, Moves, Idle
  <2>4. QED
    BY <1>1, <1>2, <2>3 DEF Call
<1>3. CASE LockInfo(t)
  <2>0. op[t].pc \in {"want", "look"} /\ op \in [Thread -> Record]
        /\ op' = [op EXCEPT ![t].load = (op[t].pc = "want"), ![t].pc = "load"]
    BY <1>3 DEF LockInfo, Shape, OpShape
  <2>1a. /\ op' \in [Thread -> Record] /\ Others(t)
         /\ op'[t].pc = "load" /\ op'[t].r = op[t].r /\ op'[t].ty = op[t].ty
    BY <2>0 DEF Record, Others
  <2>1. Moves(t, "load", op[t].r)
    BY <2>0, <2>1a DEF Shape, OpShape, Record, Others, Moves
  <2>2. QED
    BY <1>1, <1>3, <2>1 DEF LockInfo
<1>4. CASE LoadNoPerl(t)
  <2>1. Moves(t, "load", op[t].r)
    BY <1>4 DEF LoadNoPerl, Shape, OpShape, Record, Others, Moves
  <2>2. QED
    BY <1>1, <1>4, <2>1 DEF LoadNoPerl
<1>5. CASE NotFound(t)
  <2>1. op[t].r = NoOne
    BY <1>5, Zenon DEF NotFound, Shape, OpShape
  <2>2. Moves(t, "idle", op[t].r)
    BY <1>5, <2>1, Records, Zenon DEF NotFound
  <2>3. QED
    BY <1>1, <1>5, <2>2 DEF NotFound
<1>6. CASE ScriptLooks(t)
  <2>1. Moves(t, "attr", op[t].r)
    BY <1>6, Records, Zenon DEF ScriptLooks
  <2>2. QED
    BY <1>1, <1>6, <2>1 DEF ScriptLooks
<1>7. CASE ScriptFound(t)
  <2>1. Moves(t, "run", op[t].r)
    BY <1>7, Records, Zenon DEF ScriptFound
  <2>2. QED
    BY <1>1, <1>7, <2>1 DEF ScriptFound
<1>8. CASE LockGive(t)
  <2>1. Go(t, "clear") => Moves(t, "clear", op[t].r)
    BY <1>8, Records, Zenon DEF LockGive
  <2>2. Go(t, "drop") => Moves(t, "drop", op[t].r)
    BY <1>8, Records, Zenon DEF LockGive
  <2>3. QED
    BY <1>1, <1>8, <2>1, <2>2 DEF LockGive
<1>9. CASE Drop(t)
  <2>1. Moves(t, "delete", op[t].r)
    BY <1>9, Records, Zenon DEF Drop
  <2>2. QED
    BY <1>1, <1>9, <2>1 DEF Drop
<1>10. QED
  BY <1>2, <1>3, <1>4, <1>5, <1>6, <1>7, <1>8, <1>9

\* The steps that use and release resources.
LEMMA UseEffects ==
  ASSUME Shape, Single, NEW t \in Thread
  PROVE  /\ EndUse(t) => Shape' /\ Others(t) /\ Ends(t)
         /\ \A r \in Res : /\ Use(t, r) => Shape' /\ Others(t) /\ Uses(t, r)
                           /\ Release(t, r) => Shape' /\ Others(t) /\ Releases(t, r)
<1> USE DEF At, poolVars
<1>0. UNCHANGED obj => ObjShape'
  BY DEF Shape, ObjShape
<1>1. ASSUME EndUse(t) PROVE Shape' /\ Others(t) /\ Ends(t)
  <2>1. Moves(t, "idle", NoOne)
    BY <1>1, Records DEF EndUse
  <2>2. QED
    BY <1>0, <1>1, <2>1 DEF EndUse, Moves, Shape, Ends, Steady, Running
<1>2. ASSUME NEW r \in Res, Use(t, r) PROVE Shape' /\ Others(t) /\ Uses(t, r)
  <2>1. Moves(t, "run", r)
    BY <1>2, Records DEF Use, Running, Keeping
  <2>2. QED
    BY <1>0, <1>2, <2>1 DEF Use, Moves, Shape, Uses, Steady
<1>3. ASSUME NEW r \in Res, Release(t, r) PROVE Shape' /\ Others(t) /\ Releases(t, r)
  <2>1. Moves(t, "give", r)
    BY <1>3, Records DEF Release, Running, Keeping
  <2>2. QED
    BY <1>0, <1>3, <2>1 DEF Release, Moves, Shape, Releases
<1>4. QED
  BY <1>1, <1>2, <1>3

LEMMA ListGrows ==
  ASSUME Shape, NEW ty \in Type, NEW r \in Res
  PROVE  [available EXCEPT ![ty] = Append(@, r)] \in [Type -> Seq(Res)]
<1>1. Append(available[ty], r) \in Seq(Res)
  BY DEF Shape
<1>2. QED
  BY <1>1 DEF Shape

\* The steps that make resources.
LEMMA MakeEffects ==
  ASSUME Shape, Names, NEW t \in Thread, LoadNative(t) \/ LoadPerl(t) \/ Create(t)
  PROVE  Shape' /\ Effect(t)
<1> USE DEF At, poolVars
<1>0. op[t].pc = "load" /\ op[t].pc \in Seeking /\ op[t].ty \in Type
      /\ OpShape /\ op[t].r = NoOne
      /\ (UNCHANGED op => Others(t) /\ OpShape')
  BY DEF LoadNative, LoadPerl, Create, Seeking, Running, Keeping, Shape, OpShape, Others
<1>1. CASE LoadNative(t)
  <2> DEFINE ty == Head(nativeFiles)
  <2>1. /\ ty \in Native \cup {NoOne} /\ nativeFiles' \in Seq(Native \cup {NoOne})
    BY <1>1 DEF LoadNative, Shape
  <2>2. CASE ty = NoOne
    <3>1. UNCHANGED <<loaded, available, obj, nextId>>
      BY <1>1, <2>2 DEF LoadNative
    <3>2. ObjShape'
      BY <3>1 DEF Shape, ObjShape
    <3>3. Shape'
      BY <1>0, <1>1, <2>1, <3>1, <3>2 DEF LoadNative, Shape
    <3>4. Walks(t)
      BY <1>0, <1>1, <3>1 DEF LoadNative, Walks, Steady
    <3>5. QED
      BY <1>0, <1>1, <3>3, <3>4 DEF LoadNative, Effect
  <2>3. CASE ty # NoOne
    <3>1. /\ ty \in Type /\ New(NewName, ty, NoOne) /\ loaded' = loaded \cup {ty}
          /\ available' = [available EXCEPT ![ty] = Append(@, NewName)]
      BY <1>1, <2>1, <2>3 DEF LoadNative, Type
    <3>2. Made(NewName, ty) /\ NewName \in Res /\ ObjShape'
      BY <1>0, <3>1, MadeBy
    <3>3. available' \in [Type -> Seq(Res)]
      BY <3>1, <3>2, ListGrows
    <3>4. Shape'
      <4>1. nextId' \in Nat \ {0}
        BY <3>2 DEF Made, Shape
      <4>2. QED
        BY <1>0, <1>1, <2>1, <3>1, <3>2, <3>3, <4>1 DEF LoadNative, Shape
    <3>5. Lists(t, NewName, ty)
      BY <1>0, <1>1, <3>1, <3>2 DEF LoadNative, Lists
    <3>6. QED
      BY <1>0, <1>1, <3>1, <3>2, <3>4, <3>5 DEF LoadNative, Effect
  <2>4. QED
    BY <2>2, <2>3
<1>2. CASE LoadPerl(t)
  <2> DEFINE ty == Head(perlFiles)
  <2>1. /\ ty \in Type \cup {NoOne} /\ perlFiles' \in Seq(PerlType \cup {NoOne})
    BY <1>2 DEF LoadPerl, Shape, Type
  <2>2. Made(NewName, ty) /\ NewName \in Res /\ ObjShape'
    BY <1>0, <1>2, <2>1, MadeBy DEF LoadPerl
  <2>3. Moves(t, "loadinit", NewName)
    BY <1>0, <1>2, <2>2, Records, PoolAssumption DEF LoadPerl, Steps, Seeking, Keeping
  <2>4. nextId' \in Nat \ {0}
    BY <2>2 DEF Made, Shape
  <2>5. Shape'
    BY <1>2, <2>1, <2>2, <2>3, <2>4 DEF LoadPerl, Shape, Moves
  <2>6. Makes(t, NewName, ty)
    BY <1>0, <1>2, <2>2, <2>3 DEF LoadPerl, Makes, Moves
  <2>7. QED
    BY <2>1, <2>2, <2>3, <2>5, <2>6 DEF Effect, Moves
<1>3. CASE Create(t) /\ op[t].ty \in Native
  <2> DEFINE ty == op[t].ty
  <2>1. /\ New(NewName, ty, NoOne) /\ Done(t)
        /\ user' = [user EXCEPT ![NewName] = t]
        /\ UNCHANGED <<scene, nativeFiles, perlFiles, loaded, available>> /\ infoLock' = NoOne
    BY <1>3 DEF Create
  <2>2. Made(NewName, ty) /\ NewName \in Res /\ ObjShape'
    BY <1>0, <2>1, MadeBy
  <2>3. Moves(t, "idle", NoOne)
    BY <2>1, Records
  <2>4. nextId' \in Nat \ {0}
    BY <2>2 DEF Made, Shape
  <2>5. Shape'
    BY <2>1, <2>2, <2>3, <2>4 DEF Shape, Moves
  <2>6. Gives(t, NewName, ty)
    BY <1>0, <2>1, <2>2, <2>3 DEF Gives, Moves
  <2>7. QED
    BY <1>0, <2>2, <2>3, <2>5, <2>6 DEF Effect, Moves
<1>4. CASE Create(t) /\ op[t].ty \notin Native
  <2> DEFINE ty == op[t].ty
  <2>1. /\ New(NewName, ty, Chosen) /\ op' = [op EXCEPT ![t].pc = "init", ![t].r = NewName]
        /\ UNCHANGED <<scene, nativeFiles, perlFiles, loaded, available, user>>
        /\ infoLock' = NoOne
    BY <1>4 DEF Create
  <2>2. Made(NewName, ty) /\ NewName \in Res /\ ObjShape'
    BY <1>0, <2>1, MadeBy
  <2>3. Moves(t, "init", NewName)
    BY <1>0, <2>1, <2>2, Records, PoolAssumption DEF Steps, Seeking, Keeping
  <2>4. nextId' \in Nat \ {0}
    BY <2>2 DEF Made, Shape
  <2>5. Shape'
    BY <2>1, <2>2, <2>3, <2>4 DEF Shape, Moves
  <2>6. Makes(t, NewName, ty)
    BY <1>0, <2>1, <2>2, <2>3 DEF Makes, Moves
  <2>7. QED
    BY <1>0, <2>2, <2>3, <2>5, <2>6 DEF Effect, Moves
<1>5. QED
  BY <1>1, <1>2, <1>3, <1>4

LEMMA DiscardShape ==
  ASSUME Shape, NEW r \in Res, obj' = [obj EXCEPT ![r] = NoObj]
  PROVE  ObjShape'
<1>1. PICK P : obj \in [Res -> Object(P)]
  BY DEF Shape, ObjShape
<1>2. obj' \in [Res -> Object(P \cup {NoOne})]
  BY <1>1 DEF Object, NoObj
<1>3. QED
  BY <1>2 DEF ObjShape

LEMMA RenumberShape ==
  ASSUME Shape, NEW r \in Res, NEW n \in Nat, obj' = [obj EXCEPT ![r].id = n]
  PROVE  /\ ObjShape'
         /\ obj'[r].ty = obj[r].ty /\ obj'[r].id = n
         /\ \A s \in Res \ {r} : obj'[s] = obj[s]
<1>1. PICK P : obj \in [Res -> Object(P)]
  BY DEF Shape, ObjShape
<1>2. obj' \in [Res -> Object(P)]
  BY <1>1 DEF Object
<1>3. ObjShape'
  BY <1>2 DEF ObjShape
<1>4. QED
  BY <1>1, <1>3 DEF Object

\* The steps of a thread that keeps a resource, and the one that takes one
\* from a list.
LEMMA KeepEffects ==
  ASSUME Shape, Single, NEW t \in Thread,
         LoadInit(t) \/ SetId(t) \/ InitPerl(t) \/ Clear(t) \/ Delete(t) \/ Take(t)
  PROVE  Shape' /\ Effect(t)
<1> USE DEF At, poolVars
<1>0. /\ OpShape
      /\ op[t].pc \in Keeping => op[t].r \in Res
      /\ op[t].pc \in Keeping \ {"loadinit"} => obj[op[t].r].ty \in Type
  BY Kept DEF Shape, Single, KeepOK, Keeps, Loads
<1>1. UNCHANGED obj => ObjShape'
  BY DEF Shape, ObjShape
<1>2. CASE LoadInit(t)
  <2> DEFINE r == op[t].r
             ty == obj[r].ty
  <2>1. /\ op[t].pc = "loadinit" /\ r \in Res /\ ty \in Type \cup {NoOne}
        /\ UNCHANGED <<scene, nativeFiles, perlFiles, infoLock, nextId, user>>
    BY <1>0, <1>2, Zenon DEF LoadInit, Keeping, Shape, ObjShape, Object
  <2>2. Moves(t, "load", NoOne)
    BY <1>2, <2>1, Records, Zenon DEF LoadInit, Steps, Seeking, Running, Keeping
  <2>3. CASE ty = NoOne
    <3>1. obj' = [obj EXCEPT ![r] = NoObj] /\ UNCHANGED <<loaded, available>>
      BY <1>2, <2>3 DEF LoadInit
    <3>2. ObjShape'
      BY <2>1, <3>1, DiscardShape
    <3>3. Shape'
      BY <2>1, <2>2, <3>1, <3>2 DEF Shape, Moves
    <3>4. Discards(t)
      BY <2>1, <2>2, <3>1 DEF Discards, Moves, Keeping
    <3>5. QED
      BY <2>2, <3>3, <3>4 DEF Effect, Moves
  <2>4. CASE ty # NoOne
    <3>1. /\ UNCHANGED obj /\ loaded' = loaded \cup {ty} /\ ty \in Type
          /\ available' = [available EXCEPT ![ty] = Append(@, r)]
      BY <1>2, <2>1, <2>4, Zenon DEF LoadInit
    <3>2. available' \in [Type -> Seq(Res)]
      BY <2>1, <3>1, ListGrows
    <3>3. Shape'
      BY <1>1, <2>1, <2>2, <3>1, <3>2 DEF Shape, Moves
    <3>4. Shelves(t, ty)
      BY <2>1, <2>2, <3>1 DEF Shelves, Moves
    <3>5. QED
      BY <2>2, <3>1, <3>3, <3>4 DEF Effect, Moves
  <2>5. QED
    BY <2>3, <2>4
<1>3. CASE SetId(t)
  <2> DEFINE r == op[t].r
  <2>1. /\ op[t].pc = "setid" /\ r \in Res /\ nextId \in Nat
        /\ obj' = [obj EXCEPT ![r].id = nextId] /\ nextId' = nextId + 1
        /\ user' = [user EXCEPT ![r] = t] /\ Done(t)
        /\ UNCHANGED <<scene, nativeFiles, perlFiles, loaded, available, infoLock>>
    BY <1>0, <1>3 DEF SetId, NextId, Keeping, Shape
  <2>2. Moves(t, "idle", NoOne)
    BY <2>1, Records
  <2>3. /\ ObjShape' /\ obj'[r].ty = obj[r].ty /\ obj'[r].id = nextId
        /\ \A s \in Res \ {r} : obj'[s] = obj[s]
    BY <2>1, RenumberShape
  <2>4. Shape'
    <3>1. nextId' \in Nat \ {0}
      BY <2>1
    <3>2. QED
      BY <2>1, <2>2, <2>3, <3>1 DEF Shape, Moves
  <2>5. Receives(t)
    BY <2>1, <2>2, <2>3 DEF Receives, Moves
  <2>6. QED
    BY <2>2, <2>4, <2>5 DEF Effect, Moves
<1>4. CASE InitPerl(t)
  <2> DEFINE r == op[t].r
  <2>1. /\ op[t].pc = "init" /\ r \in Res /\ Done(t)
        /\ UNCHANGED <<scene, nativeFiles, perlFiles, loaded, available, infoLock, nextId>>
    BY <1>0, <1>4 DEF InitPerl, Keeping
  <2>2. Moves(t, "idle", NoOne)
    BY <2>1, Records
  <2>3. CASE user' = [user EXCEPT ![r] = t] /\ UNCHANGED obj
    <3>1. Shape'
      BY <1>1, <2>1, <2>2, <2>3 DEF Shape, Moves
    <3>2. Receives(t)
      BY <2>1, <2>2, <2>3 DEF Receives, Moves
    <3>3. QED
      BY <2>2, <3>1, <3>2 DEF Effect, Moves
  <2>4. CASE obj' = [obj EXCEPT ![r] = NoObj] /\ UNCHANGED user
    <3>1. ObjShape'
      BY <2>1, <2>4, DiscardShape
    <3>2. Shape'
      BY <2>1, <2>2, <2>4, <3>1 DEF Shape, Moves
    <3>3. Discards(t)
      BY <2>1, <2>2, <2>4 DEF Discards, Moves, Keeping
    <3>4. QED
      BY <2>2, <3>2, <3>3 DEF Effect, Moves
  <2>5. QED
    BY <1>4, <2>3, <2>4 DEF InitPerl
<1>5. CASE Clear(t)
  <2> DEFINE r == op[t].r
             ty == obj[r].ty
  <2>1. /\ op[t].pc = "clear" /\ r \in Res /\ ty \in Type /\ Done(t)
        /\ obj' = [obj EXCEPT ![r].id = 0] /\ infoLock' = NoOne
        /\ available' = [available EXCEPT ![ty] = Append(@, r)]
        /\ UNCHANGED <<scene, nativeFiles, perlFiles, loaded, nextId, user>>
    BY <1>0, <1>5 DEF Clear, Keeping
  <2>2. Moves(t, "idle", NoOne)
    BY <2>1, Records, Zenon
  <2>3. /\ ObjShape' /\ obj'[r].ty = obj[r].ty /\ obj'[r].id = 0
        /\ \A s \in Res \ {r} : obj'[s] = obj[s]
    BY <2>1, RenumberShape
  <2>4. available' \in [Type -> Seq(Res)]
    BY <2>1, ListGrows
  <2>5. Shape'
    BY <2>1, <2>2, <2>3, <2>4 DEF Shape, Moves
  <2>6. Shelves(t, ty)
    BY <2>1, <2>2, <2>3 DEF Shelves, Moves
  <2>7. QED
    BY <2>1, <2>2, <2>5, <2>6 DEF Effect, Moves
<1>6. CASE Delete(t)
  <2> DEFINE r == op[t].r
  <2>1. /\ op[t].pc = "delete" /\ r \in Res /\ Done(t)
        /\ obj' = [obj EXCEPT ![r] = NoObj]
        /\ UNCHANGED <<scene, nativeFiles, perlFiles, loaded, available, infoLock, nextId, user>>
    BY <1>0, <1>6 DEF Delete, Keeping
  <2>2. Moves(t, "idle", NoOne)
    BY <2>1, Records
  <2>3. ObjShape'
    BY <2>1, DiscardShape
  <2>4. Shape'
    BY <2>1, <2>2, <2>3 DEF Shape, Moves
  <2>5. Discards(t)
    BY <2>1, <2>2 DEF Discards, Moves, Keeping
  <2>6. QED
    BY <2>2, <2>4, <2>5 DEF Effect, Moves
<1>7. CASE Take(t)
  <2> DEFINE ty == op[t].ty
             s == available[ty]
  <2>1. /\ op[t].pc = "load" /\ ty \in Type /\ s \in Seq(Res) /\ s # <<>>
        /\ op' = [op EXCEPT ![t].pc = "setid", ![t].r = Last(s)]
        /\ available' = [available EXCEPT ![ty] = Front(@)]
        /\ infoLock' = NoOne
        /\ UNCHANGED <<scene, nativeFiles, perlFiles, loaded, nextId, obj, user>>
    BY <1>7 DEF Take, Seeking, Shape, OpShape
  <2>2. Last(s) \in Res /\ Front(s) \in Seq(Res)
    BY <2>1 DEF Last, Front
  <2>3. Moves(t, "setid", Last(s))
    BY <2>1, <2>2, Records, PoolAssumption DEF Steps, Seeking, Keeping
  <2>4. available' \in [Type -> Seq(Res)]
    BY <2>1, <2>2 DEF Shape
  <2>5. Shape'
    BY <1>1, <2>1, <2>3, <2>4 DEF Shape, Moves
  <2>6. Takes(t, ty)
    BY <2>1, <2>3 DEF Takes, Moves
  <2>7. QED
    BY <2>1, <2>3, <2>5, <2>6 DEF Effect, Moves
<1>8. QED
  BY <1>2, <1>3, <1>4, <1>5, <1>6, <1>7

Act(t) ==
  \/ Call(t) \/ Step(t) \/ ScriptLooks(t) \/ EndUse(t)
  \/ \E r \in Res : Use(t, r) \/ Release(t, r)

LEMMA Effects ==
  ASSUME Shape, Names, Single, NEW t \in Thread, Act(t)
  PROVE  Shape' /\ Effect(t)
<1>1. CASE \/ Call(t) \/ LockInfo(t) \/ LoadNoPerl(t) \/ NotFound(t) \/ ScriptLooks(t)
           \/ ScriptFound(t) \/ LockGive(t) \/ Drop(t)
  BY <1>1, WalkEffects DEF Effect
<1>2. CASE EndUse(t) \/ \E r \in Res : Use(t, r) \/ Release(t, r)
  BY <1>2, UseEffects DEF Effect
<1>3. CASE LoadNative(t) \/ LoadPerl(t) \/ Create(t)
  BY <1>3, MakeEffects
<1>4. CASE LoadInit(t) \/ SetId(t) \/ InitPerl(t) \/ Clear(t) \/ Delete(t) \/ Take(t)
  BY <1>4, KeepEffects
<1>5. QED
  BY <1>1, <1>2, <1>3, <1>4 DEF Act, Step

LEMMA HasAppend ==
  ASSUME NEW s \in Seq(Res), NEW x \in Res
  PROVE  /\ \A y : Has(Append(s, x), y) <=> Has(s, y) \/ y = x
         /\ Distinct(s) /\ ~Has(s, x) => Distinct(Append(s, x))
<1>1. /\ Append(s, x) \in Seq(Res) /\ Len(Append(s, x)) = Len(s) + 1 /\ Len(s) \in Nat
      /\ Append(s, x)[Len(s) + 1] = x
      /\ \A k \in 1..Len(s) : Append(s, x)[k] = s[k]
  OBVIOUS
<1>2. 1..Len(s) + 1 = (1..Len(s)) \cup {Len(s) + 1}
  BY <1>1
<1>3. \A y : Has(Append(s, x), y) <=> Has(s, y) \/ y = x
  BY <1>1, <1>2 DEF Has
<1>4. Distinct(s) /\ ~Has(s, x) => Distinct(Append(s, x))
  BY <1>1, <1>2 DEF Has, Distinct
<1>5. QED
  BY <1>3, <1>4

LEMMA HasFront ==
  ASSUME NEW s \in Seq(Res), s # <<>>, Distinct(s)
  PROVE  /\ Last(s) \in Res /\ Has(s, Last(s)) /\ Distinct(Front(s))
         /\ Len(Front(s)) \in Nat /\ Len(Front(s)) <= Len(s)
         /\ \A y : Has(Front(s), y) <=> Has(s, y) /\ y # Last(s)
<1>0. Len(s) \in Nat \ {0} /\ Last(s) = s[Len(s)] /\ Last(s) \in Res
  BY DEF Last
<1>1. /\ Len(s) \in Nat \ {0} /\ Last(s) = s[Len(s)] /\ Last(s) \in Res
      /\ Front(s) \in Seq(Res) /\ Len(Front(s)) = Len(s) - 1
      /\ \A k \in 1..Len(s) - 1 : Front(s)[k] = s[k]
  <2>1. ASSUME NEW n \in Nat, n = Len(s) - 1
        PROVE  /\ SubSeq(s, 1, n) \in Seq(Res) /\ Len(SubSeq(s, 1, n)) = n
               /\ \A k \in 1..n : SubSeq(s, 1, n)[k] = s[k]
    <3>1. \A k \in 1..n : s[k] \in Res
      BY <1>0, <2>1
    <3>2. Len(SubSeq(s, 1, n)) = n
      BY <3>1
    <3>3. QED
      BY <3>1, <3>2
  <2>2. PICK n \in Nat : n = Len(s) - 1
    BY <1>0
  <2>3. Front(s) = SubSeq(s, 1, n)
    BY <2>2 DEF Front
  <2>4. QED
    BY <1>0, <2>1, <2>2, <2>3
<1>2. 1..Len(s) = (1..Len(s) - 1) \cup {Len(s)} /\ Len(s) \notin 1..Len(s) - 1
  BY <1>1
<1>3. Has(s, Last(s)) /\ Distinct(Front(s))
  BY <1>1, <1>2 DEF Has, Distinct
<1>4. \A y : Has(Front(s), y) <=> Has(s, y) /\ y # Last(s)
  BY <1>1, <1>2 DEF Has, Distinct
<1>5. QED
  BY <1>1, <1>3, <1>4

(***************************************************************************)
(* A step of thread t concerns one resource, x, which no other thread      *)
(* keeps.                                                                  *)
(***************************************************************************)
Focus(t, x) ==
  /\ \A s \in Res \ {x} :
       /\ obj'[s] = obj[s] /\ user'[s] = user[s]
       /\ \A ty \in Type : Has(available'[ty], s) <=> Has(available[ty], s)
  /\ \A ty \in Type : Distinct(available'[ty])
  /\ \A u \in Thread \ {t} : op[u].r # x
  /\ op[t].r \in {NoOne, x} /\ op'[t].r \in {NoOne, x}

\* ... for x it is the thread t that matters.
FocusOK(t, x) ==
  /\ obj[x] = NoObj => /\ user[x] = NoOne
                       /\ \A ty \in Type : ~Has(available[ty], x)
                       /\ op[t].r # x
  /\ user[x] # NoOne => /\ obj[x].ty \in Type
                        /\ \A ty \in Type : ~Has(available[ty], x)
  /\ \A ty \in Type : Has(available[ty], x) => obj[x].ty = ty /\ op[t].r # x

LEMMA Focused ==
  ASSUME Shape, Shape', Single, NEW t \in Thread, NEW x \in Res,
         Others(t), Focus(t, x), FocusOK(t, x)', KeepOK(t)'
  PROVE  Single'
<1>0. NoOne \notin Res /\ \A u \in Thread \ {t} : op'[u] = op[u]
  BY PoolAssumption DEF Others
<1>1. PlaceOK(x)'
  BY <1>0 DEF Focus, FocusOK, PlaceOK
<1>2. ASSUME NEW s \in Res \ {x} PROVE PlaceOK(s)'
  <2>1. \A u \in Thread : op'[u].r = s <=> op[u].r = s /\ u # t
    BY <1>0 DEF Focus
  <2>2. PlaceOK(s)
    BY DEF Single
  <2>3. QED
    BY <2>1, <2>2 DEF PlaceOK, Focus
<1>3. ASSUME NEW u \in Thread \ {t} PROVE KeepOK(u)'
  <2>1. op'[u] = op[u] /\ op[u].r # x /\ KeepOK(u)
    BY <1>0 DEF Focus, Single
  <2>2. Runs(u) \/ Keeps(u) => op[u].r \in Res \ {x}
    BY <2>1, Kept DEF Runs, Keeps
  <2>3. QED
    BY <2>1, <2>2 DEF Focus, KeepOK, Runs, Keeps, Loads
<1>4. QED
  BY <1>1, <1>2, <1>3 DEF Single, Focus

LEMMA SingleNext ==
  ASSUME Shape, Names, Single, NEW t \in Thread, Act(t)
  PROVE  Single'
<1>0. Shape' /\ Effect(t) /\ Others(t)
  BY Effects DEF Effect
<1>1. /\ NoOne \notin Res /\ NoOne \notin Thread /\ NoOne \notin Type
      /\ available \in [Type -> Seq(Res)] /\ user \in [Res -> Thread \cup {NoOne}]
      /\ nextId \in Nat \ {0}
      /\ DOMAIN obj = Res
      /\ NoObj.ty = NoOne /\ NoObj.id = 0
      /\ \A u \in Thread : op[u].r # NoOne <=> Runs(u) \/ Keeps(u)
      /\ \A u \in Thread : op[u].r \in Res \cup {NoOne}
      /\ \A u \in Thread : op'[u].r # NoOne <=> Runs(u)' \/ Keeps(u)'
      /\ \A u \in Thread : op'[u].r \in Res \cup {NoOne}
  BY <1>0, PoolAssumption DEF Shape, ObjShape, OpShape, Record, NoObj, Runs, Keeps
<1>2. CASE Walks(t)
  <2>1. /\ \A u \in Thread : op'[u].r = op[u].r
        /\ \A u \in Thread \ {t} : op'[u] = op[u]
        /\ UNCHANGED <<available, obj, user>>
    BY <1>0, <1>2 DEF Walks, Steady, Others
  <2>2. (Runs(t)' <=> Runs(t)) /\ ~Loads(t)
    BY <1>2 DEF Walks, Runs, Loads
  <2>3. Keeps(t)' => Keeps(t)
    BY <1>1, <2>1, <2>2 DEF Runs, Keeps, Running, Keeping
  <2>4. \A r \in Res : PlaceOK(r)'
    BY <2>1 DEF Single, PlaceOK
  <2>5. KeepOK(t)'
    BY <2>1, <2>2, <2>3 DEF Single, KeepOK
  <2>6. \A u \in Thread \ {t} : KeepOK(u)'
    BY <2>1 DEF Single, KeepOK, Runs, Keeps, Loads
  <2>7. QED
    BY <2>1, <2>4, <2>5, <2>6 DEF Single
\* A resource that t keeps, and one that t uses, is with no other thread.
<1>3. ASSUME NEW r \in Res, op[t].r = r
      PROVE  PlaceOK(r) /\ KeepOK(t) /\ \A u \in Thread \ {t} : op[u].r # r
  BY <1>3 DEF Single, PlaceOK
<1>4. ASSUME NEW r \in Res, user[r] = t, op[t].pc = "idle"
      PROVE  PlaceOK(r) /\ op[t].r = NoOne /\ \A u \in Thread : op[u].r # r
  <2>1. op[t].r = NoOne
    BY <1>1, <1>4 DEF Runs, Keeps, Running, Keeping
  <2>2. ASSUME NEW u \in Thread \ {t}, op[u].r = r PROVE FALSE
    <3>1. KeepOK(u) /\ (Runs(u) \/ Keeps(u))
      BY <1>1, <2>2 DEF Single
    <3>2. QED
      BY <1>1, <1>4, <2>2, <3>1 DEF KeepOK
  <2>3. QED
    BY <1>1, <2>1, <2>2 DEF Single
\* The resource that t keeps.
<1>5. ASSUME op[t].r # NoOne
      PROVE  \E x \in Res : /\ x = op[t].r /\ PlaceOK(x)
                            /\ \A u \in Thread \ {t} : op[u].r # x
  BY <1>1, <1>3, <1>5
<1>6. CASE Ends(t)
  <2>1. op[t].r # NoOne
    BY <1>1, <1>6 DEF Ends, Runs
  <2>2. PICK x \in Res : /\ x = op[t].r /\ PlaceOK(x) /\ \A u \in Thread \ {t} : op[u].r # x
    BY <1>5, <2>1
  <2>3. Focus(t, x)
    BY <1>6, <2>2 DEF Focus, Ends, Steady, Single
  <2>4. FocusOK(t, x)' /\ KeepOK(t)'
    BY <1>1, <1>6, <2>2 DEF Ends, Steady, FocusOK, PlaceOK, KeepOK
  <2>5. QED
    BY <1>0, <2>3, <2>4, Focused
<1>7. CASE Discards(t)
  <2>1. PICK x \in Res : /\ x = op[t].r /\ PlaceOK(x) /\ \A u \in Thread \ {t} : op[u].r # x
    BY <1>1, <1>5, <1>7 DEF Discards, Keeps
  <2>2. KeepOK(t) /\ Keeps(t)
    BY <1>7 DEF Single, Discards, Keeps
  <2>3. Focus(t, x)
    BY <1>1, <1>7, <2>1 DEF Focus, Discards, Single
  <2>4. user[x] = NoOne /\ obj'[x] = NoObj /\ \A ty \in Type : ~Has(available[ty], x)
    BY <1>1, <1>7, <2>1, <2>2 DEF KeepOK, PlaceOK, Discards
  <2>5. FocusOK(t, x)' /\ KeepOK(t)'
    BY <1>1, <1>7, <2>4 DEF Discards, FocusOK, KeepOK
  <2>6. QED
    BY <1>0, <2>3, <2>5, Focused
<1>8. CASE Receives(t)
  <2>1. PICK x \in Res : /\ x = op[t].r /\ PlaceOK(x) /\ \A u \in Thread \ {t} : op[u].r # x
    BY <1>1, <1>5, <1>8 DEF Receives, Keeps, Keeping
  <2>2. KeepOK(t) /\ Keeps(t) /\ ~Loads(t)
    BY <1>8 DEF Single, Receives, Keeps, Keeping, Loads
  <2>3. Focus(t, x)
    BY <1>1, <1>8, <2>1 DEF Focus, Receives, Single
  <2>4. /\ obj'[x].ty \in Type /\ obj'[x] # NoObj /\ user'[x] = t
        /\ \A ty \in Type : ~Has(available[ty], x)
    BY <1>1, <1>8, <2>1, <2>2 DEF KeepOK, PlaceOK, Receives
  <2>5. FocusOK(t, x)' /\ KeepOK(t)'
    BY <1>1, <1>8, <2>4 DEF Receives, FocusOK, KeepOK
  <2>6. QED
    BY <1>0, <2>3, <2>5, Focused
<1>9. ASSUME NEW x \in Res, Uses(t, x) \/ Releases(t, x) PROVE Single'
  <2>1. PlaceOK(x) /\ op[t].r = NoOne /\ \A u \in Thread : op[u].r # x
    BY <1>4, <1>9 DEF Uses, Releases
  <2>2. Focus(t, x)
    BY <1>1, <1>9, <2>1 DEF Focus, Uses, Releases, Steady, Single
  <2>3. FocusOK(t, x)'
    BY <1>1, <1>9, <2>1 DEF FocusOK, PlaceOK, Uses, Releases, Steady
  <2>4. KeepOK(t)'
    BY <1>1, <1>9, <2>1 DEF KeepOK, PlaceOK, Uses, Releases, Steady, Runs, Keeps, Running, Keeping
  <2>5. QED
    BY <1>0, <2>2, <2>3, <2>4, Focused
<1>10. ASSUME NEW x \in Res, NEW ty \in Type \cup {NoOne}, Made(x, ty)
       PROVE  /\ PlaceOK(x) /\ obj[x] = NoObj /\ obj'[x] # NoObj /\ obj'[x].ty = ty
              /\ user[x] = NoOne /\ (\A u \in Thread : op[u].r # x)
              /\ \A y \in Type : ~Has(available[y], x)
              /\ \A s \in Res \ {x} : obj'[s] = obj[s]
  BY <1>1, <1>10 DEF Made, Unused, Single, PlaceOK
<1>11. ASSUME op[t].pc = "load" PROVE op[t].r = NoOne
  BY <1>1, <1>11 DEF Runs, Keeps, Running, Keeping
<1>12. ASSUME NEW x \in Res, NEW ty \in Type \cup {NoOne}, Lists(t, x, ty) PROVE Single'
  <2>1. /\ available'[ty] = Append(available[ty], x) /\ ty \in Type /\ Made(x, ty)
        /\ \A y \in Type \ {ty} : available'[y] = available[y]
        /\ UNCHANGED user /\ op'[t] = op[t] /\ op[t].r = NoOne
    BY <1>1, <1>11, <1>12 DEF Lists
  <2>2. /\ \A y : Has(available'[ty], y) <=> Has(available[ty], y) \/ y = x
        /\ Distinct(available'[ty])
    BY <1>1, <1>10, <2>1, HasAppend DEF Single
  <2>3. Focus(t, x)
    BY <1>10, <2>1, <2>2 DEF Focus, Single
  <2>4. FocusOK(t, x)' /\ KeepOK(t)'
    BY <1>1, <1>10, <2>1, <2>2 DEF FocusOK, KeepOK
  <2>5. QED
    BY <1>0, <2>3, <2>4, Focused
<1>13. ASSUME NEW x \in Res, NEW ty \in Type \cup {NoOne}, Makes(t, x, ty) PROVE Single'
  <2>1. /\ Made(x, ty) /\ UNCHANGED <<available, user>> /\ op[t].r = NoOne /\ op'[t].r = x
        /\ ~Runs(t)' /\ (Loads(t)' \/ ty \in Type)
    BY <1>11, <1>13 DEF Makes, Runs, Loads, Running
  <2>2. Focus(t, x)
    BY <1>10, <2>1 DEF Focus, Single
  <2>3. FocusOK(t, x)'
    BY <1>1, <1>10, <2>1 DEF FocusOK
  <2>4. KeepOK(t)'
    BY <1>1, <1>10, <2>1 DEF KeepOK
  <2>5. QED
    BY <1>0, <2>2, <2>3, <2>4, Focused
<1>14. ASSUME NEW x \in Res, NEW ty \in Type \cup {NoOne}, Gives(t, x, ty) PROVE Single'
  <2>1. /\ Made(x, ty) /\ UNCHANGED available /\ op[t].r = NoOne /\ op'[t].r = NoOne
        /\ ty \in Type /\ user'[x] = t /\ \A s \in Res \ {x} : user'[s] = user[s]
    BY <1>1, <1>11, <1>14 DEF Gives
  <2>2. Focus(t, x)
    BY <1>10, <2>1 DEF Focus, Single
  <2>3. FocusOK(t, x)' /\ KeepOK(t)'
    BY <1>1, <1>10, <2>1 DEF FocusOK, KeepOK
  <2>4. QED
    BY <1>0, <2>2, <2>3, Focused
<1>15. ASSUME NEW ty \in Type, Shelves(t, ty) PROVE Single'
  <2>1. PICK x \in Res : /\ x = op[t].r /\ PlaceOK(x) /\ \A u \in Thread \ {t} : op[u].r # x
    BY <1>1, <1>5, <1>15 DEF Shelves, Keeps, Keeping
  <2>2. KeepOK(t) /\ Keeps(t)
    BY <1>15, SMTT(30) DEF Single, Shelves, Keeps, Keeping
  <2>3. /\ available'[ty] = Append(available[ty], x)
        /\ \A y \in Type \ {ty} : available'[y] = available[y]
        /\ obj'[x].ty = ty /\ (\A s \in Res \ {x} : obj'[s] = obj[s])
        /\ UNCHANGED user /\ op'[t].r = NoOne
    BY <1>1, <1>15, <2>1, Zenon DEF Shelves
  <2>4. user[x] = NoOne /\ \A y \in Type : ~Has(available[y], x)
    BY <1>1, <2>1, <2>2 DEF KeepOK, PlaceOK
  <2>5. /\ \A y : Has(available'[ty], y) <=> Has(available[ty], y) \/ y = x
        /\ Distinct(available'[ty])
    BY <1>1, <2>3, <2>4, HasAppend DEF Single
  <2>6. Focus(t, x)
    BY <2>1, <2>3, <2>5 DEF Focus, Single
  <2>7. FocusOK(t, x)' /\ KeepOK(t)'
    BY <1>1, <2>3, <2>4, <2>5 DEF FocusOK, KeepOK
  <2>8. QED
    BY <1>0, <2>6, <2>7, Focused
<1>16. ASSUME NEW ty \in Type, Takes(t, ty) PROVE Single'
  <2> DEFINE x == Last(available[ty])
  <2>1. /\ available'[ty] = Front(available[ty])
        /\ \A y \in Type \ {ty} : available'[y] = available[y]
        /\ UNCHANGED <<obj, user>> /\ op[t].r = NoOne /\ op'[t].r = x
        /\ ~Runs(t)' /\ ~Loads(t)'
    BY <1>1, <1>11, <1>16 DEF Takes, Runs, Loads, Running
  <2>2. /\ \A y : Has(available'[ty], y) <=> Has(available[ty], y) /\ y # x
        /\ Distinct(available'[ty]) /\ x \in Res /\ Has(available[ty], x)
    BY <1>1, <1>16, <2>1, HasFront DEF Takes, Single
  <2>3. PICK z \in Res : z = x
    BY <2>2
  <2>4. /\ PlaceOK(z) /\ obj[z].ty = ty /\ user[z] = NoOne /\ \A u \in Thread : op[u].r # z
        /\ \A y \in Type \ {ty} : ~Has(available[y], z)
    BY <2>2, <2>3 DEF Single, PlaceOK
  <2>5. Focus(t, z)
    BY <2>1, <2>2, <2>3, <2>4 DEF Focus, Single
  <2>6. FocusOK(t, z)'
    BY <1>1, <2>1, <2>2, <2>3, <2>4 DEF FocusOK, PlaceOK
  <2>7. KeepOK(t)'
    BY <1>1, <2>1, <2>2, <2>3, <2>4 DEF KeepOK
  <2>8. QED
    BY <1>0, <2>5, <2>6, <2>7, Focused
<1>17. QED
  BY <1>0, <1>2, <1>6, <1>7, <1>8, <1>9, <1>12, <1>13, <1>14, <1>15, <1>16 DEF Effect

(***************************************************************************)
(* Identifiers.  Every number is given once; the identifier 0 of a cleared *)
(* resource is replaced before the resource gets a user.                   *)
(***************************************************************************)
Ids ==
  /\ \A r \in Res : obj[r].id \in Nat /\ obj[r].id < nextId
  /\ \A r, s \in Res : obj[r].id = obj[s].id /\ obj[r].id # 0 => r = s
  /\ \A r \in Res : user[r] # NoOne => obj[r].id # 0
  /\ \A u \in Thread : op[u].pc = "init" => obj[op[u].r].id # 0

LEMMA IdsNext ==
  ASSUME Shape, Names, Single, Ids, NEW t \in Thread, Act(t)
  PROVE  Ids'
<1>0. Effect(t) /\ \A u \in Thread \ {t} : op'[u] = op[u]
  BY Effects DEF Effect, Others
<1>1. /\ NoOne \notin Res /\ NoOne \notin Thread
      /\ user \in [Res -> Thread \cup {NoOne}] /\ nextId \in Nat \ {0}
      /\ DOMAIN obj = Res /\ NoObj.id = 0
      /\ \A u \in Thread : op[u].pc \in Keeping => op[u].r \in Res
  BY Kept, PoolAssumption DEF Shape, ObjShape, NoObj
<1>2. ASSUME Keeps(t)
      PROVE  /\ op[t].r \in Res /\ user[op[t].r] = NoOne
             /\ \A u \in Thread \ {t} : op[u].r # op[t].r
  BY <1>1, <1>2 DEF Keeps, Single, PlaceOK, KeepOK
<1>3. ASSUME op'[t].pc # "init", UNCHANGED <<nextId, obj>>,
             \A r \in Res : user'[r] \in {NoOne, user[r]}
      PROVE  Ids'
  BY <1>0, <1>3 DEF Ids
<1>4. CASE Walks(t) \/ Ends(t)
  BY <1>3, <1>4 DEF Walks, Ends, Steady
<1>5. ASSUME NEW r \in Res, Uses(t, r) \/ Releases(t, r) PROVE Ids'
  BY <1>1, <1>3, <1>5 DEF Uses, Releases, Steady
<1>6. ASSUME NEW ty \in Type, Takes(t, ty) PROVE Ids'
  BY <1>3, <1>6 DEF Takes
<1>7. CASE Discards(t)
  <2>1. Keeps(t) /\ op'[t].pc # "init"
    BY <1>7 DEF Discards, Keeps
  <2>2. PICK x \in Res : x = op[t].r
    BY <1>2, <2>1
  <2>3. /\ obj'[x].id = 0 /\ UNCHANGED <<nextId, user>>
        /\ \A s \in Res \ {x} : obj'[s] = obj[s]
    BY <1>1, <1>7, <2>2 DEF Discards
  <2>4. QED
    BY <1>0, <1>1, <1>2, <2>1, <2>2, <2>3 DEF Ids, Keeping
<1>8. ASSUME NEW ty \in Type, Shelves(t, ty) PROVE Ids'
  <2>1. Keeps(t) /\ op'[t].pc # "init"
    BY <1>8 DEF Shelves, Keeps, Keeping
  <2>2. PICK x \in Res : x = op[t].r
    BY <1>2, <2>1
  <2>3. /\ obj'[x].id \in {0, obj[x].id} /\ UNCHANGED <<nextId, user>>
        /\ \A s \in Res \ {x} : obj'[s] = obj[s]
    BY <1>8, <2>2 DEF Shelves
  <2>4. QED
    BY <1>0, <1>1, <1>2, <2>1, <2>2, <2>3 DEF Ids, Keeping
<1>9. CASE Receives(t)
  <2>1. Keeps(t) /\ op'[t].pc = "idle"
    BY <1>9 DEF Receives, Keeps, Keeping
  <2>2. PICK x \in Res : x = op[t].r
    BY <1>2, <2>1
  <2>3. /\ \A s \in Res \ {x} : obj'[s] = obj[s] /\ user'[s] = user[s]
        /\ \/ obj'[x].id = nextId /\ nextId' = nextId + 1
           \/ obj'[x].id = obj[x].id /\ obj[x].id # 0 /\ UNCHANGED nextId
    BY <1>1, <1>9, <2>2 DEF Receives, Ids
  <2>4. QED
    BY <1>0, <1>1, <1>2, <2>1, <2>2, <2>3 DEF Ids, Keeping
<1>10. ASSUME NEW n \in Res, NEW ty \in Type \cup {NoOne},
              Lists(t, n, ty) \/ Makes(t, n, ty) \/ Gives(t, n, ty)
       PROVE  Ids'
  <2>1. /\ n \in Unused /\ obj'[n].id = nextId /\ nextId' = nextId + 1
        /\ \A s \in Res \ {n} : obj'[s] = obj[s] /\ user'[s] = user[s]
    BY <1>1, <1>10 DEF Lists, Makes, Gives, Made
  <2>2. \A u \in Thread : op[u].r # n
    BY <2>1 DEF Unused, Single, PlaceOK
  <2>3. op'[t].pc = "init" => op'[t].r = n
    BY <1>10 DEF Lists, Makes, Gives
  <2>4. QED
    BY <1>0, <1>1, <2>1, <2>2, <2>3 DEF Ids, Keeping
<1>11. QED
  BY <1>0, <1>4, <1>5, <1>6, <1>7, <1>8, <1>9, <1>10 DEF Effect

(***************************************************************************)
(* Names are enough.                                                       *)
(***************************************************************************)
LEMMA SeekersMove ==
  ASSUME Shape, Shape', NEW t \in Thread, Others(t)
  PROVE  /\ Cardinality(Seekers') <= Cardinality(Seekers) + 1
         /\ (t \in Seekers' => t \in Seekers) => Cardinality(Seekers') <= Cardinality(Seekers)
         /\ t \in Seekers /\ t \notin Seekers' =>
              Cardinality(Seekers') = Cardinality(Seekers) - 1
<1>0. \A u \in Thread \ {t} : u \in Seekers' <=> u \in Seekers
  BY DEF Others, Seekers
<1>1. IsFiniteSet(Seekers) /\ Cardinality(Seekers) \in Nat
  BY Sizes
<1>2. Seekers \subseteq Thread /\ Seekers' \subseteq Thread
  BY DEF Seekers
<1> HIDE DEF Seekers
<1>3. CASE (t \in Seekers <=> t \in Seekers')
  <2>1. Seekers' = Seekers
    BY <1>0, <1>2, <1>3
  <2>2. QED
    BY <1>1, <1>3, <2>1
<1>4. CASE t \in Seekers /\ t \notin Seekers'
  <2>1. Seekers' = Seekers \ {t}
    BY <1>0, <1>2, <1>4
  <2>2. Cardinality(Seekers') = Cardinality(Seekers) - 1
    BY <1>1, <1>4, <2>1, FS_RemoveElement
  <2>3. QED
    BY <1>1, <1>4, <2>2
<1>5. CASE t \notin Seekers /\ t \in Seekers'
  <2>1. Seekers' = Seekers \cup {t}
    BY <1>0, <1>2, <1>5
  <2>2. Cardinality(Seekers') = Cardinality(Seekers) + 1
    BY <1>1, <1>5, <2>1, FS_AddElement
  <2>3. QED
    BY <1>1, <1>5, <2>2
<1>6. QED
  BY <1>3, <1>4, <1>5

\* A step makes one resource, or none.
LEMMA UnusedMove ==
  ASSUME Shape, Shape', Single, NEW t \in Thread, Effect(t)
  PROVE  \/ Cardinality(Unused') >= Cardinality(Unused)
         \/ /\ Cardinality(Unused') = Cardinality(Unused) - 1
            /\ \E n \in Res, ty \in Type \cup {NoOne} :
                 Lists(t, n, ty) \/ Makes(t, n, ty) \/ Gives(t, n, ty)
<1>0. /\ IsFiniteSet(Unused) /\ Cardinality(Unused) \in Nat
      /\ IsFiniteSet(Unused') /\ Cardinality(Unused') \in Nat
      /\ DOMAIN obj = Res /\ NoObj.id = 0 /\ NoObj.ty = NoOne /\ nextId # 0 /\ NoOne \notin Type
  <2>1. IsFiniteSet(Unused) /\ IsFiniteSet(Unused')
    BY PoolAssumption, FS_Subset DEF Unused
  <2>2. Cardinality(Unused) \in Nat /\ Cardinality(Unused') \in Nat
    BY <2>1, FS_CardinalityType
  <2>3. QED
    BY <2>1, <2>2, PoolAssumption DEF Shape, ObjShape, NoObj
<1>1. ASSUME Unused \subseteq Unused' PROVE Cardinality(Unused') >= Cardinality(Unused)
  BY <1>0, <1>1, FS_Subset
<1>2. CASE UNCHANGED obj
  BY <1>1, <1>2 DEF Unused
<1>3. ASSUME NEW n \in Res, NEW ty \in Type \cup {NoOne},
             Lists(t, n, ty) \/ Makes(t, n, ty) \/ Gives(t, n, ty)
      PROVE  Cardinality(Unused') = Cardinality(Unused) - 1
  <2>1. /\ n \in Unused /\ obj'[n] # NoObj /\ \A s \in Res \ {n} : obj'[s] = obj[s]
    BY <1>0, <1>3 DEF Lists, Makes, Gives, Made
  <2>2. Unused' = Unused \ {n}
    BY <2>1 DEF Unused
  <2>3. QED
    BY <1>0, <2>1, <2>2, FS_RemoveElement
<1>4. ASSUME Keeps(t), \A s \in Res \ {op[t].r} : obj'[s] = obj[s]
      PROVE  Unused \subseteq Unused'
  <2>1. op[t].r \in Res /\ obj[op[t].r] # NoObj
    BY <1>4, Kept DEF Keeps, Single, PlaceOK
  <2>2. QED
    BY <1>4, <2>1 DEF Unused
<1>5. CASE Discards(t) \/ Receives(t) \/ \E ty \in Type : Shelves(t, ty)
  <2>1. Keeps(t) /\ \A s \in Res \ {op[t].r} : obj'[s] = obj[s]
    BY <1>0, <1>5 DEF Discards, Receives, Shelves, Keeps, Keeping
  <2>2. QED
    BY <1>1, <1>4, <2>1
<1>6. CASE \/ Walks(t) \/ Ends(t) \/ \E r \in Res : Uses(t, r) \/ Releases(t, r)
           \/ \E ty \in Type : Takes(t, ty)
  <2>1. UNCHANGED obj
    BY <1>6 DEF Walks, Ends, Uses, Releases, Takes, Steady
  <2>2. QED
    BY <1>2, <2>1
<1>7. QED
  BY <1>3, <1>5, <1>6 DEF Effect

LEMMA NamesNext ==
  ASSUME Shape, Names, Single, NEW t \in Thread, Act(t)
  PROVE  Names'
<1>0. Shape' /\ Effect(t) /\ Others(t)
  BY Effects DEF Effect
<1>1. /\ Cardinality(Unused) \in Nat /\ Cardinality(Seekers) \in Nat
      /\ Cardinality(Unused') \in Nat /\ Cardinality(Seekers') \in Nat
      /\ Len(nativeFiles) \in Nat /\ Len(perlFiles) \in Nat
  <2>1. IsFiniteSet(Unused') /\ IsFiniteSet(Seekers')
    BY PoolAssumption, FS_Subset DEF Unused, Seekers
  <2>2. QED
    BY <2>1, Sizes, FS_CardinalityType
<1> DEFINE made == \E n \in Res, ty \in Type \cup {NoOne} :
                     Lists(t, n, ty) \/ Makes(t, n, ty) \/ Gives(t, n, ty)
<1>2. \/ Cardinality(Unused') >= Cardinality(Unused)
      \/ Cardinality(Unused') = Cardinality(Unused) - 1 /\ made
  BY <1>0, UnusedMove
<1>3. /\ Cardinality(Seekers') <= Cardinality(Seekers) + 1
      /\ (t \in Seekers' => t \in Seekers) => Cardinality(Seekers') <= Cardinality(Seekers)
      /\ t \in Seekers /\ t \notin Seekers' => Cardinality(Seekers') = Cardinality(Seekers) - 1
  BY <1>0, SeekersMove
<1>4. made => op[t].pc = "load"
  BY DEF Lists, Makes, Gives
<1> HIDE DEF made
\* Nothing is made and nobody begins to look for a type.
<1>5. ASSUME op[t].pc # "load", op'[t].pc \in Seeking => op[t].pc \in Seeking,
             UNCHANGED <<nativeFiles, perlFiles>>
      PROVE  Names'
  <2>1. t \in Seekers' => t \in Seekers
    BY <1>5 DEF Seekers
  <2>2. Seekers' # {} => Seekers # {}
    BY <1>0, <2>1 DEF Others, Seekers
  <2>3. QED
    BY <1>1, <1>2, <1>3, <1>4, <1>5, <2>1, <2>2 DEF Names
<1> USE DEF At, poolVars
<1>6. CASE Call(t)
  <2>1. Cardinality(Unused) > Cardinality({u \in Thread : ~At(u, "idle")}) + Len(nativeFiles \o perlFiles)
    BY <1>6 DEF Call
  <2>2. Len(nativeFiles \o perlFiles) = Len(nativeFiles) + Len(perlFiles)
    BY DEF Shape
  <2>3. Cardinality(Seekers) <= Cardinality({u \in Thread : ~At(u, "idle")})
        /\ Cardinality({u \in Thread : ~At(u, "idle")}) \in Nat
    <3>1. IsFiniteSet({u \in Thread : ~At(u, "idle")})
      BY PoolAssumption, FS_Subset
    <3>2. Seekers \subseteq {u \in Thread : ~At(u, "idle")}
      BY DEF Seekers, Seeking
    <3> HIDE DEF At, Seekers
    <3>3. QED
      BY <3>1, <3>2, FS_Subset, FS_CardinalityType
  <2>4. UNCHANGED <<nativeFiles, perlFiles>> /\ op[t].pc # "load"
    BY <1>6 DEF Call
  <2>5. QED
    BY <1>1, <1>2, <1>3, <1>4, <2>1, <2>2, <2>3, <2>4, SMTT(30) DEF Names
<1>7. CASE LoadNative(t)
  <2>1. /\ Len(nativeFiles') = Len(nativeFiles) - 1 /\ UNCHANGED perlFiles
        /\ t \in Seekers
    BY <1>7 DEF LoadNative, Shape, Seekers, Seeking
  <2>2. QED
    BY <1>1, <1>2, <1>3, <2>1 DEF Names
<1>8. CASE LoadPerl(t)
  <2>1. /\ Len(perlFiles') = Len(perlFiles) - 1 /\ UNCHANGED nativeFiles /\ t \in Seekers
    BY <1>8 DEF LoadPerl, Shape, Seekers, Seeking
  <2>2. QED
    BY <1>1, <1>2, <1>3, <2>1 DEF Names
<1>9. CASE LoadNoPerl(t)
  <2>1. /\ Len(perlFiles') = 0 /\ UNCHANGED nativeFiles /\ t \in Seekers /\ UNCHANGED obj
    BY <1>9 DEF LoadNoPerl, Seekers, Seeking
  <2>2. Unused' = Unused
    BY <2>1 DEF Unused
  <2>3. QED
    BY <1>1, <1>3, <2>1, <2>2 DEF Names
<1>10. CASE NotFound(t) \/ Take(t) \/ Create(t)
  <2>1. /\ UNCHANGED <<nativeFiles, perlFiles>> /\ t \in Seekers
    BY <1>10 DEF NotFound, Take, Create, Seekers, Seeking
  <2>2. op'[t].pc \in {"idle", "setid", "init"}
    BY <1>10 DEF NotFound, Take, Create, Done, Idle, Shape, OpShape, Record
  <2>3. t \notin Seekers'
    BY <2>2 DEF Seekers, Seeking
  <2>4. QED
    BY <1>1, <1>2, <1>3, <2>1, <2>3 DEF Names
<1>11. CASE LockInfo(t) \/ LoadInit(t)
  <2>1. op[t].pc # "load" /\ op[t].pc \in Seeking /\ UNCHANGED <<nativeFiles, perlFiles>>
    BY <1>11, Zenon DEF LockInfo, LoadInit, Seeking
  <2>2. QED
    BY <1>5, <2>1
<1>12. CASE \/ SetId(t) \/ InitPerl(t) \/ ScriptFound(t) \/ LockGive(t) \/ Clear(t) \/ Drop(t)
            \/ Delete(t) \/ ScriptLooks(t) \/ EndUse(t)
            \/ \E r \in Res : Use(t, r) \/ Release(t, r)
  <2>1. op[t].pc # "load" /\ UNCHANGED <<nativeFiles, perlFiles>>
    BY <1>12, Zenon DEF SetId, InitPerl, ScriptFound, LockGive, Clear, Drop, Delete, ScriptLooks,
       EndUse, Use, Release
  <2>2. op'[t].pc \in {"idle", "run", "attr", "give", "clear", "drop", "delete"}
    <3>1. CASE SetId(t) \/ InitPerl(t) \/ Clear(t) \/ Delete(t) \/ EndUse(t)
      BY <3>1, Records, Zenon DEF SetId, InitPerl, Clear, Delete, EndUse, Moves
    <3>2. CASE ScriptFound(t) \/ LockGive(t) \/ Drop(t) \/ ScriptLooks(t)
      BY <3>2 DEF ScriptFound, LockGive, Drop, ScriptLooks, Go, Shape, OpShape, Record
    <3>3. CASE \E r \in Res : Use(t, r) \/ Release(t, r)
      BY <3>3, UseEffects DEF Uses, Releases
    <3>4. QED
      BY <1>12, <3>1, <3>2, <3>3
  <2>3. QED
    BY <1>5, <2>1, <2>2 DEF Seeking
<1>13. QED
  BY <1>6, <1>7, <1>8, <1>9, <1>10, <1>11, <1>12 DEF Act, Step

(***************************************************************************)
(* The capacity of the lists.  infoLock is held from the look at a list to *)
(* the change of it, so ReleaseResource does not overfill it; loading a    *)
(* file puts a resource on the list of its type without a look, which is   *)
(* then empty if the type has one file only.                               *)
(***************************************************************************)
OneFileEach ==
  /\ \A j, k \in 1..Len(scene.native) :
       scene.native[j] = scene.native[k] /\ scene.native[j] # NoOne => j = k
  /\ \A j, k \in 1..Len(scene.perl) :
       scene.perl[j] = scene.perl[k] /\ scene.perl[j] # NoOne => j = k

Locked == \A u \in Thread : op[u].pc \in {"load", "loadinit", "clear"} => infoLock = u

\* A file that is left provides a type that has no resource yet.
Absent(ty) == ty \notin loaded /\ \A r \in Res : obj[r].ty # ty
Unmade(files) ==
  /\ \A j, k \in 1..Len(files) : files[j] = files[k] /\ files[j] # NoOne => j = k
  /\ \A k \in 1..Len(files) : files[k] # NoOne => Absent(files[k])

Fits ==
  /\ Unmade(nativeFiles) /\ Unmade(perlFiles)
  /\ \A ty \in Type : Len(available[ty]) <= scene.available
  /\ \A u \in Thread :
       /\ op[u].pc = "loadinit" =>
            \A r \in Res \ {op[u].r} : obj[r].ty = obj[op[u].r].ty => obj[r].ty = NoOne
       /\ op[u].pc = "clear" => Len(available[obj[op[u].r].ty]) < scene.available

LEMMA LockedNext ==
  ASSUME Shape, Names, Single, Locked, NEW t \in Thread, Act(t)
  PROVE  Locked'
<1> DEFINE Critical == {"load", "loadinit", "clear"}
<1>0. (\A u \in Thread \ {t} : op'[u] = op[u]) /\ NoOne \notin Thread
  BY Effects, PoolAssumption DEF Effect, Others
<1>1. ASSUME UNCHANGED infoLock, op'[t].pc \in Critical => op[t].pc \in Critical PROVE Locked'
  BY <1>0, <1>1 DEF Locked
<1>2. ASSUME infoLock = NoOne, infoLock' = t PROVE Locked'
  BY <1>0, <1>2 DEF Locked
<1>3. ASSUME op[t].pc \in Critical, infoLock' = NoOne, op'[t].pc \notin Critical PROVE Locked'
  BY <1>0, <1>3 DEF Locked
<1> USE DEF At, poolVars
<1>4. CASE LockInfo(t)
  BY <1>2, <1>4 DEF LockInfo
<1>5. CASE LockGive(t)
  <2>1. CASE infoLock' = t
    BY <1>2, <1>5, <2>1 DEF LockGive
  <2>2. CASE UNCHANGED infoLock /\ Go(t, "drop")
    <3>1. op'[t].pc = "drop"
      BY <2>2 DEF Go, Shape, OpShape, Record
    <3>2. QED
      BY <1>1, <2>2, <3>1
  <2>3. QED
    BY <1>5, <2>1, <2>2 DEF LockGive
<1>6. CASE NotFound(t) \/ Take(t) \/ Create(t) \/ Clear(t)
  <2>1. op[t].pc \in Critical /\ infoLock' = NoOne
    BY <1>6 DEF NotFound, Take, Create, Clear
  <2>2. op'[t].pc \in {"idle", "setid", "init"}
    BY <1>6 DEF NotFound, Take, Create, Clear, Done, Idle, Shape, OpShape, Record
  <2>3. QED
    BY <1>3, <2>1, <2>2
<1>7. CASE LoadNative(t) \/ LoadPerl(t) \/ LoadNoPerl(t) \/ LoadInit(t)
  <2>1. op[t].pc \in Critical /\ UNCHANGED infoLock
    BY <1>7, Zenon DEF LoadNative, LoadPerl, LoadNoPerl, LoadInit
  <2>2. QED
    BY <1>1, <2>1
<1>8. CASE \/ Call(t) \/ SetId(t) \/ InitPerl(t) \/ ScriptFound(t) \/ Drop(t)
           \/ Delete(t) \/ ScriptLooks(t) \/ EndUse(t)
           \/ \E r \in Res : Use(t, r) \/ Release(t, r)
  <2>1. UNCHANGED infoLock
    BY <1>8, Zenon DEF Call, SetId, InitPerl, ScriptFound, Drop, Delete, ScriptLooks, EndUse, Use, Release
  <2>2. op'[t].pc \in {"idle", "want", "look", "run", "attr", "give", "delete"}
    <3>0. CASE Call(t)
      BY <3>0 DEF Call, Idle, Shape, OpShape
    <3>1. CASE SetId(t) \/ InitPerl(t) \/ Delete(t) \/ EndUse(t)
      BY <3>1, Records, Zenon DEF SetId, InitPerl, Delete, EndUse, Moves
    <3>2. CASE ScriptFound(t) \/ Drop(t) \/ ScriptLooks(t)
      BY <3>2 DEF ScriptFound, Drop, ScriptLooks, Go, Shape, OpShape, Record
    <3>3. CASE \E r \in Res : Use(t, r) \/ Release(t, r)
      BY <3>3, UseEffects DEF Uses, Releases
    <3>4. QED
      BY <1>8, <3>0, <3>1, <3>2, <3>3
  <2>3. QED
    BY <1>1, <2>1, <2>2
<1>9. QED
  BY <1>4, <1>5, <1>6, <1>7, <1>8 DEF Act, Step

\* Steps that leave the lists alone and make no resource.
LEMMA FitsKeep ==
  ASSUME Shape, Single, Fits, NEW t \in Thread, Others(t), Keeps(t) \/ UNCHANGED obj,
         UNCHANGED <<scene, nativeFiles, loaded, available>>, perlFiles' \in {perlFiles, <<>>},
         \A r \in Res : obj'[r].ty = obj[r].ty \/ (r = op[t].r /\ obj'[r].ty = NoOne),
         op'[t].pc # "loadinit",
         op'[t].pc = "clear" => Len(available[obj'[op'[t].r].ty]) < scene.available
  PROVE  Fits'
<1>1. \A u \in Thread \ {t} : op'[u] = op[u] /\ (Keeps(u) => obj'[op[u].r].ty = obj[op[u].r].ty)
  <2>1. ASSUME NEW u \in Thread \ {t}, Keeps(u), Keeps(t)
        PROVE  op[u].r \in Res /\ op[u].r # op[t].r
    BY <2>1, Kept DEF Keeps, Single, PlaceOK
  <2>2. QED
    BY <2>1 DEF Others, Keeps
<1>2. \A ty : ty # NoOne /\ Absent(ty) => Absent(ty)'
  BY DEF Absent
<1>3. Unmade(nativeFiles)' /\ Unmade(perlFiles)'
  BY <1>2 DEF Unmade, Fits
<1>4. ASSUME NEW u \in Thread, (op[u].pc = "loadinit")' PROVE
        (\A r \in Res \ {op[u].r} : obj[r].ty = obj[op[u].r].ty => obj[r].ty = NoOne)'
  <2>1. u # t /\ op'[u] = op[u] /\ Keeps(u)
    BY <1>1, <1>4 DEF Keeps, Keeping
  <2>2. PICK x : x = op[u].r
    OBVIOUS
  <2>3. \A r \in Res \ {x} : obj[r].ty = obj[x].ty => obj[r].ty = NoOne
    BY <1>4, <2>1, <2>2 DEF Fits
  <2>4. obj'[x].ty = obj[x].ty /\ op'[u].r = x
    BY <1>1, <2>1, <2>2
  <2>5. QED
    BY <2>3, <2>4
<1>5. ASSUME NEW u \in Thread, (op[u].pc = "clear")'
      PROVE  (Len(available[obj[op[u].r].ty]) < scene.available)'
  <2>1. CASE u = t
    <3>1. Len(available[obj'[op'[u].r].ty]) < scene.available
      BY <1>5, <2>1
    <3>2. QED
      BY <3>1
  <2>2. CASE u # t
    <3>1. op'[u] = op[u] /\ Keeps(u) /\ op[u].pc = "clear"
      BY <1>1, <1>5, <2>2 DEF Keeps, Keeping
    <3>2. obj'[op[u].r].ty = obj[op[u].r].ty
      BY <1>1, <2>2, <3>1
    <3>3. QED
      BY <3>1, <3>2 DEF Fits
  <2>3. QED
    BY <2>1, <2>2
<1>6. QED
  BY <1>3, <1>4, <1>5 DEF Fits

\* The files that are left when the first one has been tried.
LEMMA UnmadeTail ==
  ASSUME NEW S, NEW files \in Seq(S), files # <<>>, Unmade(files)
  PROVE  /\ Unmade(Tail(files))
         /\ Head(files) # NoOne =>
              /\ Absent(Head(files))
              /\ \A k \in 1..Len(Tail(files)) : Tail(files)[k] # Head(files)
<1>1. /\ Len(files) \in Nat \ {0} /\ Len(Tail(files)) = Len(files) - 1 /\ Head(files) = files[1]
      /\ \A k \in 1..Len(Tail(files)) : Tail(files)[k] = files[k + 1] /\ k + 1 \in 1..Len(files)
  OBVIOUS
<1>2. QED
  BY <1>1 DEF Unmade

\* No resource of a type, or none but those that threads keep: its list is empty.
LEMMA EmptyList ==
  ASSUME Shape, Single, NEW ty \in Type,
         \A r \in Res : obj[r].ty = ty => \E u \in Thread : op[u].r = r
  PROVE  Len(available[ty]) = 0
<1>1. available[ty] \in Seq(Res)
  BY DEF Shape
<1>2. ASSUME Len(available[ty]) # 0 PROVE FALSE
  <2>1. PICK x \in Res : x = available[ty][1] /\ 1 \in 1..Len(available[ty])
    BY <1>1, <1>2
  <2>2. Has(available[ty], x)
    BY <2>1 DEF Has
  <2>3. QED
    BY <2>1, <2>2 DEF Single, PlaceOK
<1>3. QED
  BY <1>2

LEMMA FitsNext ==
  ASSUME Shape, Names, Single, Locked, Fits, NEW t \in Thread, Act(t)
  PROVE  Fits'
<1> USE DEF At, poolVars
<1>0. /\ Shape' /\ Effect(t) /\ Others(t)
      /\ NoOne \notin Type /\ Native \cap PerlType = {} /\ scene.available \in Nat \ {0}
      /\ \A u \in Thread : op[u].pc \in Running \cup Keeping => op[u].r \in Res
      /\ DOMAIN obj = Res
  BY Effects, Kept, PoolAssumption DEF Effect, Shape, SceneOK, ObjShape
\* Those that leave the lists alone.
<1>1. CASE \/ Call(t) \/ LockInfo(t) \/ LoadNoPerl(t) \/ NotFound(t) \/ ScriptLooks(t)
           \/ ScriptFound(t) \/ Drop(t)
  <2>1. Walks(t)
    BY <1>1, WalkEffects
  <2>2. op'[t].pc # "clear"
    <3>1. CASE Call(t)
      BY <3>1 DEF Call, Idle, Shape, OpShape
    <3>2. CASE NotFound(t)
      BY <3>2, Records DEF NotFound, Moves
    <3>3. CASE \/ LockInfo(t) \/ LoadNoPerl(t) \/ ScriptLooks(t) \/ ScriptFound(t) \/ Drop(t)
      BY <3>3, SMTT(30) DEF LockInfo, LoadNoPerl, ScriptLooks, ScriptFound, Drop, Go, Shape, OpShape, Record
    <3>4. QED
      BY <1>1, <3>1, <3>2, <3>3
  <2>3. UNCHANGED <<scene, nativeFiles, loaded>> /\ perlFiles' \in {perlFiles, <<>>}
    BY <1>1 DEF Call, LockInfo, LoadNoPerl, NotFound, ScriptLooks, ScriptFound, Drop
  <2>4. QED
    BY <1>0, <2>1, <2>2, <2>3, FitsKeep DEF Walks, Steady
<1>2. CASE LockGive(t)
  <2>1. Walks(t) /\ UNCHANGED <<scene, nativeFiles, loaded, perlFiles>>
    BY <1>2, WalkEffects DEF LockGive
  <2>2. op'[t].pc = "clear" => Len(available[obj[op[t].r].ty]) < scene.available
    BY <1>2 DEF LockGive, Go, Shape, OpShape, Record
  <2>3. Len(available[obj'[op'[t].r].ty]) = Len(available[obj[op[t].r].ty])
    BY <2>1 DEF Walks, Steady
  <2>4. QED
    BY <1>0, <2>1, <2>2, <2>3, FitsKeep DEF Walks, Steady
<1>3. CASE EndUse(t) \/ \E r \in Res : Use(t, r) \/ Release(t, r)
  <2>1. Ends(t) \/ \E r \in Res : Uses(t, r) \/ Releases(t, r)
    BY <1>3, UseEffects
  <2>2. /\ op'[t].pc \in {"idle", "run", "give"} /\ UNCHANGED <<obj, available>>
        /\ UNCHANGED <<scene, nativeFiles, loaded, perlFiles>>
    BY <1>3, <2>1, Zenon DEF Ends, Uses, Releases, Steady, EndUse, Use, Release
  <2>3. QED
    BY <1>0, <2>2, FitsKeep
<1>4. CASE SetId(t) \/ InitPerl(t) \/ Delete(t)
  <2>1. Keeps(t) /\ op'[t].pc = "idle" /\ op[t].r \in Res
    BY <1>0, <1>4, Records, Zenon DEF SetId, InitPerl, Delete, Keeps, Keeping, Moves
  <2>2. UNCHANGED <<scene, nativeFiles, loaded, perlFiles, available>>
    BY <1>4 DEF SetId, InitPerl, Delete
  <2>3. PICK P : obj \in [Res -> Object(P)]
    BY DEF Shape, ObjShape
  <2>4. \A r \in Res : obj'[r].ty = obj[r].ty \/ (r = op[t].r /\ obj'[r].ty = NoOne)
    BY <1>4, <2>1, <2>3 DEF SetId, InitPerl, Delete, NoObj, Object
  <2>5. QED
    BY <1>0, <2>1, <2>2, <2>4, FitsKeep
\* Those that hold infoLock and change them.
<1>5. ASSUME op[t].pc \in {"load", "loadinit", "clear"}, op'[t].pc # "clear",
             op'[t].pc = "loadinit" =>
               \A r \in Res \ {op'[t].r} : obj'[r].ty = obj'[op'[t].r].ty => obj'[r].ty = NoOne,
             Unmade(nativeFiles)', Unmade(perlFiles)', UNCHANGED scene,
             \A ty \in Type : Len(available'[ty]) <= scene.available
      PROVE  Fits'
  <2>1. \A u \in Thread \ {t} : op'[u] = op[u] /\ op[u].pc \notin {"loadinit", "clear"}
    BY <1>0, <1>5 DEF Locked, Others
  <2>2. QED
    BY <1>5, <2>1 DEF Fits
\* A type other than the one that is made or loaded stays absent.
<1>6. ASSUME NEW n \in Res, NEW ty \in Type \cup {NoOne}, NEW pi, New(n, ty, pi),
             loaded' \in {loaded, loaded \cup {ty}}
      PROVE  /\ obj'[n].ty = ty /\ \A r \in Res \ {n} : obj'[r] = obj[r]
             /\ \A y : y # ty /\ Absent(y) => Absent(y)'
  BY <1>0, <1>6 DEF New, Absent
<1>7. CASE LoadNative(t)
  <2> DEFINE ty == Head(nativeFiles)
  <2>1. /\ Native \subseteq Type /\ PerlType \subseteq Type
        /\ nativeFiles \in Seq(Native \cup {NoOne}) /\ nativeFiles # <<>>
        /\ perlFiles \in Seq(PerlType \cup {NoOne}) /\ ty \in Native \cup {NoOne}
    BY <1>7 DEF LoadNative, Shape, Type
  <2>2. /\ op'[t].pc = "load" /\ op[t].pc = "load" /\ UNCHANGED <<scene, perlFiles>>
        /\ nativeFiles' = Tail(nativeFiles)
    BY <1>7 DEF LoadNative
  <2>3. Unmade(Tail(nativeFiles)) /\ Unmade(perlFiles)
        /\ (ty # NoOne => Absent(ty) /\ \A k \in 1..Len(Tail(nativeFiles)) : Tail(nativeFiles)[k] # ty)
    BY <2>1, UnmadeTail DEF Fits
  <2>4. CASE ty = NoOne
    <3>1. UNCHANGED <<loaded, available, obj>>
      BY <1>7, <2>4 DEF LoadNative
    <3>2. \A y : Absent(y) => Absent(y)'
      BY <3>1 DEF Absent
    <3>3. Unmade(nativeFiles)' /\ Unmade(perlFiles)'
      BY <2>2, <2>3, <3>2 DEF Unmade
    <3>4. QED
      BY <1>5, <2>2, <3>1, <3>3 DEF Fits
  <2>5. CASE ty # NoOne
    <3>1. NewName \in Res
      BY <2>2, NewNameUnused DEF Seeking
    <3>2. /\ New(NewName, ty, NoOne) /\ loaded' = loaded \cup {ty}
          /\ available' = [available EXCEPT ![ty] = Append(@, NewName)]
      BY <1>7, <2>5 DEF LoadNative
    <3>3. \A y : y # ty /\ Absent(y) => Absent(y)'
      BY <1>6, <2>1, <3>1, <3>2
    <3>4. \A k \in 1..Len(perlFiles) : perlFiles[k] # ty
      BY <1>0, <2>1, <2>5
    <3>5. Unmade(nativeFiles)' /\ Unmade(perlFiles)'
      BY <2>2, <2>3, <2>5, <3>3, <3>4 DEF Unmade
    <3>6. \A y \in Type : Len(available'[y]) <= scene.available
      <4>1. Len(available[ty]) = 0 /\ ty \in Type /\ available \in [Type -> Seq(Res)]
        BY <2>1, <2>3, <2>5, EmptyList DEF Absent, Shape
      <4>2. Len(Append(available[ty], NewName)) = 1
        BY <3>1, <4>1
      <4>3. QED
        BY <1>0, <3>2, <4>1, <4>2 DEF Fits
    <3>7. QED
      BY <1>5, <2>2, <3>5, <3>6
  <2>6. QED
    BY <2>4, <2>5
<1>8. CASE LoadPerl(t)
  <2> DEFINE ty == Head(perlFiles)
  <2>1. /\ Native \subseteq Type /\ PerlType \subseteq Type
        /\ perlFiles \in Seq(PerlType \cup {NoOne}) /\ perlFiles # <<>>
        /\ nativeFiles = <<>> /\ ty \in PerlType \cup {NoOne}
    BY <1>8 DEF LoadPerl, Shape, Type
  <2>2. /\ op[t].pc = "load" /\ UNCHANGED <<scene, nativeFiles, loaded, available>>
        /\ perlFiles' = Tail(perlFiles) /\ New(NewName, ty, Chosen)
        /\ op' = [op EXCEPT ![t].pc = "loadinit", ![t].r = NewName]
    BY <1>8 DEF LoadPerl
  <2>3. op'[t].pc = "loadinit" /\ op'[t].r = NewName
    BY <2>2 DEF Shape, OpShape, Record
  <2>4. Unmade(Tail(perlFiles)) /\ Unmade(nativeFiles)
        /\ (ty # NoOne => Absent(ty) /\ \A k \in 1..Len(Tail(perlFiles)) : Tail(perlFiles)[k] # ty)
    BY <2>1, UnmadeTail DEF Fits
  <2>5. NewName \in Res
    BY <2>2, NewNameUnused DEF Seeking
  <2>6. /\ obj'[NewName].ty = ty /\ \A r \in Res \ {NewName} : obj'[r] = obj[r]
        /\ \A y : y # ty /\ Absent(y) => Absent(y)'
    BY <1>6, <2>1, <2>2, <2>5
  <2>7. Unmade(nativeFiles)' /\ Unmade(perlFiles)'
    BY <2>1, <2>2, <2>4, <2>6 DEF Unmade
  <2>8. \A r \in Res \ {op'[t].r} : obj'[r].ty = obj'[op'[t].r].ty => obj'[r].ty = NoOne
    BY <2>3, <2>4, <2>6 DEF Absent
  <2>9. QED
    BY <1>5, <2>2, <2>3, <2>7, <2>8 DEF Fits
<1>9. CASE LoadInit(t)
  <2>1. /\ op[t].pc = "loadinit" /\ op[t].pc \in Keeping /\ op'[t].pc = "load"
        /\ UNCHANGED <<scene, nativeFiles, perlFiles>>
    BY <1>9 DEF LoadInit, Keeping, Shape, OpShape, Record
  <2>2. PICK x \in Res : x = op[t].r
    BY <1>0, <2>1
  <2>3. PICK ty \in Type \cup {NoOne} : ty = obj[x].ty
    BY DEF Shape, ObjShape, Object
  <2>4. \A r \in Res \ {x} : obj[r].ty = ty => obj[r].ty = NoOne
    BY <2>1, <2>2, <2>3 DEF Fits
  <2>5. CASE ty = NoOne
    <3>1. UNCHANGED <<loaded, available>> /\ obj' = [obj EXCEPT ![x] = NoObj] /\ NoObj.ty = NoOne
      BY <1>9, <2>2, <2>3, <2>5 DEF LoadInit, NoObj
    <3>2. \A y : y # NoOne /\ Absent(y) => Absent(y)'
      BY <1>0, <3>1 DEF Absent
    <3>3. Unmade(nativeFiles)' /\ Unmade(perlFiles)'
      BY <2>1, <3>2 DEF Unmade, Fits
    <3>4. QED
      BY <1>5, <2>1, <3>1, <3>3 DEF Fits
  <2>6. CASE ty # NoOne
    <3>1. /\ UNCHANGED obj /\ loaded' = loaded \cup {ty}
          /\ available' = [available EXCEPT ![ty] = Append(@, x)]
      BY <1>9, <2>2, <2>3, <2>6 DEF LoadInit
    <3>2. \A y : Absent(y) => Absent(y)'
      BY <2>3, <3>1 DEF Absent
    <3>3. Unmade(nativeFiles)' /\ Unmade(perlFiles)'
      BY <2>1, <3>2 DEF Unmade, Fits
    <3>4. \A y \in Type : Len(available'[y]) <= scene.available
      <4>1. Len(available[ty]) = 0 /\ ty \in Type /\ available \in [Type -> Seq(Res)]
        BY <2>2, <2>3, <2>4, <2>6, EmptyList DEF Shape
      <4>2. Len(Append(available[ty], x)) = 1
        BY <4>1
      <4>3. QED
        BY <1>0, <3>1, <4>1, <4>2 DEF Fits
    <3>5. QED
      BY <1>5, <2>1, <3>3, <3>4
  <2>7. QED
    BY <2>5, <2>6
<1>10. CASE Take(t)
  <2>1. /\ op[t].pc = "load" /\ op[t].ty \in Type /\ op'[t].pc = "setid"
        /\ UNCHANGED <<scene, nativeFiles, perlFiles, loaded, obj>>
        /\ available[op[t].ty] # <<>>
        /\ available' = [available EXCEPT ![op[t].ty] = Front(@)]
    BY <1>10 DEF Take, Shape, OpShape, Record, Seeking
  <2>2. \A y : Absent(y) => Absent(y)'
    BY <2>1 DEF Absent
  <2>3. Unmade(nativeFiles)' /\ Unmade(perlFiles)'
    BY <2>1, <2>2 DEF Unmade, Fits
  <2>4. PICK ty \in Type : ty = op[t].ty
    BY <2>1
  <2>5. available \in [Type -> Seq(Res)] /\ Distinct(available[ty]) /\ available[ty] # <<>>
    BY <2>1, <2>4 DEF Shape, Single
  <2>6. Len(Front(available[ty])) \in Nat /\ Len(Front(available[ty])) <= Len(available[ty])
    BY <2>5, HasFront
  <2>7. \A y \in Type : Len(available'[y]) <= scene.available
    <3>1. Len(available[ty]) \in Nat /\ Len(available[ty]) <= scene.available
      BY <2>5 DEF Fits
    <3>2. Len(available'[ty]) <= scene.available
      BY <1>0, <2>1, <2>4, <2>5, <2>6, <3>1
    <3>3. QED
      BY <2>1, <2>4, <2>5, <3>2 DEF Fits
  <2>8. QED
    BY <1>5, <2>1, <2>3, <2>7
<1>11. CASE Create(t)
  <2>1. /\ op[t].pc = "load" /\ op[t].ty \in Type /\ op[t].ty \in loaded
        /\ UNCHANGED <<scene, nativeFiles, perlFiles, loaded, available>>
        /\ \E pi : New(NewName, op[t].ty, pi)
    BY <1>11 DEF Create, Shape, OpShape, Seeking
  <2>2. op'[t].pc \in {"idle", "init"}
    BY <1>11 DEF Create, Done, Idle, Shape, OpShape, Record
  <2>3. NewName \in Res
    BY <2>1, NewNameUnused DEF Seeking
  <2>4. \A y : y # op[t].ty /\ Absent(y) => Absent(y)'
    BY <1>6, <2>1, <2>3
  <2>5. \A y : Absent(y) => Absent(y)'
    BY <2>1, <2>4 DEF Absent
  <2>6. Unmade(nativeFiles)' /\ Unmade(perlFiles)'
    BY <2>1, <2>5 DEF Unmade, Fits
  <2>7. QED
    BY <1>5, <2>1, <2>2, <2>6 DEF Fits
<1>12. CASE Clear(t)
  <2>1. /\ op[t].pc = "clear" /\ op[t].pc \in Keeping /\ op'[t].pc = "idle"
        /\ UNCHANGED <<scene, nativeFiles, perlFiles, loaded>>
        /\ obj' = [obj EXCEPT ![op[t].r].id = 0]
        /\ available' = [available EXCEPT ![obj[op[t].r].ty] = Append(@, op[t].r)]
    BY <1>12, Records, Zenon DEF Clear, Keeping, Moves
  <2>2. PICK x \in Res : x = op[t].r
    BY <1>0, <2>1
  <2>3. PICK ty \in Type : ty = obj[x].ty
    BY <2>1, <2>2 DEF Single, KeepOK, Keeps, Loads
  <2>4. obj'[x].ty = obj[x].ty /\ \A r \in Res \ {x} : obj'[r] = obj[r]
    BY <2>1, <2>2, RenumberShape
  <2>5. \A y : Absent(y) => Absent(y)'
    BY <2>1, <2>4 DEF Absent
  <2>6. Unmade(nativeFiles)' /\ Unmade(perlFiles)'
    BY <2>1, <2>5 DEF Unmade, Fits
  <2>7. \A y \in Type : Len(available'[y]) <= scene.available
    <3>1. Len(available[ty]) < scene.available /\ available \in [Type -> Seq(Res)]
      BY <2>1, <2>2, <2>3 DEF Fits, Shape
    <3>2. Len(Append(available[ty], x)) = Len(available[ty]) + 1 /\ Len(available[ty]) \in Nat
      BY <3>1
    <3>3. QED
      BY <1>0, <2>1, <2>2, <2>3, <3>1, <3>2 DEF Fits
  <2>8. QED
    BY <1>5, <2>1, <2>6, <2>7
<1>13. QED
  BY <1>1, <1>2, <1>3, <1>4, <1>7, <1>8, <1>9, <1>10, <1>11, <1>12 DEF Act, Step

(***************************************************************************)
(* The invariant and the theorems.                                         *)
(***************************************************************************)
PoolInv == Shape /\ Names /\ Single /\ Ids /\ Locked /\ (OneFileEach => Fits)

LEMMA PoolInvInit == Init => PoolInv
<1> SUFFICES ASSUME Init PROVE PoolInv
  OBVIOUS
<1>1. Shape
  BY ShapeInit
<1>2. /\ op = [t \in Thread |-> Idle] /\ obj = [r \in Res |-> NoObj]
      /\ user = [r \in Res |-> NoOne] /\ available = [ty \in Type |-> <<>>] /\ nextId = 1
      /\ loaded = {} /\ nativeFiles = scene.native /\ perlFiles = scene.perl
  BY DEF Init
<1>3. /\ \A t \in Thread : op[t].pc = "idle" /\ op[t].r = NoOne
      /\ NoOne \notin Res /\ NoOne \notin Type
      /\ NoObj.id = 0 /\ NoObj.ty = NoOne
  BY <1>2, PoolAssumption DEF Idle, NoObj
<1>4. \A ty \in Type : Len(available[ty]) = 0 /\ Distinct(available[ty])
        /\ \A r \in Res : ~Has(available[ty], r)
  BY <1>2 DEF Distinct, Has
<1>5. Names
  BY <1>3 DEF Names, Seekers, Seeking
<1>6. Single
  BY <1>2, <1>3, <1>4 DEF Single, PlaceOK, KeepOK, Keeps, Runs, Keeping, Running
<1>7. Ids
  BY <1>2, <1>3 DEF Ids
<1>8. Locked
  BY <1>3 DEF Locked
<1>9. ASSUME OneFileEach PROVE Fits
  <2>1. \A ty : ty # NoOne => Absent(ty)
    BY <1>2, <1>3 DEF Absent
  <2>2. Unmade(nativeFiles) /\ Unmade(perlFiles)
    BY <1>2, <1>9, <2>1 DEF OneFileEach, Unmade
  <2>3. scene.available \in Nat
    BY <1>1, PoolAssumption DEF Shape, SceneOK
  <2>4. QED
    BY <1>3, <1>4, <2>2, <2>3 DEF Fits
<1>10. QED
  BY <1>1, <1>5, <1>6, <1>7, <1>8, <1>9 DEF PoolInv

LEMMA PoolInvNext == PoolInv /\ [Next]_vars => PoolInv'
<1>1. ASSUME PoolInv, NEW t \in Thread, Act(t) PROVE PoolInv'
  <2>1. Shape' /\ Names' /\ Single' /\ Ids' /\ Locked'
    BY <1>1, Effects, NamesNext, SingleNext, IdsNext, LockedNext DEF PoolInv
  <2>2. UNCHANGED scene
    BY <1>1, Zenon DEF Act, Step, Call, LockInfo, LoadNative, LoadPerl, LoadNoPerl, LoadInit, NotFound,
       Take, SetId, Create, InitPerl, ScriptFound, LockGive, Clear, Drop, Delete, ScriptLooks,
       EndUse, Use, Release
  <2>3. OneFileEach' => Fits'
    BY <1>1, <2>2, FitsNext DEF PoolInv, OneFileEach
  <2>4. QED
    BY <2>1, <2>3 DEF PoolInv
<1>2. ASSUME PoolInv, UNCHANGED vars PROVE PoolInv'
  <2>1. UNCHANGED <<scene, nativeFiles, perlFiles, loaded, available, infoLock, nextId, obj, user, op>>
    BY <1>2 DEF vars, poolVars
  <2>2. Shape'
    BY <1>2, <2>1 DEF PoolInv, Shape, ObjShape, OpShape
  <2>3. Names'
    BY <1>2, <2>1 DEF PoolInv, Names, Seekers, Unused
  <2>4. Single'
    BY <1>2, <2>1 DEF PoolInv, Single, PlaceOK, KeepOK, Keeps, Runs, Loads
  <2>5. Ids' /\ Locked'
    BY <1>2, <2>1 DEF PoolInv, Ids, Locked
  <2>6. OneFileEach' => Fits'
    BY <1>2, <2>1 DEF PoolInv, OneFileEach, Fits, Unmade, Absent
  <2>7. QED
    BY <2>2, <2>3, <2>4, <2>5, <2>6 DEF PoolInv
<1>3. QED
  BY <1>1, <1>2 DEF Next, Act

\* ResourceRegistry::AcquireResource and Resource::Resource give out a number
\* once, and a cleared resource gets a new one before it has a user: resources
\* in use always have different identifiers, whatever the interleaving of
\* AcquireResource, ReleaseResource and LoadResourceLibrary.
THEOREM Identified == Spec => []IdsDistinct
<1>1. PoolInv => IdsDistinct
  BY DEF PoolInv, Ids, IdsDistinct
<1>2. QED
  BY <1>1, PoolInvInit, PoolInvNext, PTL DEF Spec

\* A resource has one user, or is on one list of free resources once, or is
\* kept by the one thread that makes or releases it, although AcquireResource
\* and ReleaseResource give up infoLock before they finish; and a list never
\* exceeds AVAILABLE_SIZE_MAX, when no two files of the search paths provide
\* the same type.  (LoadResourceLibrary appends a resource for every file
\* without a look at the length of the list.)
THEOREM Held == Spec => [](OneFileEach => HeldOnce)
<1>1. ASSUME PoolInv, OneFileEach PROVE HeldOnce
  <2>1. IdsDistinct
    BY <1>1 DEF PoolInv, Ids, IdsDistinct
  <2>2. ASSUME NEW ty \in Type
        PROVE  /\ IsInjective(available[ty])
               /\ \A r \in Range(available[ty]) : r \in Res /\ Has(available[ty], r)
    <3>1. available[ty] \in Seq(Res) /\ Distinct(available[ty])
      BY <1>1 DEF PoolInv, Shape, Single
    <3>2. DOMAIN available[ty] = 1..Len(available[ty])
      BY <3>1
    <3>3. QED
      BY <3>1, <3>2 DEF IsInjective, Range, Distinct, Has
  <2>3. ASSUME NEW ty \in Type, NEW r \in Range(available[ty])
        PROVE  user[r] = NoOne /\ obj[r].ty = ty /\ \A t \in Thread : op[t].r # r
    <3>1. r \in Res /\ Has(available[ty], r) /\ PlaceOK(r)
      BY <1>1, <2>2 DEF PoolInv, Single
    <3>2. QED
      BY <3>1 DEF PlaceOK
  <2>4. \A ty \in Type : Len(available[ty]) <= scene.available
    BY <1>1 DEF PoolInv, Fits
  <2>5. OneHolder
    BY <2>2, <2>3, <2>4 DEF OneHolder
  <2>6. QED
    BY <2>1, <2>5 DEF HeldOnce
<1>2. PoolInv => (OneFileEach => HeldOnce)
  BY <1>1
<1>3. QED
  BY <1>2, PoolInvInit, PoolInvNext, PTL DEF Spec

(***************************************************************************)
(* Who holds the locks: infoLock a thread that loads, takes or clears, the *)
(* lock of an interpreter a thread that runs Perl code of a resource in it.*)
(***************************************************************************)
Holders ==
  /\ infoLock # NoOne => op[infoLock].pc \in {"load", "loadinit", "clear"}
  /\ perlLock \in [Interp -> Thread \cup {NoOne}]
  /\ \A p \in Interp : perlLock[p] # NoOne =>
       op[perlLock[p]].pc \in Running /\ obj[op[perlLock[p]].r].pi = p

\* No step of a thread touches a resource that another one runs.
LEMMA OthersKept ==
  ASSUME Shape, Names, Single, NEW t \in Thread, Act(t)
  PROVE  \A u \in Thread \ {t} : op'[u] = op[u] /\ (Runs(u) => obj'[op[u].r] = obj[op[u].r])
<1>1. Effect(t) /\ \A u \in Thread \ {t} : op'[u] = op[u]
  BY Effects DEF Effect, Others
<1>2. SUFFICES ASSUME NEW u \in Thread \ {t}, Runs(u)
               PROVE  obj'[op[u].r] = obj[op[u].r]
  BY <1>1
<1>3. PICK x \in Res : x = op[u].r
  BY <1>2, Kept DEF Runs
<1>4. PlaceOK(x) /\ DOMAIN obj = Res
  BY DEF Single, Shape, ObjShape
<1>5. x # op[t].r /\ obj[x] # NoObj
  BY <1>2, <1>3, <1>4 DEF PlaceOK
<1>6. ASSUME NEW n \in Res, NEW ty, Made(n, ty) PROVE obj'[x] = obj[x]
  BY <1>5, <1>6 DEF Made, Unused
<1>7. CASE Walks(t) \/ Ends(t) \/ \E r \in Res : Uses(t, r) \/ Releases(t, r)
  BY <1>3, <1>7 DEF Walks, Ends, Uses, Releases, Steady
<1>8. CASE Discards(t) \/ Receives(t) \/ \E ty \in Type : Shelves(t, ty) \/ Takes(t, ty)
  BY <1>3, <1>4, <1>5, <1>8 DEF Discards, Receives, Shelves, Takes
<1>9. CASE \E n \in Res, ty \in Type \cup {NoOne} :
             Lists(t, n, ty) \/ Makes(t, n, ty) \/ Gives(t, n, ty)
  BY <1>3, <1>6, <1>9 DEF Lists, Makes, Gives
<1>10. QED
  BY <1>1, <1>7, <1>8, <1>9 DEF Effect

LEMMA HoldersNext ==
  ASSUME Shape, Names, Single, Locked, Holders, NEW t \in Thread, Act(t)
  PROVE  Holders'
<1> DEFINE Critical == {"load", "loadinit", "clear"}
<1>0. /\ \A u \in Thread \ {t} : op'[u] = op[u] /\ (Runs(u) => obj'[op[u].r] = obj[op[u].r])
      /\ NoOne \notin Thread /\ NoOne \notin Res
      /\ perlLock \in [Interp -> Thread \cup {NoOne}] /\ infoLock \in Thread \cup {NoOne}
      /\ op \in [Thread -> Record] /\ DOMAIN obj = Res
  BY OthersKept, PoolAssumption DEF Holders, Shape, OpShape, ObjShape
<1> DEFINE InfoHeld == infoLock # NoOne => op[infoLock].pc \in Critical
           PerlHeld == \A p \in Interp : perlLock[p] # NoOne =>
                         op[perlLock[p]].pc \in Running /\ obj[op[perlLock[p]].r].pi = p
\* infoLock ...
<1>1. ASSUME UNCHANGED infoLock, op[t].pc \in Critical => op'[t].pc \in Critical PROVE InfoHeld'
  BY <1>0, <1>1 DEF Holders
<1>2. ASSUME infoLock' = NoOne PROVE InfoHeld'
  BY <1>2
<1>3. ASSUME infoLock' = t, op'[t].pc \in Critical PROVE InfoHeld'
  BY <1>0, <1>3
\* ... and the locks of the interpreters, for a thread that runs no Perl code.
<1>4. ASSUME UNCHANGED perlLock, op[t].pc \notin Running PROVE PerlHeld'
  <2>1. SUFFICES ASSUME NEW p \in Interp, perlLock[p] # NoOne
                 PROVE  op'[perlLock[p]].pc \in Running /\ obj'[op'[perlLock[p]].r].pi = p
    BY <1>4
  <2>2. PICK u \in Thread : u = perlLock[p]
    BY <1>0, <2>1
  <2>3. op[u].pc \in Running /\ obj[op[u].r].pi = p
    BY <2>1, <2>2 DEF Holders
  <2>4. u # t /\ Runs(u)
    BY <1>4, <2>3 DEF Runs
  <2>5. QED
    BY <1>0, <2>2, <2>3, <2>4
<1> USE DEF At
<1>5. CASE ScriptLooks(t) \/ ScriptFound(t)
  <2>1. /\ op[t].pc \in Running /\ op'[t].pc \in Running /\ op'[t].r = op[t].r
        /\ UNCHANGED <<perlLock, infoLock, obj>>
    BY <1>0, <1>5 DEF ScriptLooks, ScriptFound, Go, Record, Running
  <2>2. op[t].pc \notin Critical
    BY <2>1 DEF Running
  <2>3. \A u \in Thread : (op[u].pc \in Running <=> op'[u].pc \in Running) /\ op'[u].r = op[u].r
    BY <1>0, <2>1
  <2>4. PerlHeld'
    BY <1>0, <2>1, <2>3 DEF Holders
  <2>5. QED
    BY <1>0, <1>1, <2>1, <2>2, <2>4 DEF Holders
<1>6. CASE EndUse(t)
  <2>1. /\ op[t].pc \in Running /\ UNCHANGED <<infoLock, obj>>
        /\ perlLock' = [perlLock EXCEPT ![obj[op[t].r].pi] = NoOne]
    BY <1>6 DEF EndUse, Running
  <2>2. op[t].pc \notin Critical /\ perlLock' \in [Interp -> Thread \cup {NoOne}]
    BY <1>0, <2>1 DEF Running
  <2>3. PerlHeld'
    <3>1. SUFFICES ASSUME NEW p \in Interp, perlLock'[p] # NoOne
                   PROVE  op'[perlLock'[p]].pc \in Running /\ obj'[op'[perlLock'[p]].r].pi = p
      OBVIOUS
    <3>2. p # obj[op[t].r].pi /\ perlLock'[p] = perlLock[p]
      BY <1>0, <2>1, <3>1
    <3>3. PICK u \in Thread : u = perlLock[p]
      BY <1>0, <3>1, <3>2
    <3>4. op[u].pc \in Running /\ obj[op[u].r].pi = p
      BY <3>1, <3>2, <3>3 DEF Holders
    <3>5. u # t
      BY <3>2, <3>4
    <3>6. QED
      BY <1>0, <2>1, <3>2, <3>3, <3>4, <3>5
  <2>4. QED
    BY <1>1, <2>1, <2>2, <2>3 DEF Holders
<1>7. CASE \E r \in Res : Use(t, r)
  <2>1. PICK r \in Res : Use(t, r)
    BY <1>7
  <2>2. /\ op[t].pc = "idle" /\ op'[t].pc = "run" /\ op'[t].r = r
        /\ UNCHANGED <<infoLock, obj>> /\ perlLock' = [perlLock EXCEPT ![obj[r].pi] = t]
    BY <1>0, <2>1 DEF Use, Idle
  <2>3. op[t].pc \notin Critical /\ op[t].pc \notin Running /\ op'[t].pc \in Running
        /\ perlLock' \in [Interp -> Thread \cup {NoOne}]
    BY <1>0, <2>2 DEF Running
  <2>4. PerlHeld'
    <3>1. SUFFICES ASSUME NEW p \in Interp, perlLock'[p] # NoOne
                   PROVE  op'[perlLock'[p]].pc \in Running /\ obj'[op'[perlLock'[p]].r].pi = p
      OBVIOUS
    <3>2. CASE p = obj[r].pi
      BY <1>0, <2>2, <2>3, <3>2
    <3>3. CASE p # obj[r].pi
      <4>1. perlLock'[p] = perlLock[p]
        BY <1>0, <2>2, <3>3
      <4>2. PICK u \in Thread : u = perlLock[p]
        BY <1>0, <3>1, <4>1
      <4>3. op[u].pc \in Running /\ obj[op[u].r].pi = p
        BY <3>1, <4>1, <4>2 DEF Holders
      <4>4. u # t
        BY <2>3, <4>3
      <4>5. QED
        BY <1>0, <2>2, <4>1, <4>2, <4>3, <4>4
    <3>4. QED
      BY <3>2, <3>3
  <2>5. QED
    BY <1>1, <2>2, <2>3, <2>4 DEF Holders
<1>8. ASSUME ~(ScriptLooks(t) \/ ScriptFound(t) \/ EndUse(t) \/ \E r \in Res : Use(t, r))
      PROVE  UNCHANGED perlLock /\ op[t].pc \notin Running
  BY <1>8, Zenon DEF Act, Step, Call, LockInfo, LoadNative, LoadPerl, LoadNoPerl, LoadInit, NotFound,
     Take, SetId, Create, InitPerl, LockGive, Clear, Drop, Delete, Release, Running
<1>9. CASE NotFound(t) \/ Take(t) \/ Create(t) \/ Clear(t)
  <2>1. infoLock' = NoOne
    BY <1>9, SMTT(30) DEF NotFound, Take, Create, Clear
  <2>2. UNCHANGED perlLock /\ op[t].pc \notin Running
    BY <1>9 DEF NotFound, Take, Create, Clear, Running
  <2>3. QED
    BY <1>0, <1>2, <1>4, <2>1, <2>2 DEF Holders
<1>10. CASE LockInfo(t) \/ LockGive(t)
  <2>1. UNCHANGED perlLock /\ op[t].pc \notin Running \cup Critical
    BY <1>10 DEF LockInfo, LockGive, Running
  <2>2. \/ infoLock' = t /\ op'[t].pc \in Critical
        \/ UNCHANGED infoLock
    BY <1>0, <1>10 DEF LockInfo, LockGive, Go, Record
  <2>3. QED
    BY <1>0, <1>1, <1>3, <1>4, <2>1, <2>2 DEF Holders
<1>11. CASE LoadNative(t) \/ LoadPerl(t) \/ LoadNoPerl(t) \/ LoadInit(t)
  <2>1. UNCHANGED <<perlLock, infoLock>> /\ op[t].pc \notin Running
    BY <1>11, Zenon DEF LoadNative, LoadPerl, LoadNoPerl, LoadInit, Running
  <2>2. op'[t].pc \in Critical
    <3>1. CASE LoadNative(t) \/ LoadNoPerl(t)
      BY <3>1 DEF LoadNative, LoadNoPerl
    <3>2. CASE LoadPerl(t)
      BY <1>0, <3>2 DEF LoadPerl, Record
    <3>3. CASE LoadInit(t)
      BY <1>0, <3>3 DEF LoadInit, Record
    <3>4. QED
      BY <1>11, <3>1, <3>2, <3>3
  <2>3. QED
    BY <1>0, <1>1, <1>4, <2>1, <2>2 DEF Holders
<1>12. CASE \/ Call(t) \/ SetId(t) \/ InitPerl(t) \/ Drop(t) \/ Delete(t)
            \/ \E r \in Res : Release(t, r)
  <2>1. UNCHANGED <<perlLock, infoLock>> /\ op[t].pc \notin Running \cup Critical
    BY <1>12, Zenon DEF Call, SetId, InitPerl, Drop, Delete, Release, Running
  <2>2. QED
    BY <1>0, <1>1, <1>4, <2>1 DEF Holders
<1>13. QED
  BY <1>5, <1>6, <1>7, <1>9, <1>10, <1>11, <1>12 DEF Act, Step

LEMMA HoldersInv == Spec => [](PoolInv /\ Holders)
<1>1. Init => PoolInv /\ Holders
  <2>1. Init => Holders
    BY PoolAssumption DEF Init, Holders
  <2>2. QED
    BY <2>1, PoolInvInit
<1>2. PoolInv /\ Holders /\ [Next]_vars => (PoolInv /\ Holders)'
  <2>1. ASSUME PoolInv, Holders, NEW t \in Thread, Act(t) PROVE Holders'
    BY <2>1, HoldersNext DEF PoolInv
  <2>2. ASSUME PoolInv, Holders, UNCHANGED vars PROVE Holders'
    BY <2>2 DEF Holders, vars, perlVars
  <2>3. QED
    BY <2>1, <2>2, PoolInvNext DEF Next, Act
<1>3. QED
  BY <1>1, <1>2, PTL DEF Spec

(***************************************************************************)
(* The heap of the interpreters.  A set of natural numbers has a least     *)
(* element, which gives induction over the places of the heap.             *)
(***************************************************************************)
LEMMA Least == ASSUME NEW T \in SUBSET Nat, T # {} PROVE \E n \in T : \A m \in T : n <= m
<1>1. PICK R : R = OpToRel(<, Nat)
  OBVIOUS
<1>2. IsWellFoundedOn(R, Nat)
  BY <1>1, NatLessThanWellFounded, Zenon
<1>3. PICK n \in T : \A m \in T : ~(<<m, n>> \in R)
  BY <1>2, WFMin
<1>4. \A m \in T : m < n => <<m, n>> \in R
  BY <1>1 DEF OpToRel
<1>5. ASSUME NEW m \in T PROVE n <= m
  <2>1. n \in Nat /\ m \in Nat /\ ~(m < n)
    BY <1>3, <1>4
  <2>2. QED
    BY <2>1
<1>6. QED
  BY <1>5

\* A walk through places 1..n: p[k] is the place after k, 0 at its end, and
\* each place has a lower rank than the one before.
Ranked(p, rank, n) ==
  /\ n \in Nat /\ p \in [1..n -> 0..n] /\ rank \in [1..n -> 0..n]
  /\ \A k \in 1..n : p[k] # 0 => rank[p[k]] < rank[k]

\* What holds of a place when it holds of all of lower rank holds of all.
LEMMA ByRank ==
  ASSUME NEW n \in Nat, NEW rank \in [1..n -> 0..n], NEW S,
         \A k \in 1..n : (\A j \in 1..n : rank[j] < rank[k] => j \in S) => k \in S
  PROVE  \A k \in 1..n : k \in S
<1>1. PICK T : T = {m \in 0..n : \E k \in 1..n : k \notin S /\ rank[k] = m}
  OBVIOUS
<1>2. T \in SUBSET Nat
  BY <1>1
<1>3. SUFFICES ASSUME NEW k0 \in 1..n, k0 \notin S PROVE FALSE
  OBVIOUS
<1>4. rank[k0] \in T
  BY <1>1, <1>3
<1>5. PICK m \in T : \A j \in T : m <= j
  BY <1>2, <1>4, Least
<1>6. PICK k \in 1..n : k \notin S /\ rank[k] = m
  BY <1>1, <1>5
<1>7. ASSUME NEW j \in 1..n, rank[j] < rank[k], j \notin S PROVE FALSE
  <2>1. rank[j] \in T /\ rank[j] \in 0..n /\ rank[k] \in 0..n
    BY <1>1, <1>7
  <2>2. m <= rank[j]
    BY <1>5, <2>1
  <2>3. QED
    BY <1>6, <1>7, <2>1, <2>2
<1>8. QED
  BY <1>6, <1>7

\* h after the walk from k: what is behind moves to the hole, v comes last.
Body(h, v, p, f, k) ==
  IF p[k] # 0 THEN [f[p[k]] EXCEPT ![k] = h[p[k]]] ELSE [h EXCEPT ![k] = v]
Walked(h, v, p, n, f) == f = [k \in 1..n |-> Body(h, v, p, f, k)]

LEMMA WalkExists ==
  ASSUME NEW h, NEW v, NEW p, NEW rank, NEW n, Ranked(p, rank, n)
  PROVE  \E f : Walked(h, v, p, n, f)
<1>0. /\ n \in Nat /\ p \in [1..n -> 0..n] /\ rank \in [1..n -> 0..n]
      /\ \A k \in 1..n : p[k] # 0 => p[k] \in 1..n /\ rank[p[k]] < rank[k]
  BY DEF Ranked
<1>1. PICK P : P = {m \in 0..n + 1 :
                     \E f : \A k \in 1..n : rank[k] < m => f[k] = Body(h, v, p, f, k)}
  OBVIOUS
<1>2. 0 \in P
  <2>1. \A k \in 1..n : ~(rank[k] < 0)
    BY <1>0
  <2>2. QED
    BY <1>0, <1>1, <2>1
<1>3. ASSUME NEW m \in 0..n, m \in P PROVE m + 1 \in P
  <2>1. PICK f : \A k \in 1..n : rank[k] < m => f[k] = Body(h, v, p, f, k)
    BY <1>1, <1>3
  <2>2. PICK g : g = [k \in 1..n |-> Body(h, v, p, f, k)]
    OBVIOUS
  <2>3. \A k \in 1..n : g[k] = Body(h, v, p, f, k)
    BY <2>2
  <2>4. \A k \in 1..n : rank[k] < m => g[k] = f[k]
    BY <2>1, <2>3
  <2>5. ASSUME NEW k \in 1..n, rank[k] < m + 1 PROVE g[k] = Body(h, v, p, g, k)
    <3>1. CASE p[k] # 0
      <4>1. p[k] \in 1..n /\ rank[p[k]] < m
        BY <1>0, <2>5, <3>1
      <4>2. g[p[k]] = f[p[k]]
        BY <2>4, <4>1
      <4>3. QED
        BY <2>3, <3>1, <4>2 DEF Body
    <3>2. CASE p[k] = 0
      BY <2>3, <3>2 DEF Body
    <3>3. QED
      BY <3>1, <3>2
  <2>6. m + 1 \in 0..n + 1
    BY <1>0
  <2>7. QED
    BY <1>1, <2>5, <2>6
<1>4. n + 1 \in P
  <2>1. PICK T : T = {m \in 0..n + 1 : m \notin P}
    OBVIOUS
  <2>2. SUFFICES ASSUME n + 1 \notin P PROVE FALSE
    OBVIOUS
  <2>3. T \in SUBSET Nat /\ n + 1 \in T
    BY <1>0, <2>1, <2>2
  <2>4. PICK m \in T : \A j \in T : m <= j
    BY <2>3, Least
  <2>5. m \in 0..n + 1 /\ m \notin P /\ m # 0
    BY <1>2, <2>1, <2>4
  <2>6. m - 1 \in 0..n /\ m - 1 \in 0..n + 1 /\ ~(m <= m - 1) /\ (m - 1) + 1 = m
    BY <1>0, <2>5
  <2>7. m - 1 \in P
    BY <2>1, <2>4, <2>6
  <2>8. QED
    BY <1>3, <2>5, <2>6, <2>7
<1>5. PICK f : \A k \in 1..n : rank[k] < n + 1 => f[k] = Body(h, v, p, f, k)
  BY <1>1, <1>4
<1>6. \A k \in 1..n : f[k] = Body(h, v, p, f, k)
  BY <1>0, <1>5
<1>7. PICK g : g = [k \in 1..n |-> f[k]]
  OBVIOUS
<1>8. \A k \in 1..n : g[k] = f[k]
  BY <1>7
<1>9. \A k \in 1..n : g[k] = Body(h, v, p, g, k)
  <2>1. SUFFICES ASSUME NEW k \in 1..n PROVE g[k] = Body(h, v, p, g, k)
    OBVIOUS
  <2>2. p[k] # 0 => g[p[k]] = f[p[k]]
    BY <1>0, <1>8
  <2>3. QED
    BY <1>6, <1>8, <2>2 DEF Body
<1>10. g = [k \in 1..n |-> Body(h, v, p, g, k)]
  BY <1>7, <1>9
<1>11. QED
  BY <1>10 DEF Walked

Once(g, T) == \A i, j \in T : g[i] = g[j] => i = j
In(g, T, x) == \E j \in T : g[j] = x

\* What the walk says, place by place.
Stepwise(h, v, p, rank, n, f) ==
  /\ n \in Nat /\ rank \in [1..n -> 0..n]
  /\ \A k \in 1..n : rank[k] \in Nat
  /\ \A k \in 1..n : p[k] # 0 => p[k] \in 1..n /\ rank[p[k]] < rank[k]
  /\ \A k \in 1..n : f[k] = Body(h, v, p, f, k)

LEMMA WalkSteps ==
  ASSUME NEW h, NEW v, NEW p, NEW rank, NEW n, NEW f,
         Ranked(p, rank, n), Walked(h, v, p, n, f)
  PROVE  Stepwise(h, v, p, rank, n, f)
<1>1. PICK g : g = [k \in 1..n |-> Body(h, v, p, f, k)]
  OBVIOUS
<1>2. f = g
  BY <1>1 DEF Walked
<1>3. \A k \in 1..n : f[k] = Body(h, v, p, f, k)
  BY <1>1, <1>2
<1>4. QED
  BY <1>3 DEF Ranked, Stepwise

\* Places of higher rank than k are as they were.
Left(h, I, rank, n, f) ==
  \A k \in 1..n : /\ f[k] \in [1..n -> I]
                  /\ \A j \in 1..n : rank[j] > rank[k] => f[k][j] = h[j]

LEMMA WalkLeaves ==
  ASSUME NEW I, NEW n, NEW h \in [1..n -> I], NEW v \in I, NEW p, NEW rank, NEW f,
         Ranked(p, rank, n), Walked(h, v, p, n, f)
  PROVE  Left(h, I, rank, n, f)
<1>0. /\ n \in Nat /\ rank \in [1..n -> 0..n]
      /\ \A k \in 1..n : rank[k] \in Nat
      /\ \A k \in 1..n : p[k] # 0 => p[k] \in 1..n /\ rank[p[k]] < rank[k]
      /\ \A k \in 1..n : f[k] = Body(h, v, p, f, k)
  <2>1. Stepwise(h, v, p, rank, n, f)
    BY WalkSteps
  <2>2. QED
    BY <2>1 DEF Stepwise
<1>1. PICK S : S = {k \in 1..n : /\ f[k] \in [1..n -> I]
                                 /\ \A j \in 1..n : rank[j] > rank[k] => f[k][j] = h[j]}
  OBVIOUS
<1>2. ASSUME NEW k \in 1..n, \A j \in 1..n : rank[j] < rank[k] => j \in S PROVE k \in S
  <2>1. CASE p[k] = 0
    <3>1. f[k] = [h EXCEPT ![k] = v]
      BY <1>0, <2>1 DEF Body
    <3>2. f[k] \in [1..n -> I] /\ \A j \in 1..n : j # k => f[k][j] = h[j]
      BY <3>1
    <3>3. \A j \in 1..n : rank[j] > rank[k] => j # k
      BY <1>0
    <3>4. QED
      BY <1>1, <3>2, <3>3
  <2>2. CASE p[k] # 0
    <3>1. PICK q \in 1..n : q = p[k] /\ rank[q] < rank[k]
      BY <1>0, <2>2
    <3>2. f[k] = [f[q] EXCEPT ![k] = h[q]]
      BY <1>0, <2>2, <3>1 DEF Body
    <3>3. /\ f[q] \in [1..n -> I]
          /\ \A j \in 1..n : rank[j] > rank[q] => f[q][j] = h[j]
      BY <1>1, <1>2, <3>1
    <3>4. f[k] \in [1..n -> I]
      BY <3>2, <3>3
    <3>5. ASSUME NEW j \in 1..n, rank[j] > rank[k] PROVE f[k][j] = h[j]
      <4>1. j # k /\ rank[j] > rank[q]
        BY <1>0, <3>1, <3>5
      <4>2. QED
        BY <3>2, <3>3, <4>1
    <3>6. QED
      BY <1>1, <3>4, <3>5
  <2>3. QED
    BY <2>1, <2>2
<1>3. \A k \in 1..n : k \in S
  BY <1>0, <1>2, ByRank
<1>4. QED
  BY <1>1, <1>3 DEF Left

\* The walk from k0 with the element of k0 moves the elements and changes none.
LEMMA WalkPermutes ==
  ASSUME NEW I, NEW n, NEW h \in [1..n -> I], NEW k0 \in 1..n, NEW p, NEW rank, NEW f,
         Ranked(p, rank, n), Walked(h, h[k0], p, n, f), Once(h, 1..n)
  PROVE  /\ f[k0] \in [1..n -> I] /\ Once(f[k0], 1..n)
         /\ \A x : In(f[k0], 1..n, x) <=> In(h, 1..n, x)
<1> DEFINE D == (1..n) \ {k0}
<1>1. PICK v \in I : v = h[k0]
  OBVIOUS
<1>2. Walked(h, v, p, n, f)
  BY <1>1
<1>3. /\ n \in Nat /\ rank \in [1..n -> 0..n]
      /\ \A k \in 1..n : rank[k] \in Nat
      /\ \A k \in 1..n : p[k] # 0 => p[k] \in 1..n /\ rank[p[k]] < rank[k]
      /\ \A k \in 1..n : f[k] = Body(h, v, p, f, k)
  <2>1. Stepwise(h, v, p, rank, n, f)
    BY <1>2, WalkSteps
  <2>2. QED
    BY <2>1 DEF Stepwise
<1>4. \A k \in 1..n : /\ f[k] \in [1..n -> I]
                      /\ \A j \in 1..n : rank[j] > rank[k] => f[k][j] = h[j]
  <2>1. Left(h, I, rank, n, f)
    BY <1>2, WalkLeaves
  <2>2. QED
    BY <2>1 DEF Left
\* Before the walk comes to k0 the element of k is missing and v in its place.
<1> DEFINE Filled(g, k) == /\ Once(g, D)
                           /\ \A x : In(g, D, x) <=> x = v \/ In(h, D \ {k}, x)
<1>5. PICK S : S = {k \in 1..n : rank[k] < rank[k0] => Filled(f[k], k)}
  OBVIOUS
<1>6. ASSUME NEW k \in 1..n, \A j \in 1..n : rank[j] < rank[k] => j \in S PROVE k \in S
  <2>1. SUFFICES ASSUME rank[k] < rank[k0] PROVE Filled(f[k], k)
    BY <1>5
  <2>2. k \in D /\ \A j \in D : h[j] # v
    BY <1>3, <1>1, <2>1 DEF Once
  <2>3. CASE p[k] = 0
    <3>1. f[k] = [h EXCEPT ![k] = v]
      BY <1>3, <2>3 DEF Body
    <3>2. f[k][k] = v /\ \A j \in D \ {k} : f[k][j] = h[j]
      BY <3>1
    <3>3. Once(f[k], D)
      BY <2>2, <3>2 DEF Once
    <3>4. \A x : In(f[k], D, x) <=> x = v \/ In(h, D \ {k}, x)
      BY <2>2, <3>2 DEF In
    <3>5. QED
      BY <3>3, <3>4
  <2>4. CASE p[k] # 0
    <3>1. PICK q \in 1..n : q = p[k] /\ rank[q] < rank[k]
      BY <1>3, <2>4
    <3>2. f[k] = [f[q] EXCEPT ![k] = h[q]]
      BY <1>3, <2>4, <3>1 DEF Body
    <3>3. q \in D /\ q # k /\ rank[q] < rank[k0]
      BY <1>3, <2>1, <3>1
    <3>4. Filled(f[q], q) /\ f[q][k] = h[k] /\ f[q] \in [1..n -> I]
      BY <1>4, <1>5, <1>6, <3>1, <3>3
    <3>5. f[k][k] = h[q] /\ \A j \in D \ {k} : f[k][j] = f[q][j]
      BY <3>2, <3>4
    <3>6. \A j \in D : f[q][j] # h[q]
      BY <2>2, <3>3, <3>4 DEF In, Once
    <3>7. Once(f[k], D)
      BY <3>4, <3>5, <3>6 DEF Once
    <3>8. \A x : In(f[k], D, x) <=> x = h[q] \/ (In(f[q], D, x) /\ x # h[k])
      BY <2>2, <3>4, <3>5 DEF In, Once
    <3>9. \A x : In(h, D \ {k}, x) <=> x = h[q] \/ (In(h, D \ {q}, x) /\ x # h[k])
      BY <2>2, <3>3 DEF In, Once
    <3>10. \A x : In(f[k], D, x) <=> x = v \/ In(h, D \ {k}, x)
      BY <2>2, <3>4, <3>8, <3>9
    <3>11. QED
      BY <3>7, <3>10
  <2>5. QED
    BY <2>3, <2>4
<1>7. \A k \in 1..n : k \in S
  BY <1>3, <1>6, ByRank
<1>8. CASE p[k0] = 0
  <2>1. f[k0] = [h EXCEPT ![k0] = v]
    BY <1>3, <1>8 DEF Body
  <2>2. f[k0] = h
    BY <1>1, <2>1
  <2>3. QED
    BY <2>2
<1>9. CASE p[k0] # 0
  <2>1. PICK q \in 1..n : q = p[k0] /\ rank[q] < rank[k0]
    BY <1>3, <1>9
  <2>2. f[k0] = [f[q] EXCEPT ![k0] = h[q]]
    BY <1>3, <1>9, <2>1 DEF Body
  <2>3. q \in D /\ Filled(f[q], q) /\ f[q] \in [1..n -> I] /\ f[k0] \in [1..n -> I]
    <3>1. q # k0
      BY <1>3, <2>1
    <3>2. Filled(f[q], q)
      BY <1>5, <1>7, <2>1
    <3>3. QED
      BY <1>4, <3>1, <3>2
  <2>4. f[k0][k0] = h[q] /\ \A j \in D : f[k0][j] = f[q][j]
    BY <2>2, <2>3
  <2>5. h[q] # v /\ \A j \in D : f[q][j] # h[q]
    BY <1>1, <2>3 DEF In, Once
  <2>6. Once(f[k0], 1..n)
    BY <2>3, <2>4, <2>5 DEF Once
  <2>7. \A x : In(f[k0], 1..n, x) <=> x = h[q] \/ In(f[q], D, x)
    BY <2>4 DEF In
  <2>8. \A x : In(h, 1..n, x) <=> x = v \/ x = h[q] \/ In(h, D \ {q}, x)
    BY <1>1, <2>3 DEF In
  <2>9. QED
    BY <2>3, <2>6, <2>7, <2>8
<1>10. QED
  BY <1>8, <1>9

\* The place above j is j \div 2.
Above(par, n) ==
  /\ par \in [2..n -> 1..n]
  /\ \A j \in 2..n : par[j] < j
  /\ \A j \in 2..n, k \in 1..n : par[j] = k <=> j = 2 * k \/ j = 2 * k + 1
  /\ \A j \in 2..n : par[j] = j \div 2

LEMMA Halves == ASSUME NEW n \in Nat PROVE \E par : Above(par, n)
<1>1. PICK par : par = [j \in 2..n |-> j \div 2]
  OBVIOUS
<1>2. ASSUME NEW j \in 2..n
      PROVE  /\ j \div 2 \in 1..n /\ j \div 2 < j
             /\ \A k \in 1..n : j \div 2 = k <=> j = 2 * k \/ j = 2 * k + 1
  <2>1. PICK m \in Int : m = j \div 2
    BY SMT
  <2>2. 2 * m <= j /\ j <= 2 * m + 1
    BY <2>1, SMT
  <2>3. m \in 1..n /\ m < j
    BY <2>2
  <2>4. \A k \in 1..n : m = k <=> j = 2 * k \/ j = 2 * k + 1
    BY <2>2
  <2>5. QED
    BY <2>1, <2>3, <2>4
<1>3. \A j \in 2..n : par[j] = j \div 2
  BY <1>1
<1>4. par \in [2..n -> 1..n]
  BY <1>1, <1>2
<1>5. \A j \in 2..n : par[j] < j
  BY <1>2, <1>3
<1>6. \A j \in 2..n, k \in 1..n : par[j] = k <=> j = 2 * k \/ j = 2 * k + 1
  BY <1>2, <1>3
<1>7. Above(par, n)
  BY <1>3, <1>4, <1>5, <1>6, Zenon DEF Above
<1>8. QED
  BY <1>7

\* No element counts more than the one above it; here but for those at k0, and
\* those below k0 fit there too when it moves.
Sorted(g, cnt, par, n) == \A j \in 2..n : cnt[g[j]] <= cnt[g[par[j]]]
Beside(g, cnt, par, n, k0) ==
  \A j \in 2..n : j # k0 /\ par[j] # k0 => cnt[g[j]] <= cnt[g[par[j]]]
Near(g, cnt, par, n, k0) ==
  /\ Beside(g, cnt, par, n, k0)
  /\ \A j \in 2..n : par[j] = k0 /\ k0 > 1 => cnt[g[j]] <= cnt[g[par[k0]]]

\* The walk of __up_heap.
UpTo(h, cnt, v, par, n) ==
  [k \in 1..n |-> IF k > 1 /\ cnt[h[par[k]]] < cnt[v] THEN par[k] ELSE 0]

LEMMA UpRanked ==
  ASSUME NEW n \in Nat, NEW par, Above(par, n), NEW h, NEW cnt, NEW v
  PROVE  Ranked(UpTo(h, cnt, v, par, n), [k \in 1..n |-> k], n)
<1>1. PICK p : p = UpTo(h, cnt, v, par, n)
  OBVIOUS
<1>2. PICK rank : rank = [k \in 1..n |-> k]
  OBVIOUS
<1>3. rank \in [1..n -> 0..n] /\ \A k \in 1..n : rank[k] = k
  BY <1>2
<1>4. \A k \in 1..n : p[k] = IF k > 1 /\ cnt[h[par[k]]] < cnt[v] THEN par[k] ELSE 0
  BY <1>1 DEF UpTo
<1>5. \A k \in 1..n : k > 1 => k \in 2..n /\ par[k] \in 1..n /\ par[k] < k
  BY DEF Above
<1>6. p \in [1..n -> 0..n]
  <2>1. \A k \in 1..n : p[k] \in 0..n
    BY <1>4, <1>5
  <2>2. QED
    BY <1>1, <2>1 DEF UpTo
<1>7. \A k \in 1..n : p[k] # 0 => p[k] \in 1..n /\ rank[p[k]] < rank[k]
  BY <1>3, <1>4, <1>5
<1>8. QED
  BY <1>1, <1>2, <1>3, <1>6, <1>7 DEF Ranked

LEMMA UpSorts ==
  ASSUME NEW n \in Nat, NEW par, Above(par, n), NEW h \in [1..n -> Interp],
         NEW cnt \in [Interp -> Nat], NEW k0 \in 2..n, Near(h, cnt, par, n, k0),
         cnt[h[par[k0]]] < cnt[h[k0]],
         NEW f, Walked(h, h[k0], UpTo(h, cnt, h[k0], par, n), n, f)
  PROVE  Sorted(f[k0], cnt, par, n)
<1>1. PICK v \in Interp : v = h[k0]
  OBVIOUS
<1>2. PICK p : p = UpTo(h, cnt, v, par, n)
  OBVIOUS
<1>3. PICK rank : rank = [k \in 1..n |-> k]
  OBVIOUS
<1>4. Ranked(p, rank, n) /\ Walked(h, v, p, n, f)
  BY <1>1, <1>2, <1>3, UpRanked
<1>5. /\ \A k \in 1..n : rank[k] = k
      /\ \A k \in 1..n : p[k] # 0 => k \in 2..n /\ p[k] = par[k] /\ cnt[h[p[k]]] < cnt[v]
      /\ \A k \in 1..n : p[k] = 0 /\ k > 1 => ~(cnt[h[par[k]]] < cnt[v])
      /\ \A j \in 2..n : par[j] \in 1..n /\ par[j] < j
  <2>1. \A k \in 1..n : p[k] = IF k > 1 /\ cnt[h[par[k]]] < cnt[v] THEN par[k] ELSE 0
    BY <1>2 DEF UpTo
  <2>2. \A k \in 1..n : k > 1 => k \in 2..n
    OBVIOUS
  <2>3. \A j \in 2..n : par[j] \in 1..n /\ par[j] < j
    BY DEF Above
  <2>4. \A k \in 1..n : rank[k] = k
    BY <1>3
  <2>5. ASSUME NEW k \in 1..n
        PROVE  /\ p[k] # 0 => k \in 2..n /\ p[k] = par[k] /\ cnt[h[p[k]]] < cnt[v]
               /\ p[k] = 0 /\ k > 1 => ~(cnt[h[par[k]]] < cnt[v])
    <3>1. CASE k > 1 /\ cnt[h[par[k]]] < cnt[v]
      <4>1. p[k] = par[k] /\ k \in 2..n /\ par[k] \in 1..n
        BY <2>1, <2>2, <2>3, <3>1
      <4>2. p[k] # 0
        BY <4>1
      <4>3. QED
        BY <3>1, <4>1, <4>2
    <3>2. CASE ~(k > 1 /\ cnt[h[par[k]]] < cnt[v])
      <4>1. p[k] = 0
        BY <2>1, <3>2, Zenon
      <4>2. QED
        BY <3>2, <4>1, Zenon
    <3>3. QED
      BY <3>1, <3>2
  <2>6. QED
    BY <2>3, <2>4, <2>5
<1>6. /\ \A k \in 1..n : p[k] # 0 => p[k] \in 1..n /\ p[k] < k
      /\ \A k \in 1..n : f[k] = Body(h, v, p, f, k)
      /\ rank \in [1..n -> 0..n]
  <2>1. /\ rank \in [1..n -> 0..n]
        /\ \A k \in 1..n : p[k] # 0 => p[k] \in 1..n /\ rank[p[k]] < rank[k]
        /\ \A k \in 1..n : f[k] = Body(h, v, p, f, k)
    <3>1. Stepwise(h, v, p, rank, n, f)
      BY <1>4, WalkSteps
    <3>2. QED
      BY <3>1 DEF Stepwise
  <2>2. ASSUME NEW k \in 1..n, p[k] # 0 PROVE p[k] \in 1..n /\ p[k] < k
    <3>1. p[k] \in 1..n /\ rank[p[k]] < rank[k]
      BY <2>1, <2>2
    <3>2. QED
      BY <1>5, <3>1
  <2>3. QED
    BY <2>1, <2>2
<1>7. \A k \in 1..n : /\ f[k] \in [1..n -> Interp]
                      /\ \A j \in 1..n : j > k => f[k][j] = h[j]
  <2>1. Left(h, Interp, rank, n, f)
    BY <1>4, WalkLeaves
  <2>2. SUFFICES ASSUME NEW k \in 1..n
                 PROVE  /\ f[k] \in [1..n -> Interp]
                        /\ \A j \in 1..n : j > k => f[k][j] = h[j]
    OBVIOUS
  <2>3. f[k] \in [1..n -> Interp] /\ \A j \in 1..n : rank[j] > rank[k] => f[k][j] = h[j]
    BY <2>1 DEF Left
  <2>4. \A j \in 1..n : rank[j] > rank[k] <=> j > k
    BY <1>5
  <2>5. QED
    BY <2>3, <2>4
<1>8. \A x \in Interp : cnt[x] \in Nat
  OBVIOUS
<1> DEFINE Up(k) == cnt[f[k][k]] >= cnt[h[k]] /\ Beside(f[k], cnt, par, n, k0)
<1>9. PICK S : S = {k \in 1..n : k < k0 /\ cnt[h[k]] < cnt[v] => Up(k)}
  OBVIOUS
<1>10. ASSUME NEW k \in 1..n, \A j \in 1..n : rank[j] < rank[k] => j \in S PROVE k \in S
  <2>1. SUFFICES ASSUME k < k0, cnt[h[k]] < cnt[v] PROVE Up(k)
    BY <1>9
  <2>2. CASE p[k] = 0
    <3>1. f[k] = [h EXCEPT ![k] = v]
      BY <1>6, <2>2 DEF Body
    <3>2. f[k][k] = v /\ \A j \in 1..n : j # k => f[k][j] = h[j]
      BY <3>1
    <3>3. ASSUME NEW j \in 2..n, j # k0, par[j] # k0 PROVE cnt[f[k][j]] <= cnt[f[k][par[j]]]
      <4>0. cnt[h[j]] <= cnt[h[par[j]]]
        BY <3>3 DEF Near, Beside
      <4>1. j \in 1..n /\ par[j] \in 1..n /\ par[j] < j /\ cnt[h[j]] <= cnt[h[par[j]]]
        BY <1>5, <4>0
      <4>2. CASE j = k
        BY <1>5, <1>8, <2>2, <3>2, <4>1, <4>2
      <4>3. CASE par[j] = k
        BY <1>8, <2>1, <3>2, <4>1, <4>3
      <4>4. CASE j # k /\ par[j] # k
        BY <3>2, <4>1, <4>4
      <4>5. QED
        BY <4>2, <4>3, <4>4
    <3>4. QED
      BY <1>8, <2>1, <3>2, <3>3 DEF Beside
  <2>3. CASE p[k] # 0
    <3>1. PICK q \in 1..n : q = p[k] /\ q = par[k] /\ q < k /\ k \in 2..n /\ cnt[h[q]] < cnt[v]
      BY <1>5, <1>6, <2>3
    <3>2. f[k] = [f[q] EXCEPT ![k] = h[q]]
      BY <1>6, <2>3, <3>1 DEF Body
    <3>3. f[q] \in [1..n -> Interp] /\ \A j \in 1..n : j > q => f[q][j] = h[j]
      BY <1>7
    <3>4. q < k0 /\ Up(q)
      <4>1. q < k0
        BY <2>1, <3>1
      <4>2. rank[q] < rank[k]
        BY <1>5, <3>1
      <4>3. q \in S
        BY <1>10, <4>2
      <4>4. QED
        BY <1>9, <3>1, <4>1, <4>3
    <3>5. f[k][k] = h[q] /\ \A j \in 1..n : j # k => f[k][j] = f[q][j]
      BY <3>2, <3>3
    <3>6. cnt[h[k]] <= cnt[h[q]]
      BY <2>1, <3>1, <3>4 DEF Near, Beside
    <3>7. ASSUME NEW j \in 2..n, j # k0, par[j] # k0 PROVE cnt[f[k][j]] <= cnt[f[k][par[j]]]
      <4>1. /\ j \in 1..n /\ par[j] \in 1..n /\ par[j] < j /\ cnt[h[j]] <= cnt[h[par[j]]]
            /\ cnt[f[q][j]] <= cnt[f[q][par[j]]]
        <5>1. j \in 1..n /\ par[j] \in 1..n /\ par[j] < j
          BY <1>5
        <5>2. cnt[h[j]] <= cnt[h[par[j]]]
          BY <3>7 DEF Near, Beside
        <5>3. cnt[f[q][j]] <= cnt[f[q][par[j]]]
          BY <3>4, <3>7 DEF Beside
        <5>4. QED
          BY <5>1, <5>2, <5>3
      <4>2. CASE j = k
        BY <1>8, <3>1, <3>3, <3>4, <3>5, <4>1, <4>2
      <4>3. CASE par[j] = k
        <5>1. j # k /\ j > q
          BY <3>1, <4>1, <4>3
        <5>2. f[k][j] = h[j]
          BY <3>3, <3>5, <4>1, <5>1
        <5>3. QED
          BY <1>8, <3>5, <3>6, <4>1, <4>3, <5>2
      <4>4. CASE j # k /\ par[j] # k
        BY <3>5, <4>1, <4>4
      <4>5. QED
        BY <4>2, <4>3, <4>4
    <3>8. QED
      BY <1>8, <3>5, <3>6, <3>7 DEF Beside
  <2>4. QED
    BY <2>2, <2>3
<1>11. \A k \in 1..n : k \in S
  BY <1>6, <1>10, ByRank
<1>12. PICK q \in 1..n : q = par[k0] /\ q < k0 /\ k0 \in 1..n /\ cnt[h[q]] < cnt[v]
  BY <1>1, <1>5
<1>13. p[k0] = q /\ q # 0
  BY <1>5, <1>12
<1>14. f[k0] = [f[q] EXCEPT ![k0] = h[q]]
  BY <1>6, <1>12, <1>13 DEF Body
<1>15. f[q] \in [1..n -> Interp] /\ \A j \in 1..n : j > q => f[q][j] = h[j]
  BY <1>7
<1>16. Up(q)
  BY <1>9, <1>11, <1>12
<1>17. f[k0][k0] = h[q] /\ \A j \in 1..n : j # k0 => f[k0][j] = f[q][j]
  BY <1>12, <1>14, <1>15
<1>18. ASSUME NEW j \in 2..n PROVE cnt[f[k0][j]] <= cnt[f[k0][par[j]]]
  <2>1. j \in 1..n /\ par[j] \in 1..n /\ par[j] < j
    BY <1>5
  <2>2. CASE j = k0
    BY <1>8, <1>12, <1>15, <1>16, <1>17, <2>1, <2>2
  <2>3. CASE par[j] = k0
    <3>0. j # k0 /\ j > q
      BY <1>12, <2>1, <2>3
    <3>1. f[k0][j] = h[j]
      BY <1>15, <1>17, <2>1, <3>0
    <3>2. cnt[h[j]] <= cnt[h[q]]
      BY <1>12, <2>3 DEF Near
    <3>3. QED
      BY <1>17, <2>3, <3>1, <3>2
  <2>4. CASE j # k0 /\ par[j] # k0
    <3>1. cnt[f[q][j]] <= cnt[f[q][par[j]]]
      BY <1>16, <2>4 DEF Beside
    <3>2. QED
      BY <1>17, <2>1, <2>4, <3>1
  <2>5. QED
    BY <2>2, <2>3, <2>4
<1>19. QED
  BY <1>18 DEF Sorted

\* The walk of __down_heap.
Larger(h, cnt, n, k) ==
  IF 2 * k + 1 \in 1..n /\ cnt[h[2 * k]] < cnt[h[2 * k + 1]] THEN 2 * k + 1 ELSE 2 * k
DownTo(h, cnt, v, n) ==
  [k \in 1..n |-> IF /\ Larger(h, cnt, n, k) \in 1..n
                     /\ cnt[v] < cnt[h[Larger(h, cnt, n, k)]]
                    THEN Larger(h, cnt, n, k) ELSE 0]

\* From k it goes on to a place below that counts more than v and no less than
\* the other one, and it ends where none below counts more.
Descends(h, cnt, v, par, n, p) ==
  \A k \in 1..n :
    /\ p[k] \in 0..n
    /\ p[k] # 0 => /\ p[k] \in 2..n /\ par[p[k]] = k /\ k < p[k] /\ cnt[v] < cnt[h[p[k]]]
                   /\ \A j \in 2..n : par[j] = k => cnt[h[j]] <= cnt[h[p[k]]]
    /\ p[k] = 0 => \A j \in 2..n : par[j] = k => cnt[h[j]] <= cnt[v]

LEMMA DownDescends ==
  ASSUME NEW n \in Nat, NEW par, Above(par, n), NEW h \in [1..n -> Interp],
         NEW cnt \in [Interp -> Nat], NEW v \in Interp
  PROVE  Descends(h, cnt, v, par, n, DownTo(h, cnt, v, n))
<1>1. PICK p : p = DownTo(h, cnt, v, n)
  OBVIOUS
<1>2. \A j \in 1..n : cnt[h[j]] \in Nat
  OBVIOUS
<1>3. cnt[v] \in Nat
  OBVIOUS
<1>4. ASSUME NEW k \in 1..n
      PROVE  /\ p[k] \in 0..n
             /\ p[k] # 0 => /\ p[k] \in 2..n /\ par[p[k]] = k /\ k < p[k] /\ cnt[v] < cnt[h[p[k]]]
                            /\ \A j \in 2..n : par[j] = k => cnt[h[j]] <= cnt[h[p[k]]]
             /\ p[k] = 0 => \A j \in 2..n : par[j] = k => cnt[h[j]] <= cnt[v]
  <2>1. PICK c : c = Larger(h, cnt, n, k)
    OBVIOUS
  <2>2. p[k] = IF c \in 1..n /\ cnt[v] < cnt[h[c]] THEN c ELSE 0
    BY <1>1, <2>1 DEF DownTo
  <2>3. c \in {2 * k, 2 * k + 1} /\ c \in Nat /\ k < c /\ c \in Nat \ {0, 1}
    BY <2>1 DEF Larger
  <2>4. \A j \in 2..n : par[j] = k => j = 2 * k \/ j = 2 * k + 1
    BY DEF Above
  <2>5. ASSUME NEW j \in 2..n, par[j] = k PROVE c \in 1..n /\ cnt[h[j]] <= cnt[h[c]]
    <3>1. CASE 2 * k + 1 \in 1..n /\ cnt[h[2 * k]] < cnt[h[2 * k + 1]]
      <4>1. c = 2 * k + 1
        BY <2>1, <3>1 DEF Larger
      <4>2. 2 * k \in 1..n /\ c \in 1..n
        BY <3>1, <4>1
      <4>3. j = 2 * k \/ j = c
        BY <2>4, <2>5, <4>1
      <4>4. cnt[h[2 * k]] \in Nat /\ cnt[h[c]] \in Nat
        BY <1>2, <4>2
      <4>5. cnt[h[2 * k]] <= cnt[h[c]]
        BY <3>1, <4>1, <4>4
      <4>6. QED
        BY <4>2, <4>3, <4>4, <4>5
    <3>2. CASE ~(2 * k + 1 \in 1..n /\ cnt[h[2 * k]] < cnt[h[2 * k + 1]])
      <4>1. c = 2 * k
        BY <2>1, <3>2 DEF Larger
      <4>2. c \in 1..n
        BY <2>4, <2>5, <4>1
      <4>3. CASE j = 2 * k
        BY <1>2, <4>1, <4>2, <4>3
      <4>4. CASE j = 2 * k + 1
        <5>1. ~(cnt[h[c]] < cnt[h[j]]) /\ j \in 1..n
          BY <3>2, <4>1, <4>4
        <5>2. cnt[h[c]] \in Nat /\ cnt[h[j]] \in Nat
          BY <1>2, <4>2, <5>1
        <5>3. QED
          BY <4>2, <5>1, <5>2
      <4>5. QED
        BY <2>4, <2>5, <4>3, <4>4
    <3>3. QED
      BY <3>1, <3>2
  <2>6. CASE c \in 1..n /\ cnt[v] < cnt[h[c]]
    <3>1. p[k] = c /\ c \in 2..n /\ c # 0
      BY <2>2, <2>3, <2>6
    <3>2. par[c] = k
      BY <2>3, <3>1 DEF Above
    <3>3. QED
      BY <2>3, <2>5, <2>6, <3>1, <3>2
  <2>7. CASE ~(c \in 1..n /\ cnt[v] < cnt[h[c]])
    <3>1. p[k] = 0
      BY <2>2, <2>7
    <3>2. ASSUME NEW j \in 2..n, par[j] = k PROVE cnt[h[j]] <= cnt[v]
      <4>1. c \in 1..n /\ cnt[h[j]] <= cnt[h[c]] /\ ~(cnt[v] < cnt[h[c]])
        BY <2>5, <2>7, <3>2
      <4>2. cnt[h[c]] \in Nat /\ cnt[h[j]] \in Nat
        BY <1>2, <4>1
      <4>3. QED
        BY <1>3, <4>1, <4>2
    <3>3. QED
      BY <3>1, <3>2
  <2>8. QED
    BY <2>6, <2>7
<1>5. Descends(h, cnt, v, par, n, p)
  BY <1>4 DEF Descends
<1>6. QED
  BY <1>1, <1>5

LEMMA DownRanked ==
  ASSUME NEW n \in Nat, NEW par, Above(par, n), NEW h \in [1..n -> Interp],
         NEW cnt \in [Interp -> Nat], NEW v \in Interp
  PROVE  Ranked(DownTo(h, cnt, v, n), [k \in 1..n |-> n - k], n)
<1>1. PICK p : p = DownTo(h, cnt, v, n)
  OBVIOUS
<1>2. PICK rank : rank = [k \in 1..n |-> n - k]
  OBVIOUS
<1>3. rank \in [1..n -> 0..n] /\ \A k \in 1..n : rank[k] = n - k
  BY <1>2
<1>4. Descends(h, cnt, v, par, n, p)
  BY <1>1, DownDescends
<1>5. p \in [1..n -> 0..n]
  <2>1. \A k \in 1..n : p[k] \in 0..n
    BY <1>4 DEF Descends
  <2>2. QED
    BY <1>1, <2>1 DEF DownTo
<1>6. ASSUME NEW k \in 1..n, p[k] # 0 PROVE rank[p[k]] < rank[k]
  <2>1. p[k] \in 1..n /\ k < p[k]
    BY <1>4, <1>6 DEF Descends
  <2>2. rank[p[k]] = n - p[k] /\ rank[k] = n - k
    BY <1>3, <2>1
  <2>3. QED
    BY <2>1, <2>2
<1>7. QED
  BY <1>1, <1>2, <1>3, <1>5, <1>6 DEF Ranked

LEMMA DownSorts ==
  ASSUME NEW n \in Nat, NEW par, Above(par, n), NEW h \in [1..n -> Interp],
         NEW cnt \in [Interp -> Nat], NEW k0 \in 1..n, Near(h, cnt, par, n, k0),
         k0 > 1 => cnt[h[k0]] <= cnt[h[par[k0]]],
         NEW f, Walked(h, h[k0], DownTo(h, cnt, h[k0], n), n, f)
  PROVE  Sorted(f[k0], cnt, par, n)
<1>1. PICK v \in Interp : v = h[k0]
  OBVIOUS
<1>2. PICK p : p = DownTo(h, cnt, v, n)
  OBVIOUS
<1>3. PICK rank : rank = [k \in 1..n |-> n - k]
  OBVIOUS
<1>4. Ranked(p, rank, n) /\ Walked(h, v, p, n, f)
  BY <1>1, <1>2, <1>3, DownRanked
<1>5. /\ \A k \in 1..n : rank[k] = n - k
      /\ \A j \in 2..n : par[j] \in 1..n /\ par[j] < j
  BY <1>3 DEF Above
<1>6. /\ \A k \in 1..n : f[k] = Body(h, v, p, f, k)
      /\ rank \in [1..n -> 0..n]
  <2>1. Stepwise(h, v, p, rank, n, f)
    BY <1>4, WalkSteps
  <2>2. QED
    BY <2>1 DEF Stepwise
<1>7. ASSUME NEW k \in 1..n
      PROVE  f[k] \in [1..n -> Interp] /\ \A j \in 1..n : j < k => f[k][j] = h[j]
  <2>1. Left(h, Interp, rank, n, f)
    BY <1>4, WalkLeaves
  <2>2. f[k] \in [1..n -> Interp] /\ \A j \in 1..n : rank[j] > rank[k] => f[k][j] = h[j]
    BY <2>1 DEF Left
  <2>3. \A j \in 1..n : rank[j] > rank[k] <=> j < k
    BY <1>5
  <2>4. QED
    BY <2>2, <2>3
<1>8. \A x \in Interp : cnt[x] \in Nat
  OBVIOUS
<1>9. ASSUME NEW k \in 1..n, p[k] # 0
      PROVE  /\ p[k] \in 1..n /\ p[k] \in 2..n /\ par[p[k]] = k /\ k < p[k]
             /\ cnt[v] < cnt[h[p[k]]]
             /\ \A j \in 2..n : par[j] = k => cnt[h[j]] <= cnt[h[p[k]]]
  <2>1. Descends(h, cnt, v, par, n, p)
    BY <1>2, DownDescends
  <2>2. QED
    BY <1>9, <2>1 DEF Descends
<1>10. ASSUME NEW k \in 1..n, p[k] = 0
       PROVE  \A j \in 2..n : par[j] = k => cnt[h[j]] <= cnt[v]
  <2>1. Descends(h, cnt, v, par, n, p)
    BY <1>2, DownDescends
  <2>2. QED
    BY <1>10, <2>1 DEF Descends
<1> DEFINE Down(k) == /\ \A j \in 1..n : cnt[f[k][j]] <= cnt[h[j]]
                      /\ Beside(f[k], cnt, par, n, k0)
<1>11. PICK S : S = {k \in 1..n : k > k0 /\ cnt[v] < cnt[h[k]] => Down(k)}
  OBVIOUS
<1>12. ASSUME NEW k \in 1..n, \A j \in 1..n : rank[j] < rank[k] => j \in S PROVE k \in S
  <2>1. SUFFICES ASSUME k > k0, cnt[v] < cnt[h[k]] PROVE Down(k)
    BY <1>11
  <2>2. CASE p[k] = 0
    <3>1. f[k] = [h EXCEPT ![k] = v]
      BY <1>6, <2>2 DEF Body
    <3>2. f[k][k] = v /\ \A j \in 1..n : j # k => f[k][j] = h[j]
      BY <3>1
    <3>3. ASSUME NEW j \in 2..n, j # k0, par[j] # k0 PROVE cnt[f[k][j]] <= cnt[f[k][par[j]]]
      <4>0. cnt[h[j]] <= cnt[h[par[j]]]
        BY <3>3 DEF Near, Beside
      <4>1. j \in 1..n /\ par[j] \in 1..n /\ par[j] < j /\ cnt[h[j]] <= cnt[h[par[j]]]
        BY <1>5, <4>0
      <4>2. CASE j = k
        BY <1>8, <2>1, <3>2, <4>1, <4>2
      <4>3. CASE par[j] = k
        BY <1>10, <2>2, <3>2, <4>1, <4>3
      <4>4. CASE j # k /\ par[j] # k
        BY <3>2, <4>1, <4>4
      <4>5. QED
        BY <4>2, <4>3, <4>4
    <3>4. \A j \in 1..n : cnt[f[k][j]] <= cnt[h[j]]
      BY <1>8, <2>1, <3>2
    <3>5. QED
      BY <3>3, <3>4 DEF Beside
  <2>3. CASE p[k] # 0
    <3>1. PICK q \in 1..n : /\ q = p[k] /\ q \in 2..n /\ par[q] = k /\ k < q
                            /\ cnt[v] < cnt[h[q]]
                            /\ \A j \in 2..n : par[j] = k => cnt[h[j]] <= cnt[h[q]]
      BY <1>9, <2>3
    <3>2. f[k] = [f[q] EXCEPT ![k] = h[q]]
      BY <1>6, <2>3, <3>1 DEF Body
    <3>3. f[q] \in [1..n -> Interp] /\ \A j \in 1..n : j < q => f[q][j] = h[j]
      BY <1>7
    <3>4. q > k0 /\ Down(q)
      <4>1. q > k0
        BY <2>1, <3>1
      <4>2. rank[q] < rank[k]
        <5>1. rank[q] = n - q /\ rank[k] = n - k /\ k < q
          BY <1>5, <3>1
        <5>2. QED
          BY <5>1
      <4>3. q \in S
        BY <1>12, <4>2
      <4>4. QED
        BY <1>11, <3>1, <4>1, <4>3
    <3>5. f[k][k] = h[q] /\ \A j \in 1..n : j # k => f[k][j] = f[q][j]
      BY <3>2, <3>3
    <3>6. cnt[h[q]] <= cnt[h[k]] /\ k # k0 /\ q # k0
      <4>1. k # k0 /\ q # k0
        BY <2>1, <3>4
      <4>2. QED
        BY <3>1, <4>1 DEF Near, Beside
    <3>7. ASSUME NEW j \in 2..n, j # k0, par[j] # k0 PROVE cnt[f[k][j]] <= cnt[f[k][par[j]]]
      <4>1. /\ j \in 1..n /\ par[j] \in 1..n /\ par[j] < j /\ cnt[h[j]] <= cnt[h[par[j]]]
            /\ cnt[f[q][j]] <= cnt[f[q][par[j]]] /\ cnt[f[q][j]] <= cnt[h[j]]
        <5>1. j \in 1..n /\ par[j] \in 1..n /\ par[j] < j
          BY <1>5
        <5>2. cnt[h[j]] <= cnt[h[par[j]]]
          BY <3>7 DEF Near, Beside
        <5>3. cnt[f[q][j]] <= cnt[f[q][par[j]]]
          BY <3>4, <3>7 DEF Beside
        <5>4. cnt[f[q][j]] <= cnt[h[j]]
          BY <3>4, <5>1
        <5>5. QED
          BY <5>1, <5>2, <5>3, <5>4
      <4>2. CASE j = k
        <5>1. par[j] # k /\ par[j] < q
          BY <3>1, <4>1, <4>2, SMTT(30)
        <5>2. f[k][par[j]] = h[par[j]]
          BY <3>3, <3>5, <4>1, <5>1
        <5>3. QED
          BY <1>8, <3>5, <3>6, <4>1, <4>2, <5>2
      <4>3. CASE par[j] = k
        <5>1. j # k /\ cnt[h[j]] <= cnt[h[q]]
          BY <3>1, <4>1, <4>3
        <5>2. f[k][j] = f[q][j] /\ f[k][par[j]] = h[q]
          BY <3>5, <4>1, <4>3, <5>1
        <5>3. f[q][j] \in Interp /\ h[j] \in Interp /\ h[q] \in Interp
          BY <3>3, <4>1
        <5>4. QED
          BY <1>8, <4>1, <5>1, <5>2, <5>3
      <4>4. CASE j # k /\ par[j] # k
        BY <3>5, <4>1, <4>4
      <4>5. QED
        BY <4>2, <4>3, <4>4
    <3>8. \A j \in 1..n : cnt[f[k][j]] <= cnt[h[j]]
      BY <3>4, <3>5, <3>6
    <3>9. QED
      BY <3>7, <3>8 DEF Beside
  <2>4. QED
    BY <2>2, <2>3
<1>13. \A k \in 1..n : k \in S
  BY <1>6, <1>12, ByRank
<1>14. CASE p[k0] = 0
  <2>1. f[k0] = [h EXCEPT ![k0] = v]
    BY <1>6, <1>14 DEF Body
  <2>2. f[k0] = h
    BY <1>1, <2>1
  <2>3. ASSUME NEW j \in 2..n PROVE cnt[h[j]] <= cnt[h[par[j]]]
    <3>1. CASE j = k0
      BY <3>1
    <3>2. CASE par[j] = k0
      BY <1>1, <1>10, <1>14, <3>2
    <3>3. CASE j # k0 /\ par[j] # k0
      BY <3>3 DEF Near, Beside
    <3>4. QED
      BY <3>1, <3>2, <3>3
  <2>4. QED
    BY <2>2, <2>3 DEF Sorted
<1>15. CASE p[k0] # 0
  <2>1. PICK q \in 1..n : /\ q = p[k0] /\ q \in 2..n /\ par[q] = k0 /\ k0 < q
                          /\ cnt[v] < cnt[h[q]]
                          /\ \A j \in 2..n : par[j] = k0 => cnt[h[j]] <= cnt[h[q]]
    BY <1>9, <1>15
  <2>2. f[k0] = [f[q] EXCEPT ![k0] = h[q]]
    BY <1>6, <1>15, <2>1 DEF Body
  <2>3. f[q] \in [1..n -> Interp] /\ \A j \in 1..n : j < q => f[q][j] = h[j]
    BY <1>7
  <2>4. Down(q)
    BY <1>11, <1>13, <2>1
  <2>5. f[k0][k0] = h[q] /\ \A j \in 1..n : j # k0 => f[k0][j] = f[q][j]
    BY <2>2, <2>3
  <2>6. ASSUME NEW j \in 2..n PROVE cnt[f[k0][j]] <= cnt[f[k0][par[j]]]
    <3>1. j \in 1..n /\ par[j] \in 1..n /\ par[j] < j /\ cnt[f[q][j]] <= cnt[h[j]]
      BY <1>5, <2>4
    <3>2. CASE j = k0
      <4>1. par[j] # k0 /\ par[j] < q /\ k0 > 1
        BY <2>1, <3>1, <3>2
      <4>2. f[k0][par[j]] = h[par[j]] /\ f[k0][j] = h[q]
        BY <2>3, <2>5, <3>1, <3>2, <4>1
      <4>3. cnt[h[q]] <= cnt[h[par[k0]]]
        BY <2>1, <4>1 DEF Near
      <4>4. QED
        BY <3>2, <4>2, <4>3
    <3>3. CASE par[j] = k0
      <4>1. j # k0 /\ cnt[h[j]] <= cnt[h[q]]
        BY <2>1, <3>1, <3>3
      <4>2. f[k0][j] = f[q][j] /\ f[k0][par[j]] = h[q]
        BY <2>5, <3>1, <3>3, <4>1
      <4>3. f[q][j] \in Interp /\ h[j] \in Interp /\ h[q] \in Interp
        BY <2>3, <3>1
      <4>4. QED
        BY <1>8, <3>1, <4>1, <4>2, <4>3
    <3>4. CASE j # k0 /\ par[j] # k0
      <4>1. cnt[f[q][j]] <= cnt[f[q][par[j]]]
        BY <2>4, <3>4 DEF Beside
      <4>2. QED
        BY <2>5, <3>1, <3>4, <4>1
    <3>5. QED
      BY <3>2, <3>3, <3>4
  <2>7. QED
    BY <2>6 DEF Sorted
<1>16. QED
  BY <1>14, <1>15

\* __up_heap and __down_heap are these walks.
LEMMA UpHeapWalks ==
  ASSUME NEW n \in Nat, NEW par, Above(par, n), NEW h \in [1..n -> Interp],
         NEW cnt \in [Interp -> Nat], NEW k0 \in 1..n
  PROVE  \E f : /\ Walked(h, h[k0], UpTo(h, cnt, h[k0], par, n), n, f)
                /\ UpHeap(h, cnt, k0) = f[k0]
<1> DEFINE v == h[k0]
           Step1(g, k) == IF k > 1 /\ Less(cnt, h[k \div 2], v)
                            THEN [g[k \div 2] EXCEPT ![k] = h[k \div 2]]
                            ELSE [h EXCEPT ![k] = v]
<1>1. PICK p : p = UpTo(h, cnt, v, par, n)
  OBVIOUS
<1>2. ASSUME NEW g, NEW k \in 1..n PROVE Body(h, v, p, g, k) = Step1(g, k)
  <2>1. p[k] = IF k > 1 /\ cnt[h[par[k]]] < cnt[v] THEN par[k] ELSE 0
    BY <1>1 DEF UpTo
  <2>2. k > 1 => par[k] = k \div 2 /\ par[k] # 0
    BY DEF Above
  <2>3. CASE k > 1 /\ cnt[h[par[k]]] < cnt[v]
    <3>1. p[k] = par[k] /\ p[k] # 0 /\ par[k] = k \div 2
      BY <2>1, <2>2, <2>3
    <3>2. Body(h, v, p, g, k) = [g[par[k]] EXCEPT ![k] = h[par[k]]]
      BY <3>1, Zenon DEF Body
    <3>3. Step1(g, k) = [g[par[k]] EXCEPT ![k] = h[par[k]]]
      BY <2>3, <3>1, Zenon DEF Less
    <3>4. QED
      BY <3>2, <3>3
  <2>4. CASE ~(k > 1 /\ cnt[h[par[k]]] < cnt[v])
    <3>1. p[k] = 0
      BY <2>1, <2>4, Zenon
    <3>2. Body(h, v, p, g, k) = [h EXCEPT ![k] = v]
      BY <3>1, Zenon DEF Body
    <3>3. ~(k > 1 /\ Less(cnt, h[k \div 2], v))
      BY <2>2, <2>4, Zenon DEF Less
    <3>4. Step1(g, k) = [h EXCEPT ![k] = v]
      BY <3>3, Zenon
    <3>5. QED
      BY <3>2, <3>4
  <2>5. QED
    BY <2>3, <2>4
<1>3. DOMAIN h = 1..n
  OBVIOUS
<1>4. \A g : Walked(h, v, p, n, g) <=> g = [k \in DOMAIN h |-> Step1(g, k)]
  <2>1. SUFFICES ASSUME NEW g
                 PROVE  [k \in 1..n |-> Body(h, v, p, g, k)] = [k \in DOMAIN h |-> Step1(g, k)]
    BY DEF Walked
  <2>2. \A k \in 1..n : Body(h, v, p, g, k) = Step1(g, k)
    BY <1>2
  <2> HIDE DEF Step1
  <2>3. QED
    BY <1>3, <2>2
<1>5. PICK f0 : Walked(h, v, p, n, f0)
  <2>1. Ranked(p, [k \in 1..n |-> k], n)
    BY <1>1, UpRanked
  <2>2. QED
    BY <2>1, WalkExists
<1>6. PICK f : f = CHOOSE g : g = [k \in DOMAIN h |-> Step1(g, k)]
  OBVIOUS
<1>7. f = [k \in DOMAIN h |-> Step1(f, k)]
  <2> HIDE DEF Step1
  <2>1. QED
    BY <1>4, <1>5, <1>6, Zenon
<1>8. UpHeap(h, cnt, k0) = f[k0]
  BY <1>6, Zenon DEF UpHeap
<1>9. Walked(h, v, p, n, f)
  BY <1>4, <1>7, Zenon
<1>10. QED
  BY <1>1, <1>8, <1>9

LEMMA DownHeapWalks ==
  ASSUME NEW n \in Nat, NEW par, Above(par, n), NEW h \in [1..n -> Interp],
         NEW cnt \in [Interp -> Nat], NEW k0 \in 1..n
  PROVE  \E f : /\ Walked(h, h[k0], DownTo(h, cnt, h[k0], n), n, f)
                /\ DownHeap(h, cnt, k0) = f[k0]
<1> DEFINE v == h[k0]
           Largest1(k) == IF 2 * k + 1 \in DOMAIN h /\ Less(cnt, h[2 * k], h[2 * k + 1])
                            THEN 2 * k + 1 ELSE 2 * k
           Step1(g, k) == IF Largest1(k) \in DOMAIN h /\ Less(cnt, v, h[Largest1(k)])
                            THEN [g[Largest1(k)] EXCEPT ![k] = h[Largest1(k)]]
                            ELSE [h EXCEPT ![k] = v]
<1>1. PICK p : p = DownTo(h, cnt, v, n)
  OBVIOUS
<1>2. DOMAIN h = 1..n
  OBVIOUS
<1>3. ASSUME NEW g, NEW k \in 1..n PROVE Body(h, v, p, g, k) = Step1(g, k)
  <2>1. PICK c : c = Larger(h, cnt, n, k)
    OBVIOUS
  <2>2. p[k] = IF c \in 1..n /\ cnt[v] < cnt[h[c]] THEN c ELSE 0
    BY <1>1, <2>1 DEF DownTo
  <2>3. Largest1(k) = c
    BY <1>2, <2>1, Zenon DEF Larger, Less
  <2> HIDE DEF Largest1
  <2>4. CASE c \in 1..n /\ cnt[v] < cnt[h[c]]
    <3>1. p[k] = c /\ p[k] # 0
      BY <2>2, <2>4
    <3>2. Body(h, v, p, g, k) = [g[c] EXCEPT ![k] = h[c]]
      BY <3>1, Zenon DEF Body
    <3>3. Step1(g, k) = [g[c] EXCEPT ![k] = h[c]]
      BY <1>2, <2>3, <2>4, Zenon DEF Less
    <3>4. QED
      BY <3>2, <3>3
  <2>5. CASE ~(c \in 1..n /\ cnt[v] < cnt[h[c]])
    <3>1. p[k] = 0
      BY <2>2, <2>5, Zenon
    <3>2. Body(h, v, p, g, k) = [h EXCEPT ![k] = v]
      BY <3>1, Zenon DEF Body
    <3>3. Step1(g, k) = [h EXCEPT ![k] = v]
      BY <1>2, <2>3, <2>5, Zenon DEF Less
    <3>4. QED
      BY <3>2, <3>3
  <2>6. QED
    BY <2>4, <2>5
<1>4. \A g : Walked(h, v, p, n, g) <=> g = [k \in DOMAIN h |-> Step1(g, k)]
  <2>1. SUFFICES ASSUME NEW g
                 PROVE  [k \in 1..n |-> Body(h, v, p, g, k)] = [k \in DOMAIN h |-> Step1(g, k)]
    BY DEF Walked
  <2>2. \A k \in 1..n : Body(h, v, p, g, k) = Step1(g, k)
    BY <1>3
  <2> HIDE DEF Step1
  <2>3. QED
    BY <1>2, <2>2
<1>5. PICK f0 : Walked(h, v, p, n, f0)
  <2>1. Ranked(p, [k \in 1..n |-> n - k], n)
    BY <1>1, DownRanked
  <2>2. QED
    BY <2>1, WalkExists
<1>6. PICK f : f = CHOOSE g : g = [k \in DOMAIN h |-> Step1(g, k)]
  OBVIOUS
<1>7. f = [k \in DOMAIN h |-> Step1(f, k)]
  <2> HIDE DEF Step1
  <2>1. QED
    BY <1>4, <1>5, <1>6, Zenon
<1>8. DownHeap(h, cnt, k0) = f[k0]
  BY <1>6, Zenon DEF DownHeap
<1>9. Walked(h, v, p, n, f)
  BY <1>4, <1>7, Zenon
<1>10. QED
  BY <1>1, <1>8, <1>9

\* UpdateHeap: the elements are the same ones, in order again.
LEMMA UpdateHeapSorts ==
  ASSUME NEW n \in Nat, NEW par, Above(par, n), NEW h \in [1..n -> Interp],
         NEW cnt \in [Interp -> Nat], NEW k0 \in 1..n, Once(h, 1..n), Near(h, cnt, par, n, k0)
  PROVE  /\ UpdateHeap(h, cnt, k0) \in [1..n -> Interp]
         /\ Once(UpdateHeap(h, cnt, k0), 1..n)
         /\ \A x : In(UpdateHeap(h, cnt, k0), 1..n, x) <=> In(h, 1..n, x)
         /\ Sorted(UpdateHeap(h, cnt, k0), cnt, par, n)
<1>1. k0 > 1 => k0 \in 2..n /\ par[k0] = k0 \div 2 /\ par[k0] \in 1..n
  BY DEF Above
<1>2. CASE k0 > 1 /\ cnt[h[par[k0]]] < cnt[h[k0]]
  <2>1. PICK f : /\ Walked(h, h[k0], UpTo(h, cnt, h[k0], par, n), n, f)
                 /\ UpHeap(h, cnt, k0) = f[k0]
    BY UpHeapWalks
  <2>2. UpdateHeap(h, cnt, k0) = f[k0]
    BY <1>1, <1>2, <2>1, Zenon DEF UpdateHeap, Less
  <2>3. Sorted(f[k0], cnt, par, n)
    BY <1>1, <1>2, <2>1, UpSorts
  <2>4. PICK p, rank : p = UpTo(h, cnt, h[k0], par, n) /\ Ranked(p, rank, n)
    BY UpRanked
  <2>5. /\ f[k0] \in [1..n -> Interp] /\ Once(f[k0], 1..n)
        /\ \A x : In(f[k0], 1..n, x) <=> In(h, 1..n, x)
    BY <2>1, <2>4, WalkPermutes, ZenonT(40)
  <2>6. QED
    BY <2>2, <2>3, <2>5
<1>3. CASE ~(k0 > 1 /\ cnt[h[par[k0]]] < cnt[h[k0]])
  <2>1. PICK f : /\ Walked(h, h[k0], DownTo(h, cnt, h[k0], n), n, f)
                 /\ DownHeap(h, cnt, k0) = f[k0]
    BY DownHeapWalks
  <2>2. UpdateHeap(h, cnt, k0) = f[k0]
    BY <1>1, <1>3, <2>1, Zenon DEF UpdateHeap, Less
  <2>3. k0 > 1 => cnt[h[k0]] <= cnt[h[par[k0]]]
    BY <1>1, <1>3
  <2>4. Sorted(f[k0], cnt, par, n)
    BY <2>1, <2>3, DownSorts
  <2>5. PICK p, rank : p = DownTo(h, cnt, h[k0], n) /\ Ranked(p, rank, n)
    BY DownRanked
  <2>6. /\ f[k0] \in [1..n -> Interp] /\ Once(f[k0], 1..n)
        /\ \A x : In(f[k0], 1..n, x) <=> In(h, 1..n, x)
    BY <2>1, <2>5, WalkPermutes
  <2>7. QED
    BY <2>2, <2>4, <2>6
<1>4. QED
  BY <1>2, <1>3

Placed(h, pos) == \A k \in 1..Len(h) : pos[h[k]] = k - 1
Heaped(h, cnt) == \A k \in 1..Len(h) : k > 1 => cnt[h[k]] <= cnt[h[k \div 2]]

\* A heap of different interpreters that know their places, in order.
Tidy(h, pos, cnt) ==
  /\ h \in Seq(Interp) /\ Distinct(h)
  /\ pos \in [Interp -> Nat] /\ cnt \in [Interp -> Nat]
  /\ Placed(h, pos) /\ Heaped(h, cnt)

\* An update of the count of the interpreter at k0 keeps it tidy.
LEMMA Recounts ==
  ASSUME NEW h \in Seq(Interp), Distinct(h), NEW pos \in [Interp -> Nat], Placed(h, pos),
         NEW cnt \in [Interp -> Nat], NEW k0 \in 1..Len(h),
         NEW par, Above(par, Len(h)), Near(h, cnt, par, Len(h), k0), Recount(h, pos, h[k0], cnt)
  PROVE  Tidy(heap', position', count') /\ count' = cnt /\ \A x : Has(heap', x) <=> Has(h, x)
<1>1. PICK n \in Nat : n = Len(h)
  OBVIOUS
<1>2. h \in [1..n -> Interp] /\ Once(h, 1..n) /\ k0 \in 1..n /\ DOMAIN h = 1..n
  BY <1>1 DEF Distinct, Once
<1>3. PICK g : g = UpdateHeap(h, cnt, k0)
  OBVIOUS
<1>4. /\ g \in [1..n -> Interp] /\ Once(g, 1..n) /\ Sorted(g, cnt, par, n)
      /\ \A x : In(g, 1..n, x) <=> In(h, 1..n, x)
  BY <1>1, <1>2, <1>3, UpdateHeapSorts
<1>5. pos[h[k0]] + 1 = k0
  BY <1>1 DEF Placed
<1>6. heap' = g /\ count' = cnt /\ position' = Moved(h, g, pos)
  BY <1>3, <1>5 DEF Recount
<1>7. g \in Seq(Interp) /\ Len(g) = n /\ DOMAIN g = 1..n
  BY <1>4
<1>8. Distinct(g) /\ \A x : Has(g, x) <=> Has(h, x)
  BY <1>1, <1>4, <1>7 DEF Once, Distinct, In, Has
<1>9. Heaped(g, cnt)
  <2>1. SUFFICES ASSUME NEW k \in 1..n, k > 1 PROVE cnt[g[k]] <= cnt[g[k \div 2]]
    BY <1>7 DEF Heaped
  <2>2. k \in 2..n /\ par[k] = k \div 2
    BY <1>1, <2>1 DEF Above
  <2>3. cnt[g[k]] <= cnt[g[par[k]]]
    BY <1>4, <2>2 DEF Sorted
  <2>4. QED
    BY <2>2, <2>3
<1>10. \A i \in Interp : position'[i] =
          IF \E k \in DOMAIN g : g[k] = i /\ (k \notin DOMAIN h \/ h[k] # i)
            THEN (CHOOSE k \in DOMAIN g : g[k] = i) - 1 ELSE pos[i]
  BY <1>6, Zenon DEF Moved
<1>11. ASSUME NEW i \in Interp, NEW k \in 1..n, g[k] = i
       PROVE  (CHOOSE j \in DOMAIN g : g[j] = i) = k
  <2>1. PICK m : m = CHOOSE j \in DOMAIN g : g[j] = i
    OBVIOUS
  <2>2. m \in 1..n /\ g[m] = i
    BY <1>7, <1>11, <2>1
  <2>3. m = k
    BY <1>4, <1>11, <2>2 DEF Once
  <2>4. QED
    BY <2>1, <2>3
<1>12. ASSUME NEW k \in 1..n PROVE position'[g[k]] = k - 1
  <2>1. g[k] \in Interp
    BY <1>4
  <2>2. CASE \E j \in DOMAIN g : g[j] = g[k] /\ (j \notin DOMAIN h \/ h[j] # g[k])
    BY <1>10, <1>11, <2>1, <2>2
  <2>3. CASE ~\E j \in DOMAIN g : g[j] = g[k] /\ (j \notin DOMAIN h \/ h[j] # g[k])
    <3>1. h[k] = g[k] /\ position'[g[k]] = pos[g[k]]
      BY <1>2, <1>7, <1>10, <2>1, <2>3
    <3>2. pos[h[k]] = k - 1
      BY <1>1 DEF Placed
    <3>3. QED
      BY <3>1, <3>2
  <2>4. QED
    BY <2>2, <2>3
<1>13. ASSUME NEW i \in Interp PROVE position'[i] \in Nat
  <2>1. CASE \E k \in 1..n : g[k] = i
    <3>1. PICK k \in 1..n : g[k] = i
      BY <2>1
    <3>2. position'[i] = k - 1
      BY <1>12, <3>1
    <3>3. QED
      BY <3>2
  <2>2. CASE ~\E k \in 1..n : g[k] = i
    BY <1>7, <1>10, <2>2
  <2>3. QED
    BY <2>1, <2>2
<1>14. position' \in [Interp -> Nat]
  BY <1>6, <1>13 DEF Moved
<1>15. Placed(g, position')
  BY <1>7, <1>12 DEF Placed
<1>16. QED
  BY <1>6, <1>7, <1>8, <1>9, <1>14, <1>15 DEF Tidy

\* When one count changes only the neighbours of its interpreter can be wrong.
LEMMA NearBy ==
  ASSUME NEW h \in Seq(Interp), Distinct(h), NEW cnt \in [Interp -> Nat], Heaped(h, cnt),
         NEW new \in [Interp -> Nat], NEW k0 \in 1..Len(h),
         \A x \in Interp : x # h[k0] => new[x] = cnt[x],
         NEW par, Above(par, Len(h))
  PROVE  Near(h, new, par, Len(h), k0)
<1>1. PICK n \in Nat : n = Len(h)
  OBVIOUS
<1>2. /\ h \in [1..n -> Interp] /\ k0 \in 1..n
      /\ \A j, k \in 1..n : h[j] = h[k] => j = k
  BY <1>1 DEF Distinct
<1>3. ASSUME NEW j \in 2..n
      PROVE  j \in 1..n /\ par[j] \in 1..n /\ par[j] < j /\ cnt[h[j]] <= cnt[h[par[j]]]
  <2>1. j \in 1..n /\ j > 1 /\ par[j] \in 1..n /\ par[j] < j /\ par[j] = j \div 2
    BY <1>1 DEF Above
  <2>2. cnt[h[j]] <= cnt[h[j \div 2]]
    BY <1>1, <2>1 DEF Heaped
  <2>3. QED
    BY <2>1, <2>2
<1>4. \A j \in 1..n : j # k0 => new[h[j]] = cnt[h[j]]
  BY <1>2
<1>5. \A j \in 1..n : cnt[h[j]] \in Nat
  BY <1>2
<1>6. ASSUME NEW j \in 2..n, j # k0, par[j] # k0 PROVE new[h[j]] <= new[h[par[j]]]
  BY <1>3, <1>4, <1>6
<1>7. ASSUME NEW j \in 2..n, par[j] = k0, k0 > 1 PROVE new[h[j]] <= new[h[par[k0]]]
  <2>1. /\ j \in 1..n /\ k0 \in 2..n /\ k0 < j /\ cnt[h[j]] <= cnt[h[k0]]
        /\ par[k0] \in 1..n /\ par[k0] < k0 /\ cnt[h[k0]] <= cnt[h[par[k0]]]
    BY <1>2, <1>3, <1>7
  <2>2. new[h[j]] = cnt[h[j]] /\ new[h[par[k0]]] = cnt[h[par[k0]]]
    BY <1>4, <2>1
  <2>3. cnt[h[j]] \in Nat /\ cnt[h[k0]] \in Nat /\ cnt[h[par[k0]]] \in Nat
    BY <1>2, <1>5, <2>1
  <2>4. QED
    BY <2>1, <2>2, <2>3, SMTT(30)
<1>8. QED
  BY <1>1, <1>6, <1>7 DEF Near, Beside

\* The heap as AcquirePerl and ReleasePerl find and leave it.
Lent ==
  /\ Tidy(heap, position, count)
  /\ \A i \in Interp : ~Has(heap, i) => count[i] = 0

\* Below the limit there is an interpreter that is not in the heap.
LEMMA OneMore ==
  ASSUME scene \in Scenes, heap \in Seq(Interp), Len(heap) < scene.interpreters
  PROVE  \E i \in Interp : ~Has(heap, i)
<1>1. PICK n \in Nat : n = Len(heap)
  OBVIOUS
<1>2. SUFFICES ASSUME \A i \in Interp : Has(heap, i) PROVE FALSE
  OBVIOUS
<1>3. heap \in Surjection(1..n, Interp)
  BY <1>1, <1>2 DEF Surjection, Has
<1>4. IsFiniteSet(1..n) /\ Cardinality(1..n) = n
  BY FS_Interval
<1>5. IsFiniteSet(Interp) /\ Cardinality(Interp) <= n
  BY <1>3, <1>4, FS_Surjection
<1>6. Cardinality(Interp) \in Nat
  BY <1>5, FS_CardinalityType
<1>7. scene.interpreters \in 1..Cardinality(Interp)
  BY PoolAssumption DEF SceneOK
<1>8. QED
  BY <1>1, <1>5, <1>6, <1>7

LEMMA ChosenIs ==
  ASSUME scene \in Scenes, heap \in Seq(Interp)
  PROVE  /\ Chosen \in Interp
         /\ Chosen \in Range(heap) <=> Has(heap, Chosen)
<1>1. \A x : x \in Range(heap) <=> Has(heap, x)
  <2>1. DOMAIN heap = 1..Len(heap)
    OBVIOUS
  <2>2. QED
    BY <2>1 DEF Range, Has
<1>2. CASE Len(heap) < scene.interpreters
  <2>1. \E i \in Interp : i \notin Range(heap)
    BY <1>1, <1>2, OneMore
  <2>2. Chosen = CHOOSE i \in Interp : i \notin Range(heap)
    BY <1>2 DEF Chosen
  <2>3. QED
    BY <1>1, <2>1, <2>2
<1>3. CASE ~(Len(heap) < scene.interpreters)
  <2>1. scene.interpreters \in 1..Cardinality(Interp)
    BY PoolAssumption DEF SceneOK
  <2>2. Len(heap) \in Nat /\ Len(heap) >= 1
    BY <1>3, <2>1
  <2>3. heap[1] \in Interp
    BY <2>2
  <2>4. QED
    BY <1>1, <1>3, <2>3 DEF Chosen
<1>4. QED
  BY <1>2, <1>3

LEMMA Acquires ==
  ASSUME scene \in Scenes, Lent, AcquirePerl(Chosen)
  PROVE  /\ Chosen \in Interp /\ Lent'
         /\ count' = [count EXCEPT ![Chosen] = @ + 1]
         /\ \A x : Has(heap', x) <=> Has(heap, x) \/ x = Chosen
<1>1. PICK i \in Interp : i = Chosen /\ (i \in Range(heap) <=> Has(heap, i))
  BY ChosenIs DEF Lent, Tidy
<1>2. /\ heap \in Seq(Interp) /\ Distinct(heap) /\ position \in [Interp -> Nat]
      /\ count \in [Interp -> Nat] /\ Placed(heap, position) /\ Heaped(heap, count)
      /\ \A x \in Interp : ~Has(heap, x) => count[x] = 0
  BY DEF Lent, Tidy
<1>3. CASE Has(heap, i)
  <2>1. PICK cnt : cnt = [count EXCEPT ![i] = @ + 1]
    OBVIOUS
  <2>2. cnt \in [Interp -> Nat] /\ \A x \in Interp : x # i => cnt[x] = count[x]
    BY <1>2, <2>1
  <2>3. Recount(heap, position, i, cnt)
    BY <1>1, <1>3, <2>1 DEF AcquirePerl
  <2>4. PICK k \in 1..Len(heap) : heap[k] = i
    BY <1>3 DEF Has
  <2>5. PICK par : Above(par, Len(heap))
    BY <1>2, Halves
  <2>6. Near(heap, cnt, par, Len(heap), k)
    BY <1>2, <2>2, <2>4, <2>5, NearBy
  <2>7. /\ Tidy(heap', position', count') /\ count' = cnt
        /\ \A x : Has(heap', x) <=> Has(heap, x)
    BY <1>2, <2>2, <2>3, <2>4, <2>5, <2>6, Recounts
  <2>8. Lent'
    BY <1>2, <1>3, <2>2, <2>7 DEF Lent
  <2>9. QED
    BY <1>1, <1>3, <2>1, <2>7, <2>8
<1>4. CASE ~Has(heap, i)
  <2>1. PICK h : h = Append(heap, i)
    OBVIOUS
  <2>2. PICK n \in Nat : n = Len(heap)
    BY <1>2
  <2>3. /\ h \in Seq(Interp) /\ Len(h) = n + 1 /\ h[n + 1] = i
        /\ \A k \in 1..n : h[k] = heap[k] /\ heap[k] \in Interp /\ heap[k] # i
    BY <1>2, <1>4, <2>1, <2>2 DEF Has
  <2>4. \A k \in 1..n + 1 : k \in 1..n \/ k = n + 1
    OBVIOUS
  <2>5. Distinct(h) /\ \A x : Has(h, x) <=> Has(heap, x) \/ x = i
    <3>1. Distinct(h)
      BY <1>2, <2>2, <2>3, <2>4 DEF Distinct
    <3>2. \A k \in 1..n : k \in 1..n + 1
      OBVIOUS
    <3>3. n + 1 \in 1..n + 1
      OBVIOUS
    <3>4. \A x : Has(h, x) <=> Has(heap, x) \/ x = i
      BY <2>2, <2>3, <2>4, <3>2, <3>3 DEF Has
    <3>5. QED
      BY <3>1, <3>4
  <2>6. PICK cnt : cnt = [count EXCEPT ![i] = 1]
    OBVIOUS
  <2>7. /\ cnt \in [Interp -> Nat] /\ cnt[i] = 1 /\ count[i] = 0
        /\ \A x \in Interp : x # i => cnt[x] = count[x]
    BY <1>2, <1>4, <2>6
  <2>8. cnt = [count EXCEPT ![i] = @ + 1]
    BY <1>2, <2>6, <2>7
  <2>9. PICK pos : pos = [position EXCEPT ![i] = Len(heap)]
    OBVIOUS
  <2>10. pos \in [Interp -> Nat] /\ pos[i] = n /\ \A x \in Interp : x # i => pos[x] = position[x]
    BY <1>2, <2>2, <2>9
  <2>11. Placed(h, pos)
    <3>1. SUFFICES ASSUME NEW k \in 1..n + 1 PROVE pos[h[k]] = k - 1
      BY <2>3 DEF Placed
    <3>2. CASE k \in 1..n
      <4>1. position[heap[k]] = k - 1
        BY <1>2, <2>2, <3>2 DEF Placed
      <4>2. QED
        BY <2>3, <2>10, <3>2, <4>1
    <3>3. CASE k = n + 1
      BY <2>3, <2>10, <3>3
    <3>4. QED
      BY <2>4, <3>2, <3>3
  <2>12. Recount(h, pos, i, cnt)
    BY <1>1, <1>4, <2>1, <2>6, <2>9 DEF AcquirePerl
  <2>13. PICK par : Above(par, n + 1)
    BY Halves
  <2>14. Near(h, cnt, par, n + 1, n + 1)
    <3>1. ASSUME NEW j \in 2..n + 1, j # n + 1 PROVE cnt[h[j]] <= cnt[h[par[j]]]
      <4>1. j \in 1..n /\ j > 1
        BY <3>1
      <4>2. par[j] = j \div 2 /\ par[j] \in 1..n + 1 /\ par[j] < j
        BY <2>13 DEF Above
      <4>3. par[j] \in 1..n
        BY <4>1, <4>2
      <4>4. count[heap[j]] <= count[heap[j \div 2]]
        BY <1>2, <2>2, <4>1 DEF Heaped
      <4>5. cnt[h[j]] = count[heap[j]] /\ cnt[h[par[j]]] = count[heap[par[j]]]
        BY <2>3, <2>7, <4>1, <4>3
      <4>6. QED
        BY <4>2, <4>4, <4>5
    <3>2. ASSUME NEW j \in 2..n + 1 PROVE par[j] # n + 1
      <4>1. par[j] < j /\ par[j] \in 1..n + 1
        BY <2>13 DEF Above
      <4>2. QED
        BY <4>1
    <3>3. QED
      BY <3>1, <3>2 DEF Near, Beside
  <2>15. PICK k \in 1..Len(h) : k = n + 1 /\ h[k] = i
    BY <2>3
  <2>16. /\ Tidy(heap', position', count') /\ count' = cnt
         /\ \A x : Has(heap', x) <=> Has(h, x)
    <3>1. Above(par, Len(h)) /\ Near(h, cnt, par, Len(h), k) /\ Recount(h, pos, h[k], cnt)
      BY <2>3, <2>12, <2>13, <2>14, <2>15
    <3>2. QED
      BY <2>3, <2>5, <2>7, <2>10, <2>11, <2>15, <3>1, Recounts
  <2>17. Lent'
    BY <1>2, <2>5, <2>7, <2>16 DEF Lent
  <2>18. QED
    BY <1>1, <2>5, <2>8, <2>16, <2>17
<1>5. QED
  BY <1>3, <1>4

LEMMA GivesBack ==
  ASSUME Lent, NEW i \in Interp, Has(heap, i), count[i] # 0, ReleasePerl(i)
  PROVE  /\ Lent' /\ count' = [count EXCEPT ![i] = @ - 1]
         /\ \A x : Has(heap', x) <=> Has(heap, x)
<1>1. /\ heap \in Seq(Interp) /\ Distinct(heap) /\ position \in [Interp -> Nat]
      /\ count \in [Interp -> Nat] /\ Placed(heap, position) /\ Heaped(heap, count)
      /\ \A x \in Interp : ~Has(heap, x) => count[x] = 0
  BY DEF Lent, Tidy
<1>2. PICK cnt : cnt = [count EXCEPT ![i] = @ - 1]
  OBVIOUS
<1>3. cnt \in [Interp -> Nat] /\ \A x \in Interp : x # i => cnt[x] = count[x]
  <2>1. count[i] - 1 \in Nat
    BY <1>1
  <2>2. QED
    BY <1>1, <1>2, <2>1
<1>4. Recount(heap, position, i, cnt)
  BY <1>2 DEF ReleasePerl
<1>5. PICK k \in 1..Len(heap) : heap[k] = i
  BY DEF Has
<1>6. PICK par : Above(par, Len(heap))
  BY <1>1, Halves
<1>7. Near(heap, cnt, par, Len(heap), k)
  BY <1>1, <1>3, <1>5, <1>6, NearBy
<1>8. /\ Tidy(heap', position', count') /\ count' = cnt
      /\ \A x : Has(heap', x) <=> Has(heap, x)
  BY <1>1, <1>3, <1>4, <1>5, <1>6, <1>7, Recounts
<1>9. Lent'
  BY <1>1, <1>3, <1>8 DEF Lent
<1>10. QED
  BY <1>2, <1>8, <1>9

(***************************************************************************)
(* The resources and their interpreters.  Until ReleasePerl a resource     *)
(* lives in its interpreter, which is in the heap.                         *)
(***************************************************************************)
Lodged ==
  /\ obj \in [Res -> Object(Interp \cup {NoOne})] /\ failed \in [Interp -> Nat]
  /\ \A r \in Res : /\ obj[r].pi # NoOne => Has(heap, obj[r].pi)
                    /\ obj[r].ty \in PerlType => obj[r].pi # NoOne
                    /\ obj[r].ty \in Native => obj[r].pi = NoOne
  /\ \A u \in Thread : op[u].pc \in {"loadinit", "init"} => obj[op[u].r].pi # NoOne

HeapInv == Lent /\ Lodged /\ CountExact

Leaving(r) == \E u \in Thread : op[u].pc = "delete" /\ op[u].r = r
Lives(r, i) == obj[r].pi = i /\ ~Leaving(r)

LEMMA TenantsLive ==
  \A i : /\ Tenants(i) = {r \in Res : Lives(r, i)}
         /\ IsFiniteSet(Tenants(i)) /\ Cardinality(Tenants(i)) \in Nat
<1>1. SUFFICES ASSUME NEW i
               PROVE  /\ Tenants(i) = {r \in Res : Lives(r, i)}
                      /\ IsFiniteSet(Tenants(i)) /\ Cardinality(Tenants(i)) \in Nat
  OBVIOUS
<1>2. Tenants(i) = {r \in Res : Lives(r, i)}
  BY DEF Tenants, Lives, Leaving, At
<1>3. IsFiniteSet(Tenants(i))
  BY <1>2, PoolAssumption, FS_Subset
<1>4. QED
  BY <1>2, <1>3, FS_CardinalityType

\* Where a resource lives changes for x alone, and the counts follow.
LEMMA CountSame ==
  ASSUME CountExact, \A r \in Res, i \in Interp : Lives(r, i)' <=> Lives(r, i),
         UNCHANGED <<count, failed>>
  PROVE  CountExact'
<1>1. \A i \in Interp : Tenants(i)' = Tenants(i)
  <2>1. SUFFICES ASSUME NEW i \in Interp PROVE Tenants(i)' = Tenants(i)
    OBVIOUS
  <2>2. Tenants(i) = {r \in Res : Lives(r, i)} /\ Tenants(i)' = {r \in Res : Lives(r, i)'}
    BY DEF Tenants, Lives, Leaving, At
  <2>3. QED
    BY <2>2
<1>2. QED
  BY <1>1 DEF CountExact

LEMMA CountMoves ==
  ASSUME CountExact, count \in [Interp -> Nat], failed \in [Interp -> Nat],
         NEW x \in Res, NEW j \in Interp,
         \A r \in Res, i \in Interp : r # x => (Lives(r, i)' <=> Lives(r, i)),
         \A i \in Interp : i # j => ~Lives(x, i) /\ ~Lives(x, i)',
         \/ /\ ~Lives(x, j) /\ Lives(x, j)' /\ UNCHANGED failed
            /\ count' = [count EXCEPT ![j] = @ + 1]
         \/ /\ Lives(x, j) /\ ~Lives(x, j)'
            /\ \/ count' = [count EXCEPT ![j] = @ - 1] /\ UNCHANGED failed
               \/ failed' = [failed EXCEPT ![j] = @ + 1] /\ UNCHANGED count
  PROVE  CountExact'
<1>1. SUFFICES ASSUME NEW i \in Interp
               PROVE  count'[i] = Cardinality(Tenants(i)') + failed'[i]
  BY DEF CountExact
<1>2. /\ Tenants(i) = {r \in Res : Lives(r, i)} /\ Tenants(i)' = {r \in Res : Lives(r, i)'}
      /\ IsFiniteSet(Tenants(i)) /\ Cardinality(Tenants(i)) \in Nat
  <2>1. /\ Tenants(i) = {r \in Res : Lives(r, i)} /\ Tenants(i)' = {r \in Res : Lives(r, i)'}
    BY DEF Tenants, Lives, Leaving, At
  <2>2. QED
    BY <2>1, TenantsLive
<1>3. count[i] = Cardinality(Tenants(i)) + failed[i] /\ count[i] \in Nat /\ failed[i] \in Nat
  BY DEF CountExact
<1> HIDE DEF Tenants
<1>4. CASE i # j
  <2>1. Tenants(i)' = Tenants(i)
    BY <1>2, <1>4
  <2>2. count'[i] = count[i] /\ failed'[i] = failed[i]
    BY <1>4
  <2>3. QED
    BY <1>3, <2>1, <2>2
<1>5. CASE i = j /\ Lives(x, j)'
  <2>1. /\ Tenants(i)' = Tenants(i) \cup {x} /\ x \notin Tenants(i)
        /\ count'[i] = count[i] + 1 /\ failed'[i] = failed[i]
    BY <1>2, <1>5
  <2>2. Cardinality(Tenants(i)') = Cardinality(Tenants(i)) + 1
    BY <1>2, <2>1, FS_AddElement
  <2>3. QED
    BY <1>2, <1>3, <2>1, <2>2
<1>6. CASE i = j /\ ~Lives(x, j)'
  <2>1. Tenants(i)' = Tenants(i) \ {x} /\ x \in Tenants(i)
    BY <1>2, <1>6
  <2>2. Cardinality(Tenants(i)') = Cardinality(Tenants(i)) - 1
    BY <1>2, <2>1, FS_RemoveElement
  <2>3. \/ count'[i] = count[i] - 1 /\ failed'[i] = failed[i]
        \/ count'[i] = count[i] /\ failed'[i] = failed[i] + 1
    BY <1>6
  <2>4. QED
    BY <1>2, <1>3, <2>2, <2>3
<1>7. QED
  BY <1>4, <1>5, <1>6

\* A step that changes no interpreter, no type and no deletion.
LEMMA HeapQuiet ==
  ASSUME HeapInv, NEW t \in Thread, Others(t), UNCHANGED <<heap, count, position, failed>>,
         obj' \in [Res -> Object(Interp \cup {NoOne})],
         \A r \in Res : obj'[r].pi = obj[r].pi /\ obj'[r].ty = obj[r].ty,
         op[t].pc # "delete", op'[t].pc # "delete", op'[t].pc \notin {"loadinit", "init"},
         \A u \in Thread \ {t} : op[u].pc \in {"loadinit", "init"} => op[u].r \in Res
  PROVE  HeapInv'
<1>1. \A u \in Thread : /\ op'[u].pc = "delete" <=> op[u].pc = "delete"
                        /\ op'[u].pc = "delete" => op'[u].r = op[u].r
  BY DEF Others
<1>2. \A r \in Res, i \in Interp : Lives(r, i)' <=> Lives(r, i)
  BY <1>1 DEF Lives, Leaving
<1>3. CountExact'
  BY <1>2, CountSame DEF HeapInv
<1>4. Lent'
  BY DEF HeapInv, Lent, Tidy, Placed, Heaped, Has, Distinct
<1>5. Lodged'
  <2>1. \A u \in Thread : op'[u].pc \in {"loadinit", "init"} => obj'[op'[u].r].pi # NoOne
    BY DEF HeapInv, Lodged, Others
  <2>2. QED
    BY <2>1 DEF HeapInv, Lodged, Has
<1>6. QED
  BY <1>3, <1>4, <1>5 DEF HeapInv

\* A step of t that makes or discards x, or ends its stay.
Resettles(t, x) ==
  /\ obj' \in [Res -> Object(Interp \cup {NoOne})] /\ failed' \in [Interp -> Nat]
  /\ \A r \in Res \ {x} : obj'[r] = obj[r]
  /\ \A y : Has(heap, y) => Has(heap', y)
  /\ obj'[x].pi # NoOne => Has(heap', obj'[x].pi)
  /\ obj'[x].ty \in PerlType => obj'[x].pi # NoOne
  /\ obj'[x].ty \in Native => obj'[x].pi = NoOne
  /\ op'[t].pc \in {"loadinit", "init"} => op'[t].r = x /\ obj'[x].pi # NoOne
  /\ \A u \in Thread \ {t} : op[u].r # x
  /\ \A u \in Thread \ {t} : op[u].pc \in {"loadinit", "init"} => op[u].r \in Res

LEMMA LodgedMoves ==
  ASSUME Lodged, NEW t \in Thread, Others(t), NEW x \in Res, Resettles(t, x)
  PROVE  Lodged'
<1>1. ASSUME NEW u \in Thread, op'[u].pc \in {"loadinit", "init"} PROVE obj'[op'[u].r].pi # NoOne
  BY <1>1 DEF Lodged, Others, Resettles
<1>2. ASSUME NEW r \in Res
      PROVE  /\ obj'[r].pi # NoOne => Has(heap', obj'[r].pi)
             /\ obj'[r].ty \in PerlType => obj'[r].pi # NoOne
             /\ obj'[r].ty \in Native => obj'[r].pi = NoOne
  <2>1. CASE r = x
    BY <2>1 DEF Resettles
  <2>2. CASE r # x
    BY <2>2 DEF Lodged, Resettles
  <2>3. QED
    BY <2>1, <2>2
<1>3. QED
  BY <1>1, <1>2 DEF Lodged, Resettles

\* What the invariants say of the resource that a thread keeps: it exists, and
\* no other thread keeps it.
LEMMA Sole ==
  ASSUME Shape, Single, NEW t \in Thread, op[t].pc \in Keeping
  PROVE  op[t].r \in Res /\ \A u \in Thread \ {t} : op[u].r # op[t].r
<1>1. PICK x \in Res : x = op[t].r
  BY Kept
<1>2. PlaceOK(x)
  BY DEF Single
<1>3. QED
  BY <1>1, <1>2 DEF PlaceOK

LEMMA Keepers ==
  ASSUME Shape
  PROVE  \A u \in Thread : op[u].pc \in {"loadinit", "init"} => op[u].r \in Res
<1>1. SUFFICES ASSUME NEW u \in Thread, op[u].pc \in {"loadinit", "init"} PROVE op[u].r \in Res
  OBVIOUS
<1>2. op[u].pc \in Keeping
  BY <1>1 DEF Keeping
<1>3. QED
  BY <1>2, Kept

\* A new resource that no thread keeps.
Fresh(x, ty, pi) ==
  /\ obj[x].pi = NoOne
  /\ obj' \in [Res -> Object(Interp \cup {NoOne})]
  /\ obj'[x].ty = ty /\ obj'[x].pi = pi /\ \A r \in Res \ {x} : obj'[r] = obj[r]
  /\ \A u \in Thread : op[u].r # x

LEMMA FreshName ==
  ASSUME Shape, Names, Single, HeapInv, NEW t \in Thread, op[t].pc = "load",
         NEW ty \in Type \cup {NoOne}, NEW pi \in Interp \cup {NoOne}, New(NewName, ty, pi)
  PROVE  NewName \in Res /\ Fresh(NewName, ty, pi)
<1>1. PICK x \in Res : x = NewName /\ obj[x] = NoObj
  BY NewNameUnused DEF Seeking
<1>2. obj \in [Res -> Object(Interp \cup {NoOne})] /\ nextId \in Nat
  BY DEF HeapInv, Lodged, Shape
<1>3. obj' = [obj EXCEPT ![x] = [ty |-> ty, id |-> nextId, pi |-> pi]]
  BY <1>1 DEF New
<1>4. PlaceOK(x)
  BY DEF Single
<1>5. /\ obj' \in [Res -> Object(Interp \cup {NoOne})]
      /\ obj'[x].ty = ty /\ obj'[x].pi = pi /\ \A r \in Res \ {x} : obj'[r] = obj[r]
  BY <1>2, <1>3 DEF Object
<1>6. obj[x].pi = NoOne /\ \A u \in Thread : op[u].r # x
  BY <1>1, <1>4 DEF PlaceOK, NoObj
<1>7. Fresh(x, ty, pi)
  BY <1>5, <1>6 DEF Fresh
<1>8. QED
  BY <1>1, <1>7

\* LoadPerl and Create, for a Perl type.
LEMMA PerlMade ==
  ASSUME Shape, Names, Single, HeapInv, NEW t \in Thread, op[t].pc = "load", Others(t),
         NEW ty \in PerlType \cup {NoOne}, AcquirePerl(Chosen), New(NewName, ty, Chosen),
         UNCHANGED failed, op'[t].pc \in {"loadinit", "init"}, op'[t].r = NewName
  PROVE  HeapInv'
<1>1. /\ Chosen \in Interp /\ Lent'
      /\ count' = [count EXCEPT ![Chosen] = @ + 1]
      /\ \A y : Has(heap', y) <=> Has(heap, y) \/ y = Chosen
  BY Acquires DEF HeapInv, Shape
<1>2. PICK i \in Interp : i = Chosen
  BY <1>1
<1>3. /\ NoOne \notin Type /\ NoOne \notin Interp /\ NoOne \notin Res
      /\ Native \cap PerlType = {}
      /\ ty \in Type \cup {NoOne} /\ ty \notin Native
  BY PoolAssumption DEF Type
<1>4. PICK x \in Res :
        /\ x = NewName /\ obj[x].pi = NoOne
        /\ obj' \in [Res -> Object(Interp \cup {NoOne})]
        /\ obj'[x].ty = ty /\ obj'[x].pi = i /\ \A r \in Res \ {x} : obj'[r] = obj[r]
        /\ \A u \in Thread : op[u].r # x
  <2>1. NewName \in Res /\ Fresh(NewName, ty, Chosen)
    BY <1>1, <1>3, FreshName
  <2>2. QED
    BY <1>2, <2>1 DEF Fresh
<1>5. Lodged'
  <2>1. failed' \in [Interp -> Nat] /\ Lodged
    BY DEF HeapInv, Lodged
  <2>2. \A u \in Thread \ {t} : op[u].pc \in {"loadinit", "init"} => op[u].r \in Res
    BY Keepers
  <2>3. obj'[x].pi # NoOne /\ Has(heap', obj'[x].pi) /\ obj'[x].ty \notin Native
    BY <1>1, <1>2, <1>3, <1>4
  <2>4. Resettles(t, x)
    BY <1>1, <1>4, <2>1, <2>2, <2>3 DEF Resettles
  <2>5. QED
    BY <2>1, <2>4, LodgedMoves
<1>6. CountExact'
  <2>1. op'[t].pc # "delete" /\ op[t].pc # "delete"
    OBVIOUS
  <2>2. \A r \in Res : Leaving(r)' <=> Leaving(r)
    BY <2>1 DEF Leaving, Others
  <2>3. \A r \in Res, j \in Interp : r # x => (Lives(r, j)' <=> Lives(r, j))
    BY <1>4, <2>2 DEF Lives
  <2>4. ~Leaving(x)
    BY <1>4 DEF Leaving
  <2>5. \A j \in Interp : ~Lives(x, j) /\ (Lives(x, j)' <=> j = i)
    BY <1>3, <1>4, <2>2, <2>4 DEF Lives
  <2>6. /\ CountExact /\ count \in [Interp -> Nat] /\ failed \in [Interp -> Nat]
        /\ count' = [count EXCEPT ![i] = @ + 1]
    BY <1>1, <1>2 DEF HeapInv, Lent, Tidy, Lodged
  <2>7. QED
    BY <2>3, <2>5, <2>6, CountMoves
<1>7. QED
  BY <1>1, <1>5, <1>6 DEF HeapInv

\* LoadNative and Create, for a native type.
LEMMA NativeMade ==
  ASSUME Shape, Names, Single, HeapInv, NEW t \in Thread, op[t].pc = "load", Others(t),
         NEW ty \in Native, New(NewName, ty, NoOne), UNCHANGED <<heap, count, position, failed>>,
         op'[t].pc \notin {"delete", "loadinit", "init"}
  PROVE  HeapInv'
<1>1. /\ NoOne \notin Interp /\ Native \cap PerlType = {} /\ ty \in Type \cup {NoOne}
      /\ ty \notin PerlType
  BY PoolAssumption DEF Type
<1>2. PICK x \in Res :
        /\ x = NewName /\ obj[x].pi = NoOne
        /\ obj' \in [Res -> Object(Interp \cup {NoOne})]
        /\ obj'[x].ty = ty /\ obj'[x].pi = NoOne /\ \A r \in Res \ {x} : obj'[r] = obj[r]
        /\ \A u \in Thread : op[u].r # x
  <2>1. NewName \in Res /\ Fresh(NewName, ty, NoOne)
    BY <1>1, FreshName
  <2>2. QED
    BY <2>1 DEF Fresh
<1>3. Lodged'
  <2>1. failed' \in [Interp -> Nat] /\ Lodged
    BY DEF HeapInv, Lodged
  <2>2. \A u \in Thread \ {t} : op[u].pc \in {"loadinit", "init"} => op[u].r \in Res
    BY Keepers
  <2>3. \A y : Has(heap, y) => Has(heap', y)
    BY DEF Has
  <2>4. Resettles(t, x)
    BY <1>1, <1>2, <2>1, <2>2, <2>3 DEF Resettles
  <2>5. QED
    BY <2>1, <2>4, LodgedMoves
<1>4. CountExact'
  <2>1. \A r \in Res : Leaving(r)' <=> Leaving(r)
    BY DEF Leaving, Others
  <2>2. \A r \in Res, j \in Interp : Lives(r, j)' <=> Lives(r, j)
    BY <1>1, <1>2, <2>1 DEF Lives
  <2>3. QED
    BY <2>2, CountSame DEF HeapInv
<1>5. Lent'
  BY DEF HeapInv, Lent, Tidy, Placed, Heaped, Has, Distinct
<1>6. QED
  BY <1>3, <1>4, <1>5 DEF HeapInv

\* A resource that cannot be initialised: its interpreter stays acquired.
LEMMA Failed ==
  ASSUME Shape, Single, HeapInv, NEW t \in Thread, Others(t), op[t].pc \in {"loadinit", "init"},
         obj' = [obj EXCEPT ![op[t].r] = NoObj],
         failed' = [failed EXCEPT ![obj[op[t].r].pi] = @ + 1],
         UNCHANGED <<heap, count, position>>, op'[t].pc \notin {"delete", "loadinit", "init"}
  PROVE  HeapInv'
<1>1. /\ NoOne \notin Interp /\ NoOne \notin Type /\ Native \subseteq Type /\ PerlType \subseteq Type
  BY PoolAssumption DEF Type
<1>2. PICK x \in Res : x = op[t].r /\ \A u \in Thread \ {t} : op[u].r # x
  BY Sole DEF Keeping
<1>3. obj \in [Res -> Object(Interp \cup {NoOne})] /\ failed \in [Interp -> Nat]
  BY DEF HeapInv, Lodged
<1>4. PICK i \in Interp : i = obj[x].pi
  BY <1>2, <1>3 DEF HeapInv, Lodged, Object
<1>5. /\ obj' \in [Res -> Object(Interp \cup {NoOne})] /\ obj'[x].pi = NoOne /\ obj'[x].ty = NoOne
      /\ \A r \in Res \ {x} : obj'[r] = obj[r]
  BY <1>2, <1>3 DEF Object, NoObj
<1>6. failed' = [failed EXCEPT ![i] = @ + 1] /\ failed' \in [Interp -> Nat]
  BY <1>2, <1>3, <1>4
<1>7. Lodged'
  <2>1. Lodged /\ \A y : Has(heap, y) => Has(heap', y)
    BY DEF HeapInv, Has
  <2>2. \A u \in Thread \ {t} : op[u].pc \in {"loadinit", "init"} => op[u].r \in Res
    BY Keepers
  <2>3. obj'[x].ty \notin PerlType /\ obj'[x].ty \notin Native
    BY <1>1, <1>5
  <2>4. Resettles(t, x)
    BY <1>2, <1>5, <1>6, <2>1, <2>2, <2>3 DEF Resettles
  <2>5. QED
    BY <2>1, <2>4, LodgedMoves
<1>8. CountExact'
  <2>1. \A r \in Res : Leaving(r)' <=> Leaving(r)
    BY DEF Leaving, Others
  <2>2. ~Leaving(x)
    BY <1>2 DEF Leaving
  <2>3. \A r \in Res, j \in Interp : r # x => (Lives(r, j)' <=> Lives(r, j))
    BY <1>5, <2>1 DEF Lives
  <2>4. \A j \in Interp : (Lives(x, j) <=> j = i) /\ ~Lives(x, j)'
    BY <1>1, <1>4, <1>5, <2>2 DEF Lives
  <2>5. CountExact /\ count \in [Interp -> Nat]
    BY DEF HeapInv, Lent, Tidy
  <2>6. QED
    BY <1>3, <1>6, <2>3, <2>4, <2>5, CountMoves
<1>9. Lent'
  BY DEF HeapInv, Lent, Tidy, Placed, Heaped, Has, Distinct
<1>10. QED
  BY <1>7, <1>8, <1>9 DEF HeapInv


\* Drop, of a Perl resource: it leaves its interpreter.
LEMMA DroppedPerl ==
  ASSUME Shape, Single, HeapInv, NEW t \in Thread, Others(t), op[t].pc = "drop",
         obj[op[t].r].ty \in PerlType, ReleasePerl(obj[op[t].r].pi),
         UNCHANGED <<obj, failed>>, op'[t].pc = "delete", op'[t].r = op[t].r
  PROVE  HeapInv'
<1>1. NoOne \notin Interp
  BY PoolAssumption
<1>2. PICK x \in Res : x = op[t].r /\ \A u \in Thread \ {t} : op[u].r # x
  BY Sole DEF Keeping
<1>3. obj \in [Res -> Object(Interp \cup {NoOne})] /\ failed \in [Interp -> Nat]
  BY DEF HeapInv, Lodged
<1>4. PICK i \in Interp : i = obj[x].pi /\ Has(heap, i)
  BY <1>2, <1>3 DEF HeapInv, Lodged, Object
<1>5. Lives(x, i) /\ \A j \in Interp : Lives(x, j) => j = i
  BY <1>2, <1>4 DEF Lives, Leaving
<1>6. CountExact /\ count \in [Interp -> Nat] /\ Lent /\ Lodged
  BY DEF HeapInv, Lent, Tidy
<1>7. count[i] # 0
  <2>1. x \in Tenants(i) /\ IsFiniteSet(Tenants(i)) /\ Cardinality(Tenants(i)) \in Nat
    BY <1>5, TenantsLive
  <2>2. Cardinality(Tenants(i)) # 0
    BY <2>1, FS_EmptySet
  <2>3. count[i] = Cardinality(Tenants(i)) + failed[i] /\ failed[i] \in Nat
    BY <1>3, <1>6 DEF CountExact
  <2>4. QED
    BY <2>1, <2>2, <2>3
<1>8. /\ Lent' /\ count' = [count EXCEPT ![i] = @ - 1]
      /\ \A y : Has(heap', y) <=> Has(heap, y)
  BY <1>2, <1>4, <1>6, <1>7, GivesBack
<1>9. Lodged'
  <2>1. \A u \in Thread \ {t} : op[u].pc \in {"loadinit", "init"} => op[u].r \in Res
    BY Keepers
  <2>2. /\ obj[x].pi # NoOne => Has(heap, obj[x].pi)
        /\ obj[x].ty \in PerlType => obj[x].pi # NoOne
        /\ obj[x].ty \in Native => obj[x].pi = NoOne
    BY <1>6 DEF Lodged
  <2>3. Resettles(t, x)
    BY <1>2, <1>3, <1>8, <2>1, <2>2 DEF Resettles
  <2>4. QED
    BY <1>6, <2>3, LodgedMoves
<1>10. CountExact'
  <2>1. Leaving(x)'
    BY <1>2 DEF Leaving
  <2>2. \A r \in Res : r # x => (Leaving(r)' <=> Leaving(r))
    BY <1>2 DEF Leaving, Others
  <2>3. \A r \in Res, j \in Interp : r # x => (Lives(r, j)' <=> Lives(r, j))
    BY <2>2 DEF Lives
  <2>4. \A j \in Interp : ~Lives(x, j)'
    BY <2>1 DEF Lives
  <2>5. QED
    BY <1>3, <1>5, <1>6, <1>8, <2>3, <2>4, CountMoves
<1>11. QED
  BY <1>8, <1>9, <1>10 DEF HeapInv

\* Drop, of a native resource, and Delete: no interpreter is concerned any more.
LEMMA Deserted ==
  ASSUME Shape, Single, HeapInv, NEW t \in Thread, Others(t), op[t].pc \in {"drop", "delete"},
         NEW x \in Res, x = op[t].r, obj'[x] \in {obj[x], NoObj},
         obj' \in [Res -> Object(Interp \cup {NoOne})], \A r \in Res : r # x => obj'[r] = obj[r],
         \A i \in Interp : ~Lives(x, i) /\ ~Lives(x, i)',
         UNCHANGED <<heap, count, position, failed>>, op'[t].pc \notin {"loadinit", "init"},
         op'[t].pc = "delete" => op'[t].r = x
  PROVE  HeapInv'
<1>1. /\ NoOne \notin Interp /\ NoOne \notin Type /\ Native \subseteq Type /\ PerlType \subseteq Type
  BY PoolAssumption DEF Type
<1>2. \A u \in Thread \ {t} : op[u].r # x
  BY Sole DEF Keeping
<1>3. Lodged /\ CountExact /\ failed' \in [Interp -> Nat] /\ \A y : Has(heap, y) => Has(heap', y)
  BY DEF HeapInv, Lodged, Has
<1>4. Lodged'
  <2>1. \A u \in Thread \ {t} : op[u].pc \in {"loadinit", "init"} => op[u].r \in Res
    BY Keepers
  <2>2. /\ obj[x].pi # NoOne => Has(heap, obj[x].pi)
        /\ obj[x].ty \in PerlType => obj[x].pi # NoOne
        /\ obj[x].ty \in Native => obj[x].pi = NoOne
    BY <1>3 DEF Lodged
  <2>3. /\ obj'[x].pi # NoOne => Has(heap', obj'[x].pi)
        /\ obj'[x].ty \in PerlType => obj'[x].pi # NoOne
        /\ obj'[x].ty \in Native => obj'[x].pi = NoOne
    BY <1>1, <1>2, <1>3, <2>2 DEF NoObj
  <2>4. Resettles(t, x)
    BY <1>2, <1>3, <2>1, <2>3 DEF Resettles
  <2>5. QED
    BY <1>3, <2>4, LodgedMoves
<1>5. CountExact'
  <2>1. \A r \in Res : r # x => (Leaving(r)' <=> Leaving(r))
    BY <1>2 DEF Leaving, Others
  <2>2. \A r \in Res, j \in Interp : Lives(r, j)' <=> Lives(r, j)
    <3>1. \A r \in Res, j \in Interp : r # x => (Lives(r, j)' <=> Lives(r, j))
      BY <1>2, <2>1 DEF Lives
    <3>2. QED
      BY <1>2, <3>1
  <2>3. QED
    BY <1>3, <2>2, CountSame
<1>6. Lent'
  BY DEF HeapInv, Lent, Tidy, Placed, Heaped, Has, Distinct
<1>7. QED
  BY <1>4, <1>5, <1>6 DEF HeapInv

LEMMA Dropped ==
  ASSUME Shape, Single, HeapInv, NEW t \in Thread, Others(t), Drop(t)
  PROVE  HeapInv'
<1>1. /\ op[t].pc = "drop" /\ op'[t].pc = "delete" /\ op'[t].r = op[t].r
      /\ UNCHANGED <<obj, failed>>
  BY DEF Drop, At, Go, Shape, OpShape, Record
<1>2. CASE obj[op[t].r].ty \in PerlType
  BY <1>1, <1>2, DroppedPerl DEF Drop, IsPerl
<1>3. CASE obj[op[t].r].ty \notin PerlType
  <2>1. PICK x \in Res : x = op[t].r
    BY <1>1, Sole DEF Keeping
  <2>2. obj[x].ty \in Type
    BY <1>1, <2>1 DEF Single, KeepOK, Keeps, Loads, Keeping
  <2>3. obj[x].pi = NoOne /\ obj \in [Res -> Object(Interp \cup {NoOne})]
    BY <1>3, <2>1, <2>2 DEF HeapInv, Lodged, Type
  <2>4. \A i \in Interp : ~Lives(x, i) /\ ~Lives(x, i)'
    BY <1>1, <2>3, PoolAssumption DEF Lives
  <2>5. UNCHANGED <<heap, count, position, failed>>
    BY <1>3 DEF Drop, IsPerl
  <2>6. QED
    BY <1>1, <2>1, <2>3, <2>4, <2>5, Deserted
<1>4. QED
  BY <1>2, <1>3

LEMMA Deleted ==
  ASSUME Shape, Single, HeapInv, NEW t \in Thread, Others(t), Delete(t)
  PROVE  HeapInv'
<1>1. /\ op[t].pc = "delete" /\ op'[t].pc = "idle"
      /\ obj' = [obj EXCEPT ![op[t].r] = NoObj] /\ UNCHANGED <<heap, count, position, failed>>
  BY DEF Delete, At, Done, Idle, perlVars, Shape, OpShape
<1>2. PICK x \in Res : x = op[t].r
  BY <1>1, Sole DEF Keeping
<1>3. obj \in [Res -> Object(Interp \cup {NoOne})]
  BY DEF HeapInv, Lodged
<1>4. /\ obj' \in [Res -> Object(Interp \cup {NoOne})] /\ obj'[x] = NoObj
      /\ \A r \in Res : r # x => obj'[r] = obj[r]
  BY <1>1, <1>2, <1>3 DEF Object, NoObj
<1>5. \A i \in Interp : ~Lives(x, i) /\ ~Lives(x, i)'
  BY <1>1, <1>2, <1>4, PoolAssumption DEF Lives, Leaving, NoObj
<1>6. QED
  BY <1>1, <1>2, <1>4, <1>5, Deserted

\* The steps that leave the interpreters alone.
LEMMA HeapRests ==
  ASSUME Shape, HeapInv, NEW t \in Thread, Others(t), Shape',
         \/ Call(t) \/ LockInfo(t) \/ LoadNoPerl(t) \/ NotFound(t) \/ Take(t) \/ ScriptLooks(t)
         \/ ScriptFound(t) \/ LockGive(t) \/ EndUse(t) \/ SetId(t) \/ Clear(t)
         \/ \E r \in Res : Use(t, r) \/ Release(t, r)
  PROVE  HeapInv'
<1> USE DEF At, Go, Done, Idle, perlVars
<1>1. obj \in [Res -> Object(Interp \cup {NoOne})] /\ op \in [Thread -> Record] /\ nextId \in Nat
  BY DEF HeapInv, Lodged, Shape, OpShape
<1>2. /\ UNCHANGED <<heap, count, position, failed>>
      /\ op[t].pc # "delete" /\ op'[t].pc \notin {"delete", "loadinit", "init"}
  <2>1. CASE Call(t)
    BY <1>1, <2>1 DEF Call, Record
  <2>2. CASE LockInfo(t)
    BY <1>1, <2>2 DEF LockInfo, Record
  <2>3. CASE Take(t)
    BY <1>1, <2>3 DEF Take, Record
  <2>4. CASE LoadNoPerl(t)
    BY <1>1, <2>4 DEF LoadNoPerl, Record
  <2>5. CASE ScriptLooks(t)
    BY <1>1, <2>5 DEF ScriptLooks, Record
  <2>6. CASE ScriptFound(t)
    BY <1>1, <2>6 DEF ScriptFound, Record
  <2>7. CASE LockGive(t)
    BY <1>1, <2>7 DEF LockGive, Record
  <2>8. CASE NotFound(t)
    BY <1>1, <2>8 DEF NotFound, Record
  <2>9. CASE EndUse(t)
    BY <1>1, <2>9 DEF EndUse, Record
  <2>10. CASE SetId(t)
    BY <1>1, <2>10 DEF SetId, Record
  <2>11. CASE Clear(t)
    BY <1>1, <2>11 DEF Clear, Record
  <2>12. CASE \E r \in Res : Use(t, r) \/ Release(t, r)
    <3>1. PICK r \in Res : Use(t, r) \/ Release(t, r)
      BY <2>12
    <3>2. CASE Use(t, r)
      BY <1>1, <3>2 DEF Use
    <3>3. CASE Release(t, r)
      BY <1>1, <3>3 DEF Release
    <3>4. QED
      BY <3>1, <3>2, <3>3
  <2>13. QED
    BY <2>1, <2>2, <2>3, <2>4, <2>5, <2>6, <2>7, <2>8, <2>9, <2>10, <2>11, <2>12
<1>3. \/ UNCHANGED obj
      \/ \E x \in Res, n \in Nat : obj' = [obj EXCEPT ![x].id = n]
  <2>1. CASE SetId(t)
    <3>1. op[t].r \in Res
      BY <2>1, Kept DEF SetId, Keeping
    <3>2. QED
      BY <1>1, <2>1, <3>1 DEF SetId
  <2>2. CASE Clear(t)
    <3>1. op[t].r \in Res
      BY <2>2, Kept DEF Clear, Keeping
    <3>2. QED
      BY <2>2, <3>1 DEF Clear
  <2>3. QED
    BY <2>1, <2>2, Zenon DEF Call, LockInfo, LoadNoPerl, NotFound, Take, ScriptLooks, ScriptFound,
       LockGive, EndUse, Use, Release
<1>4. /\ obj' \in [Res -> Object(Interp \cup {NoOne})]
      /\ \A r \in Res : obj'[r].pi = obj[r].pi /\ obj'[r].ty = obj[r].ty
  <2>1. CASE UNCHANGED obj
    BY <1>1, <2>1
  <2>2. CASE \E x \in Res, n \in Nat : obj' = [obj EXCEPT ![x].id = n]
    <3>1. PICK x \in Res, n \in Nat : obj' = [obj EXCEPT ![x].id = n]
      BY <2>2
    <3>2. QED
      BY <1>1, <3>1 DEF Object
  <2>3. QED
    BY <1>3, <2>1, <2>2
<1>5. QED
  BY <1>2, <1>4, HeapQuiet, Keepers

\* LoadInit and InitPerl.
LEMMA Initialised ==
  ASSUME Shape, Single, HeapInv, NEW t \in Thread, Others(t), LoadInit(t) \/ InitPerl(t)
  PROVE  HeapInv'
<1>1. /\ op[t].pc \in {"loadinit", "init"} /\ op'[t].pc \in {"load", "idle"}
      /\ UNCHANGED <<heap, count, position>>
  <2>1. op \in [Thread -> Record]
    BY DEF Shape, OpShape
  <2>2. CASE LoadInit(t)
    <3>1. /\ op[t].pc = "loadinit" /\ UNCHANGED <<heap, count, position>>
          /\ op' = [op EXCEPT ![t].pc = "load", ![t].r = NoOne]
      BY <2>2, Zenon DEF LoadInit, At
    <3>2. QED
      BY <2>1, <3>1 DEF Record
  <2>3. CASE InitPerl(t)
    <3>1. op[t].pc = "init" /\ op' = [op EXCEPT ![t] = Idle] /\ UNCHANGED <<heap, count, position>>
      BY <2>3, Zenon DEF InitPerl, At, Done
    <3>2. QED
      BY <2>1, <3>1 DEF Idle
  <2>4. QED
    BY <2>2, <2>3
<1>2. \/ UNCHANGED <<obj, failed>>
      \/ /\ failed' = [failed EXCEPT ![obj[op[t].r].pi] = @ + 1]
         /\ obj' = [obj EXCEPT ![op[t].r] = NoObj]
  BY Zenon DEF LoadInit, InitPerl
<1>3. CASE UNCHANGED <<obj, failed>>
  <2>1. obj' \in [Res -> Object(Interp \cup {NoOne})]
    BY <1>3 DEF HeapInv, Lodged
  <2>2. QED
    BY <1>1, <1>3, <2>1, HeapQuiet, Keepers
<1>4. CASE /\ failed' = [failed EXCEPT ![obj[op[t].r].pi] = @ + 1]
           /\ obj' = [obj EXCEPT ![op[t].r] = NoObj]
  BY <1>1, <1>4, Failed
<1>5. QED
  BY <1>2, <1>3, <1>4

\* LoadNative, LoadPerl and Create.
LEMMA Produced ==
  ASSUME Shape, Names, Single, HeapInv, NEW t \in Thread, Others(t),
         LoadNative(t) \/ LoadPerl(t) \/ Create(t)
  PROVE  HeapInv'
<1>1. op[t].pc = "load" /\ op \in [Thread -> Record] /\ op[t].ty \in Type
  BY DEF LoadNative, LoadPerl, Create, At, Shape, OpShape, Seeking
<1>2. CASE LoadNative(t)
  <2>1. Head(nativeFiles) \in Native \cup {NoOne}
    BY <1>2 DEF LoadNative, Shape
  <2>2. /\ UNCHANGED <<heap, count, position, failed, op>>
        /\ \/ UNCHANGED obj
           \/ Head(nativeFiles) # NoOne /\ New(NewName, Head(nativeFiles), NoOne)
    BY <1>2 DEF LoadNative, perlVars
  <2>3. CASE UNCHANGED obj
    <3>1. obj' \in [Res -> Object(Interp \cup {NoOne})]
      BY <2>3 DEF HeapInv, Lodged
    <3>2. QED
      BY <1>1, <2>2, <2>3, <3>1, HeapQuiet, Keepers
  <2>4. CASE Head(nativeFiles) # NoOne /\ New(NewName, Head(nativeFiles), NoOne)
    <3>1. PICK ty \in Native : ty = Head(nativeFiles)
      BY <2>1, <2>4
    <3>2. New(NewName, ty, NoOne) /\ op'[t].pc \notin {"delete", "loadinit", "init"}
      BY <1>1, <2>2, <2>4, <3>1
    <3>3. QED
      BY <1>1, <2>2, <3>2, NativeMade
  <2>5. QED
    BY <2>2, <2>3, <2>4
<1>3. CASE LoadPerl(t)
  <2>1. PICK ty \in PerlType \cup {NoOne} : ty = Head(perlFiles)
    BY <1>3 DEF LoadPerl, Shape
  <2>2. /\ AcquirePerl(Chosen) /\ New(NewName, ty, Chosen) /\ UNCHANGED failed
        /\ op'[t].pc = "loadinit" /\ op'[t].r = NewName
    BY <1>1, <1>3, <2>1 DEF LoadPerl, Record
  <2>3. QED
    BY <1>1, <2>2, PerlMade
<1>4. CASE Create(t) /\ op[t].ty \in Native
  <2>1. /\ New(NewName, op[t].ty, NoOne) /\ UNCHANGED <<heap, count, position, failed>>
        /\ op'[t].pc \notin {"delete", "loadinit", "init"}
    BY <1>1, <1>4 DEF Create, Done, Idle
  <2>2. QED
    BY <1>1, <1>4, <2>1, NativeMade
<1>5. CASE Create(t) /\ op[t].ty \notin Native
  <2>1. PICK ty \in PerlType \cup {NoOne} : ty = op[t].ty
    BY <1>1, <1>5 DEF Type
  <2>2. /\ AcquirePerl(Chosen) /\ New(NewName, ty, Chosen) /\ UNCHANGED failed
        /\ op'[t].pc = "init" /\ op'[t].r = NewName
    BY <1>1, <1>5, <2>1 DEF Create, Record
  <2>3. QED
    BY <1>1, <2>2, PerlMade
<1>6. QED
  BY <1>2, <1>3, <1>4, <1>5

LEMMA HeapInvNext ==
  ASSUME Shape, Names, Single, HeapInv, NEW t \in Thread, Act(t)
  PROVE  HeapInv'
<1>1. Shape' /\ Others(t)
  BY Effects DEF Effect
<1>2. QED
  BY <1>1, HeapRests, Initialised, Produced, Dropped, Deleted DEF Act, Step

LEMMA HeapInvInit == Init => HeapInv
<1>1. SUFFICES ASSUME Init PROVE HeapInv
  OBVIOUS
<1>2. /\ heap = <<>> /\ count = [i \in Interp |-> 0] /\ position = [i \in Interp |-> 0]
      /\ failed = [i \in Interp |-> 0] /\ obj = [r \in Res |-> NoObj]
      /\ op = [t \in Thread |-> Idle]
  BY <1>1 DEF Init
<1>3. Lent
  BY <1>2 DEF Lent, Tidy, Distinct, Placed, Heaped
<1>4. Lodged
  <2>1. obj \in [Res -> Object(Interp \cup {NoOne})] /\ failed \in [Interp -> Nat]
    BY <1>2 DEF Object, NoObj
  <2>2. QED
    BY <1>2, <2>1, PoolAssumption DEF Lodged, NoObj, Idle, Type
<1>5. CountExact
  <2>1. ASSUME NEW i \in Interp PROVE Tenants(i) = {}
    BY <1>2, PoolAssumption DEF Tenants, NoObj
  <2>2. QED
    BY <1>2, <2>1, FS_EmptySet DEF CountExact
<1>6. QED
  BY <1>3, <1>4, <1>5 DEF HeapInv

LEMMA HeapInvAlways == Spec => [](PoolInv /\ Holders /\ HeapInv)
<1>1. PoolInv /\ HeapInv /\ [Next]_vars => HeapInv'
  <2>1. ASSUME PoolInv, HeapInv, NEW t \in Thread, Act(t) PROVE HeapInv'
    BY <2>1, HeapInvNext DEF PoolInv
  <2>2. ASSUME HeapInv, UNCHANGED vars PROVE HeapInv'
    <3>1. UNCHANGED <<heap, count, position, failed, obj, op>>
      BY <2>2 DEF vars, perlVars
    <3>2. \A i \in Interp : Tenants(i)' = Tenants(i)
      BY <3>1 DEF Tenants, At
    <3>3. Lent' /\ Lodged'
      BY <2>2, <3>1 DEF HeapInv, Lent, Lodged, Tidy, Placed, Heaped, Has, Distinct
    <3>4. QED
      BY <2>2, <3>1, <3>2, <3>3 DEF HeapInv, CountExact
  <2>3. QED
    BY <2>1, <2>2 DEF Next, Act
<1>2. Spec => [](PoolInv /\ Holders)
  BY HoldersInv
<1>3. QED
  BY <1>1, <1>2, HeapInvInit, PTL DEF Spec

\* The heap of AcquirePerl and ReleasePerl, for any number of interpreters and
\* resources: it stays ordered, every interpreter knows its place in it, and its
\* count is the number of resources that live in it and of those that could not
\* be initialised.
THEOREM HeapKept == Spec => []HeapExact
<1>1. ASSUME PoolInv, Holders, HeapInv PROVE HeapExact
  <2>1. HeapOrdered
    <3>1. /\ heap \in Seq(Interp) /\ DOMAIN heap = 1..Len(heap)
          /\ Placed(heap, position) /\ Heaped(heap, count)
      BY <1>1 DEF HeapInv, Lent, Tidy
    <3>2. QED
      BY <3>1 DEF HeapOrdered, Placed, Heaped
  <2>2. op \in [Thread -> Record] /\ Steps = PCs
    BY <1>1 DEF PoolInv, Shape, OpShape, Steps, Seeking, Running, Keeping, PCs
  <2>3. TypeOK
    BY <1>1, <2>2 DEF PoolInv, Shape, Holders, HeapInv, Lent, Tidy, Lodged, Object, Record, TypeOK
  <2>4. QED
    BY <1>1, <2>1, <2>3 DEF HeapExact, HeapInv
<1>2. PoolInv /\ Holders /\ HeapInv => HeapExact
  BY <1>1
<1>3. QED
  BY <1>2, HeapInvAlways, PTL

\* A Perl resource is initialised or cleared with infoLock held, which waits for
\* the lock of its interpreter, and Perl code waits for infoLock with an
\* interpreter locked.  That is the only way in which threads of the registry
\* block one another: whenever all the threads in a call wait, two of them wait
\* for each other so.
THEOREM OnlyScriptsDeadlock == Spec => []DeadlockIsScript
<1>1. ASSUME PoolInv, Holders, HeapInv PROVE DeadlockIsScript
  <2> DEFINE Busy == {t \in Thread : ~At(t, "idle")}
  <2>1. SUFFICES ASSUME Busy # {}, \A t \in Busy : WaitsPerl(t) \/ WaitsInfo(t)
                 PROVE  \E t, u \in Busy :
                          /\ At(t, "attr") /\ infoLock = u
                          /\ op[u].pc \in {"loadinit", "clear"}
                          /\ perlLock[obj[op[u].r].pi] = t
    BY DEF DeadlockIsScript
  <2>2. /\ perlLock \in [Interp -> Thread \cup {NoOne}] /\ infoLock \in Thread \cup {NoOne}
        /\ \A p \in Interp : perlLock[p] # NoOne => op[perlLock[p]].pc \in Running
        /\ infoLock # NoOne => op[infoLock].pc \in {"load", "loadinit", "clear"}
    BY <1>1 DEF PoolInv, Shape, Holders
  \* Whoever waits for an interpreter waits for a script that waits for infoLock ...
  <2>3. ASSUME NEW u \in Thread, WaitsPerl(u)
        PROVE  \E t \in Busy : At(t, "attr") /\ infoLock # NoOne /\ perlLock[obj[op[u].r].pi] = t
    <3>1. /\ op[u].pc \in Keeping /\ obj[op[u].r].pi # NoOne
          /\ ~PerlFree(u, obj[op[u].r].pi)
      BY <2>3 DEF WaitsPerl, Keeping
    <3>2. PICK p \in Interp : p = obj[op[u].r].pi
      BY <1>1, <3>1, Kept DEF PoolInv, HeapInv, Lodged, Object
    <3>3. PICK t \in Thread : t = perlLock[p]
      BY <2>2, <3>1, <3>2 DEF PerlFree
    <3>4. op[t].pc \in Running
      BY <2>2, <3>3, PoolAssumption
    <3>5. t \in Busy /\ ~WaitsPerl(t)
      BY <3>4 DEF At, Running, WaitsPerl
    <3>6. WaitsInfo(t)
      BY <2>1, <3>5
    <3>7. QED
      BY <3>2, <3>3, <3>4, <3>5, <3>6 DEF WaitsInfo, Running, At
  \* ... and whoever waits for infoLock for a thread that waits for an interpreter.
  <2>4. infoLock # NoOne
    BY <2>1, <2>3 DEF WaitsInfo
  <2>5. PICK u \in Thread : u = infoLock
    BY <2>2, <2>4
  <2>6. op[u].pc \in {"load", "loadinit", "clear"} /\ u \in Busy
    BY <2>2, <2>4, <2>5 DEF At
  <2>7. WaitsPerl(u)
    BY <2>1, <2>6 DEF WaitsInfo
  <2>8. op[u].pc \in {"loadinit", "clear"}
    BY <2>6, <2>7 DEF WaitsPerl
  <2>9. QED
    BY <2>3, <2>5, <2>6, <2>7, <2>8
<1>2. PoolInv /\ Holders /\ HeapInv => DeadlockIsScript
  BY <1>1
<1>3. QED
  BY <1>2, HeapInvAlways, PTL

=============================================================================
