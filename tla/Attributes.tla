----------------------------- MODULE Attributes -----------------------------
(***************************************************************************)
(* The attributes of resources: the generic interface of                   *)
(* lib/processing_engine/Resource.h, the tables ResourceAttrInfoT (member  *)
(* functions of a compiled resource) and ResourceAttrInfoP (the accessors  *)
(* of PerlResource.cc, which get the name of the attribute as well), and   *)
(* the way an accessor of a Perl resource goes through an interpreter that *)
(* several resources share: lock, context, method, context, unlock.        *)
(*                                                                         *)
(* An attribute has a shape and a kind.  A table entry has a slot for each *)
(* operation; its constructor leaves all slots uninitialised and Init...   *)
(* fills those of the shape.                                               *)
(***************************************************************************)
EXTENDS Integers, Sequences, FiniteSets

CONSTANTS
  Thread,
  Compiled,     \* resources written in C++
  Perl,         \* resources written in Perl
  User,         \* User[r]: the thread that has resource r
  Interp,       \* Perl interpreters of resources
  PerlOf,       \* PerlOf[r]: the interpreter of a Perl resource
  NoContext,    \* the thread has no Perl context
  Home,         \* Home[t]: the Perl context t has outside of PerlResource.cc
  NoOne,
  Attr,         \* names of attributes
  Tables,       \* the tables considered: attributes of the type of each resource
  NoAttr,       \* a name that is in no table
  Shape, Kind,  \* of an attribute
  Position,     \* positions in an array
  Key,          \* keys of a hash
  Method,       \* Method[a]: the methods the Perl classes have for attribute a
  NARROW, WIDE, \* bits of int32_t, of int64_t
  MaxLeaks      \* bound: how many setters leave the lock behind

Kinds == {"int32", "uint32", "int64", "uint64", "double", "string", "ip"}
Shapes == {"scalar", "array", "hash"}
Res == Compiled \cup Perl

ASSUME AttributesAssumption ==
  /\ Compiled \cap Perl = {}
  /\ User \in [Res -> Thread]
  /\ PerlOf \in [Perl -> Interp]
  /\ NoContext \notin Interp
  /\ Home = [t \in Thread |-> Home[t]] /\ \A t \in Thread : Home[t] \notin Interp
  /\ NoOne \notin Thread /\ NoAttr \notin Attr
  /\ Tables \subseteq [Res -> SUBSET Attr]
  /\ Shape \in [Attr -> Shapes] /\ Kind \in [Attr -> Kinds]
  /\ Method \in [Attr -> SUBSET {"Get", "Set", "Count", "Clear"}]
  /\ NARROW \in Nat \ {0} /\ WIDE \in Nat \ {0} /\ NARROW <= WIDE
  /\ MaxLeaks \in Nat

\* Indexes: a scalar has one place.
NoIndex == "none"
Index(a) == CASE Shape[a] = "scalar" -> {NoIndex}
              [] Shape[a] = "array"  -> Position
              [] Shape[a] = "hash"   -> Key

\* A string is what comes before the first NUL and what comes after it.
Str(h, rest) == [h |-> h, rest |-> rest]
Cut(s) == Str(s.h, "")
Pow2[n \in 0..WIDE] == IF n = 0 THEN 1 ELSE 2 * Pow2[n - 1]
Unsigned(x, w) == x % Pow2[w]
Signed(x, w) == ((x + Pow2[w - 1]) % Pow2[w]) - Pow2[w - 1]

\* The values callers use: the ends of the integer types, a string with a NUL.
Values(k) ==
  CASE k = "int32"  -> {-Pow2[NARROW - 1]}
    [] k = "int64"  -> {-Pow2[WIDE - 1], Pow2[WIDE - 1] - 1}
    [] k = "uint32" -> {Pow2[NARROW] - 1}
    [] k = "uint64" -> {1, Pow2[WIDE] - 1}
    [] k = "double" -> {1}
    [] k = "string" -> {Str("a", "b")}
    [] k = "ip"     -> {"10.0.0.1"}

EmptyIp == "0.0.0.0"
Empty(k) == CASE k = "string" -> Str("", "") [] k = "ip" -> EmptyIp [] OTHER -> 0
Nothing == [x \in {} |-> 0]

VARIABLES
  table,     \* table[r]: the attributes of r
  store,     \* store[r][a]: index -> value (compiled) or Perl scalar
  last,      \* index -> what was set last through the interface
  lock,      \* lock[p]: owner and depth of the recursive lock of interpreter p
  ctx,       \* ctx[t]: the Perl context of the thread
  stack,     \* stack[t]: the calls t is in, the last one innermost
  leaked,    \* leaked[p]: setters that returned without unlocking p
  crashed

vars == <<table, store, last, lock, ctx, stack, leaked, crashed>>
perlVars == <<table, lock, ctx, leaked>>

Ops == {"get", "getArray", "getHash", "set", "setArray", "setHash", "clear",
        "delete", "count", "keys", "values"}
GetOf == [scalar |-> "get", array |-> "getArray", hash |-> "getHash"]
SetOf == [scalar |-> "set", array |-> "setArray", hash |-> "setHash"]

\* What a caller can ask: the accessors suit the shape and the kind that the
\* table gives, the operations without a kind take any attribute.
Calls(r) ==
  LET call(op, by, a, i, v) ==
        [op |-> op, by |-> by, r |-> r, a |-> a, i |-> i, v |-> v]
  IN UNION {
       UNION {{call(GetOf[Shape[a]], by, a, i, 0) : i \in Index(a)} \cup
              {call(SetOf[Shape[a]], by, a, i, v) :
                 i \in Index(a), v \in Values(Kind[a])} \cup
              {call(op, by, a, NoIndex, 0) : op \in {"clear", "count"}} \cup
              (IF Shape[a] = "hash"
                 THEN {call("keys", by, a, NoIndex, 0)} \cup
                      {call("delete", by, a, i, 0) : i \in Key}
                 ELSE {}) \cup
              (IF Shape[a] # "scalar" THEN {call("values", by, a, NoIndex, 0)}
                                      ELSE {})
                : a \in table[r], by \in {"ai", "name"}},
       {call(op, "name", NoAttr, NoIndex, 0) : op \in Ops}}

NoStore == [r \in Res |-> [a \in Attr |-> Nothing]]
Free == [p \in Interp |-> [owner |-> NoOne, depth |-> 0]]
Idle == [t \in Thread |-> <<>>]
NoLeaks == [p \in Interp |-> 0]

Init ==
  /\ table \in Tables
  /\ store = NoStore /\ last = NoStore
  /\ lock = Free /\ ctx = Home /\ stack = Idle /\ leaked = NoLeaks
  /\ crashed = FALSE

Top(t) == stack[t][Len(stack[t])]
At(t, phase) == stack[t] # <<>> /\ Top(t).at = phase
Pop(t) == SubSeq(stack[t], 1, Len(stack[t]) - 1)
SetTop(t, f) == stack' = [stack EXCEPT ![t] = Append(Pop(t), f)]
Frame(c, at, res) == [c |-> [c EXCEPT !.by = "ai"], at |-> at, old |-> NoContext,
                      res |-> res, nested |-> FALSE]
Push(t, f) ==
  stack' = [stack EXCEPT ![t] =
              Append(IF @ = <<>> THEN @ ELSE [@ EXCEPT ![Len(@)].nested = TRUE], f)]

\* The process ends, and its memory with it.
Crash ==
  /\ crashed' = TRUE /\ UNCHANGED table
  /\ store' = NoStore /\ last' = NoStore
  /\ lock' = Free /\ ctx' = Home /\ stack' = Idle /\ leaked' = NoLeaks
\* The call is over but for the return: res is its result.
Answer(t, c, res) ==
  /\ Push(t, Frame(c, "answer", res))
  /\ UNCHANGED <<store, last, perlVars, crashed>>

\* A call without a result.
Void == UNCHANGED <<perlVars, stack, crashed>>

Put(f, i, v) == [j \in DOMAIN f \cup {i} |-> IF j = i THEN v ELSE f[j]]
Drop(f, I) == [i \in DOMAIN f \ I |-> f[i]]

-----------------------------------------------------------------------------
(***************************************************************************)
(* ResourceAttrInfoT: the slots, and the member functions of a compiled    *)
(* resource they hold.  A slot that Init did not fill holds garbage or, by *)
(* luck, NULL.                                                             *)
(***************************************************************************)

InitScalar == {"get", "set"}
InitArray == {"get", "set", "clear", "count"}
InitHash == {"get", "set", "clear", "delete", "count", "keys", "values"}
Slots(a) == CASE Shape[a] = "scalar" -> InitScalar
              [] Shape[a] = "array"  -> InitArray
              [] Shape[a] = "hash"   -> InitHash

\* A call through a slot that was not filled; dflt is the result for NULL.
Unfilled(t, c, dflt) ==
  Crash \/ Answer(t, c, dflt)
\* ... of an operation without a result.
UnfilledVoid == Crash

\* The value at index i, if there is one.
Value(f, i, k) == IF i \in DOMAIN f THEN f[i] ELSE Empty(k)

Get(t, c) ==
  c.op = "get" /\ Answer(t, c, Value(store[c.r][c.a], NoIndex, Kind[c.a]))
GetArray(t, c) ==
  c.op = "getArray" /\ Answer(t, c, Value(store[c.r][c.a], c.i, Kind[c.a]))
GetHash(t, c) ==
  c.op = "getHash" /\ Answer(t, c, Value(store[c.r][c.a], c.i, Kind[c.a]))

Store(c) ==
  /\ store' = [store EXCEPT ![c.r][c.a] = Put(@, c.i, c.v)]
  /\ last' = [last EXCEPT ![c.r][c.a] = Put(@, c.i, c.v)]
  /\ Void
Set(t, c) == c.op = "set" /\ Store(c)
SetArray(t, c) == c.op = "setArray" /\ Store(c)
SetHash(t, c) == c.op = "setHash" /\ Store(c)

Remove(c, I) ==
  /\ store' = [store EXCEPT ![c.r][c.a] = Drop(@, I)]
  /\ last' = [last EXCEPT ![c.r][c.a] = Drop(@, I)]
  /\ Void
Clear(t, c) ==
  /\ c.op = "clear"
  /\ IF "clear" \in Slots(c.a) THEN Remove(c, Index(c.a)) ELSE UnfilledVoid
DeleteHashItem(t, c) == c.op = "delete" /\ Remove(c, {c.i})

GetCount(t, c) ==
  /\ c.op = "count"
  /\ IF "count" \in Slots(c.a)
       THEN Answer(t, c, Cardinality(DOMAIN store[c.r][c.a]))
       ELSE Unfilled(t, c, 0)
GetKeys(t, c) == c.op = "keys" /\ Answer(t, c, DOMAIN store[c.r][c.a])
\* The assertion admits arrays, whose slot is never filled.
GetValues(t, c) ==
  /\ c.op = "values"
  /\ IF "values" \in Slots(c.a)
       THEN Answer(t, c, {store[c.r][c.a][i] : i \in DOMAIN store[c.r][c.a]})
       ELSE Unfilled(t, c, {})

CompiledCall(t, c) ==
  \/ Get(t, c) \/ GetArray(t, c) \/ GetHash(t, c)
  \/ Set(t, c) \/ SetArray(t, c) \/ SetHash(t, c)
  \/ Clear(t, c) \/ DeleteHashItem(t, c)
  \/ GetCount(t, c) \/ GetKeys(t, c) \/ GetValues(t, c)

-----------------------------------------------------------------------------
(***************************************************************************)
(* ResourceAttrInfoP: the same slots, filled with the accessors of         *)
(* PerlResource, all of which but Clear and DeleteItem lock the            *)
(* interpreter first.                                                      *)
(***************************************************************************)

PerlSlots(a) == CASE Shape[a] = "scalar" -> {"get", "set"}
                  [] Shape[a] = "array"  -> {"get", "set", "clear", "count"}
                  [] Shape[a] = "hash"   -> {"get", "set", "clear", "delete",
                                             "count", "keys", "values"}

Enter(t, c) ==
  /\ Push(t, Frame(c, "wait", 0))
  /\ UNCHANGED <<store, last, perlVars, crashed>>

\* Without a lock and in the context the thread happens to have.
EnterUnlocked(t, c) ==
  IF ctx[t] = NoContext
    THEN Crash
    ELSE /\ Push(t, Frame(c, "run", 0))
         /\ UNCHANGED <<store, last, perlVars, crashed>>

GetP(t, c) == c.op = "get" /\ Enter(t, c)
GetArrayP(t, c) == c.op = "getArray" /\ Enter(t, c)
GetHashP(t, c) == c.op = "getHash" /\ Enter(t, c)
SetP(t, c) == c.op = "set" /\ Enter(t, c)
SetArrayP(t, c) == c.op = "setArray" /\ Enter(t, c)
SetHashP(t, c) == c.op = "setHash" /\ Enter(t, c)
ClearP(t, c) ==
  /\ c.op \in {"clear", "delete"}
  /\ IF c.op \in PerlSlots(c.a) THEN EnterUnlocked(t, c) ELSE UnfilledVoid
CountP(t, c) ==
  /\ c.op \in {"count", "keys"}
  /\ IF c.op \in PerlSlots(c.a) THEN Enter(t, c) ELSE Unfilled(t, c, 0)
ValuesP(t, c) ==
  /\ c.op = "values"
  /\ IF "values" \in PerlSlots(c.a) THEN Enter(t, c) ELSE Unfilled(t, c, {})

PerlCall(t, c) ==
  \/ GetP(t, c) \/ GetArrayP(t, c) \/ GetHashP(t, c)
  \/ SetP(t, c) \/ SetArrayP(t, c) \/ SetHashP(t, c)
  \/ ClearP(t, c) \/ CountP(t, c) \/ ValuesP(t, c)

-----------------------------------------------------------------------------
(***************************************************************************)
(* Resource.h: an attribute is named by its table entry or by its name,    *)
(* which the registry looks up.  Getters use the entry without a test,     *)
(* operations without a result do nothing for a name that is not there.    *)
(***************************************************************************)

\* ResourceRegistry::GetAttrInfo finds an entry.
GetAttrInfo(c) == c.a # NoAttr
Via(t, c) == IF c.r \in Perl THEN PerlCall(t, c) ELSE CompiledCall(t, c)

GetAttr(t, c) ==
  /\ c.op = "get"
  /\ IF GetAttrInfo(c) THEN Via(t, c)
     \* only GetAttrString tests the entry
     ELSE Crash \/ Answer(t, c, Str("", ""))
GetAttrArray(t, c) ==
  c.op = "getArray" /\ IF GetAttrInfo(c) THEN Via(t, c) ELSE Crash
GetAttrHash(t, c) ==
  c.op = "getHash" /\ IF GetAttrInfo(c) THEN Via(t, c) ELSE Crash
SetAttr(t, c) ==
  c.op = "set" /\ GetAttrInfo(c) /\ Via(t, c)
SetAttrArray(t, c) ==
  c.op = "setArray" /\ GetAttrInfo(c) /\ Via(t, c)
SetAttrHash(t, c) ==
  c.op = "setHash" /\ GetAttrInfo(c) /\ Via(t, c)
ClearAttr(t, c) ==
  c.op = "clear" /\ GetAttrInfo(c) /\ Via(t, c)
\* Called by name, the name of the attribute is passed on as the key.
DeleteAttrHashItem(t, c) ==
  /\ c.op = "delete"
  /\ GetAttrInfo(c)
  /\ Via(t, IF c.by = "ai" THEN c ELSE [c EXCEPT !.i = c.a])
GetAttrCount(t, c) ==
  c.op = "count" /\ IF GetAttrInfo(c) THEN Via(t, c) ELSE Answer(t, c, -1)
GetAttrKeys(t, c) ==
  c.op = "keys" /\ IF GetAttrInfo(c) THEN Via(t, c) ELSE Answer(t, c, "NULL")
GetAttrValues(t, c) ==
  c.op = "values" /\ IF GetAttrInfo(c) THEN Via(t, c) ELSE Answer(t, c, "NULL")

\* The methods of a Perl class may use the interface themselves, through
\* Hector.pm: here to read or clear an attribute of its own resource.
MayNest(t, c) ==
  /\ At(t, "run") /\ Len(stack[t]) = 1 /\ ~Top(t).nested
  /\ c.r = Top(t).c.r /\ c.op \in {"get", "getArray", "getHash", "clear"}

\* A thread uses the resources it has.
Call(t, c) ==
  /\ stack[t] = <<>> \/ MayNest(t, c)
  /\ \/ GetAttr(t, c) \/ GetAttrArray(t, c) \/ GetAttrHash(t, c)
     \/ SetAttr(t, c) \/ SetAttrArray(t, c) \/ SetAttrHash(t, c)
     \/ ClearAttr(t, c) \/ DeleteAttrHashItem(t, c)
     \/ GetAttrCount(t, c) \/ GetAttrKeys(t, c) \/ GetAttrValues(t, c)

Return(t) ==
  /\ ~crashed /\ At(t, "answer")
  /\ stack' = [stack EXCEPT ![t] = Pop(t)]
  /\ UNCHANGED <<store, last, perlVars, crashed>>

-----------------------------------------------------------------------------
(***************************************************************************)
(* PerlResource.cc.  A Perl scalar knows what it holds: an integer (IOK),  *)
(* a double (NOK), a string (POK) or a reference (ROK).                    *)
(***************************************************************************)

Sv(ok, v) == [ok |-> ok, v |-> v]
Undef == Sv("undef", 0)
NULL == Sv("NULL", 0)

Interpreter(t) == PerlOf[Top(t).c.r]

\* Mutation: the interpreter is used without waiting for its lock.
PerlLockNot(t) ==
  LET p == Interpreter(t) IN
  /\ ~crashed /\ At(t, "wait")
  /\ lock' = [lock EXCEPT ![p] = [owner |-> t, depth |-> @.depth + 1]]
  /\ ctx' = [ctx EXCEPT ![t] = p]
  /\ SetTop(t, [Top(t) EXCEPT !.at = "run", !.old = ctx[t]])
  /\ UNCHANGED <<table, store, last, leaked, crashed>>
\* Mutation: the lock is not recursive.
PerlLockOnce(t) ==
  LET p == Interpreter(t) IN
  /\ ~crashed /\ At(t, "wait") /\ lock[p].owner = NoOne
  /\ lock' = [lock EXCEPT ![p] = [owner |-> t, depth |-> 1]]
  /\ ctx' = [ctx EXCEPT ![t] = p]
  /\ SetTop(t, [Top(t) EXCEPT !.at = "run", !.old = ctx[t]])
  /\ UNCHANGED <<table, store, last, leaked, crashed>>
\* perl->Lock(), GetContext, SetContext at the start of an accessor.
PerlLock(t) ==
  LET p == Interpreter(t) IN
  /\ ~crashed /\ At(t, "wait")
  /\ lock[p].owner \in {NoOne, t}
  /\ lock' = [lock EXCEPT ![p] = [owner |-> t, depth |-> @.depth + 1]]
  /\ ctx' = [ctx EXCEPT ![t] = p]
  /\ SetTop(t, [Top(t) EXCEPT !.at = "run", !.old = ctx[t]])
  /\ UNCHANGED <<table, store, last, leaked, crashed>>

\* The call is left, with result res if it has one.
Leave(t, res) ==
  IF Top(t).c.op \in {"get", "getArray", "getHash", "count"}
    THEN SetTop(t, [Top(t) EXCEPT !.at = "answer", !.res = res])
    ELSE stack' = [stack EXCEPT ![t] = Pop(t)]

\* Mutation: the lock is given back twice.
PerlUnlockTwice(t, res) ==
  /\ lock' = [lock EXCEPT ![Interpreter(t)] =
                [owner |-> NoOne, depth |-> @.depth - 2]]
  /\ ctx' = [ctx EXCEPT ![t] = Top(t).old]
  /\ Leave(t, res)
  /\ UNCHANGED <<table, leaked, crashed>>
\* Mutation: the old context is not restored.
PerlUnlockOnly(t, res) ==
  LET p == Interpreter(t)
      d == lock[p].depth - 1
  IN
  /\ lock' = [lock EXCEPT ![p] = [owner |-> IF d = 0 THEN NoOne ELSE t,
                                  depth |-> d]]
  /\ Leave(t, res)
  /\ UNCHANGED <<table, ctx, leaked, crashed>>
\* SetContext(old) and perl->Unlock() at its end.
PerlUnlock(t, res) ==
  LET p == Interpreter(t)
      d == lock[p].depth - 1
  IN
  /\ lock' = [lock EXCEPT ![p] = [owner |-> IF d = 0 THEN NoOne ELSE t,
                                  depth |-> d]]
  /\ ctx' = [ctx EXCEPT ![t] = Top(t).old]
  /\ Leave(t, res)
  /\ UNCHANGED <<table, leaked, crashed>>

Scalar(f, i) == IF i \in DOMAIN f THEN f[i] ELSE Undef

\* call_method: the scalar that the method returns, NULL if there is none.
GetValue(c, prefix) ==
  IF prefix \notin Method[c.a] THEN NULL
  ELSE IF prefix = "Count" THEN Sv("IOK", Cardinality(DOMAIN store[c.r][c.a]))
  ELSE Scalar(store[c.r][c.a], NoIndex)
GetArrayValue(c) ==
  IF "Get" \notin Method[c.a] THEN NULL ELSE Scalar(store[c.r][c.a], c.i)
GetHashValue(c) ==
  IF "Get" \notin Method[c.a] THEN NULL ELSE Scalar(store[c.r][c.a], c.i)

\* The method Set_name gets the scalar; an error is logged.
SetScalar(c, sv) ==
  IF "Set" \in Method[c.a]
    THEN /\ store' = [store EXCEPT ![c.r][c.a] = Put(@, c.i, sv)]
         /\ last' = [last EXCEPT ![c.r][c.a] = Put(@, c.i, c.v)]
    ELSE UNCHANGED <<store, last>>
SetValue(c, sv) == c.op = "set" /\ SetScalar(c, sv)
SetArrayValue(c, sv) == c.op = "setArray" /\ SetScalar(c, sv)
SetHashValue(c, sv) == c.op = "setHash" /\ SetScalar(c, sv)

\* Mutation: an unsigned integer is read as if it were narrow.
FromLongNarrow(k, x) == IF k \in {"int32", "int64"} THEN Signed(x, NARROW)
                                                    ELSE Unsigned(x, NARROW)
\* All integers travel as long.
FromLong(k, x) == CASE k = "int32"  -> Signed(x, NARROW)
                    [] k = "int64"  -> Signed(x, WIDE)
                    [] k = "uint32" -> Unsigned(x, NARROW)
                    [] k = "uint64" -> Unsigned(x, WIDE)
ToLong(v) == Signed(v, WIDE)

\* What a getter makes of a scalar of the wrong type is the empty value; an
\* IpAddr comes as a reference, never as an integer.
FromSv(k, sv) ==
  CASE k = "string" -> IF sv.ok = "POK" THEN Cut(sv.v) ELSE Empty(k)
    [] k = "ip"     -> IF sv.ok = "IOK" THEN sv.v ELSE Empty(k)
    [] k = "double" -> IF sv.ok = "NOK" THEN sv.v ELSE Empty(k)
    [] OTHER        -> IF sv.ok = "IOK" THEN FromLong(k, sv.v) ELSE Empty(k)

\* Mutation: a scalar of the wrong type ends the getter before the unlock.
FetchEarly(t, sv, res) ==
  IF sv.ok = "NULL" THEN Crash
  ELSE IF sv.ok = "undef"
    THEN Leave(t, res) /\ UNCHANGED <<store, last, perlVars, crashed>>
    ELSE PerlUnlock(t, res) /\ UNCHANGED <<store, last>>
\* The scalar a setter makes.
ToSv(k, v) == CASE k = "string" -> Sv("POK", v)
                [] k = "double" -> Sv("NOK", v)
                [] OTHER        -> Sv("IOK", ToLong(v))

\* SvIOK(NULL) and the like are the end of the process.
Fetch(t, sv, res) ==
  IF sv.ok = "NULL"
    THEN Crash
    ELSE PerlUnlock(t, res) /\ UNCHANGED <<store, last>>

Running(t, op) == ~crashed /\ At(t, "run") /\ Top(t).c.op = op

PerlGet(t) ==
  LET c == Top(t).c IN
  Running(t, "get") /\ LET sv == GetValue(c, "Get")
                       IN Fetch(t, sv, FromSv(Kind[c.a], sv))
PerlGetArray(t) ==
  LET c == Top(t).c IN
  Running(t, "getArray") /\ LET sv == GetArrayValue(c)
                            IN Fetch(t, sv, FromSv(Kind[c.a], sv))
PerlGetHash(t) ==
  LET c == Top(t).c IN
  Running(t, "getHash") /\ LET sv == GetHashValue(c)
                           IN Fetch(t, sv, FromSv(Kind[c.a], sv))
PerlCount(t) ==
  LET c == Top(t).c IN
  Running(t, "count") /\ LET sv == GetValue(c, "Count") IN Fetch(t, sv, sv.v)
\* The names of these methods contain "%s": no class has them.
PerlKeys(t) == Running(t, "keys") /\ Fetch(t, GetValue(Top(t).c, "GetKeys%s"), 0)
PerlValues(t) ==
  Running(t, "values") /\ Fetch(t, GetValue(Top(t).c, "GetValues%s"), 0)

\* An IpAddr is wrapped by SWIG; when SWIG does not know the type, the setter
\* returns with the interpreter locked and its context in place.
PerlSetIpAddr(t) ==
  LET p == Interpreter(t) IN
  /\ ~crashed /\ At(t, "run")
  /\ Top(t).c.op \in {"set", "setArray", "setHash"} /\ Kind[Top(t).c.a] = "ip"
  /\ \/ SetScalar(Top(t).c, Sv("ROK", Top(t).c.v)) /\ PerlUnlock(t, 0)
     \/ /\ leaked[p] < MaxLeaks
        /\ leaked' = [leaked EXCEPT ![p] = @ + 1]
        /\ Leave(t, 0)
        /\ UNCHANGED <<table, store, last, lock, ctx, crashed>>

\* SetString passes a C string, so the scalar ends at the first NUL.
PerlSet(t) ==
  LET c == Top(t).c IN
  /\ Running(t, "set") /\ Kind[c.a] # "ip"
  /\ SetValue(c, ToSv(Kind[c.a],
                      IF Kind[c.a] = "string" THEN Cut(c.v) ELSE c.v))
  /\ PerlUnlock(t, 0)
PerlSetArray(t) ==
  LET c == Top(t).c IN
  /\ Running(t, "setArray") /\ Kind[c.a] # "ip"
  /\ SetArrayValue(c, ToSv(Kind[c.a], c.v))
  /\ PerlUnlock(t, 0)
PerlSetHash(t) ==
  LET c == Top(t).c IN
  /\ Running(t, "setHash") /\ Kind[c.a] # "ip"
  /\ SetHashValue(c, ToSv(Kind[c.a], c.v))
  /\ PerlUnlock(t, 0)

\* Clear runs its method in the context of the thread: in a foreign
\* interpreter anything can happen to it.
PerlClear(t) ==
  LET c == Top(t).c IN
  /\ Running(t, "clear")
  /\ \/ ctx[t] # PerlOf[c.r] /\ Crash
     \/ /\ IF "Clear" \in Method[c.a]
             THEN /\ store' = [store EXCEPT ![c.r][c.a] = Nothing]
                  /\ last' = [last EXCEPT ![c.r][c.a] = Nothing]
             ELSE UNCHANGED <<store, last>>
        /\ Leave(t, 0)
        /\ UNCHANGED <<perlVars, crashed>>
\* DeleteItem passes the key where the object belongs: the call fails.
PerlDeleteItem(t) ==
  /\ Running(t, "delete")
  /\ \/ ctx[t] # PerlOf[Top(t).c.r] /\ Crash
     \/ /\ Leave(t, 0)
        /\ UNCHANGED <<store, last, perlVars, crashed>>

-----------------------------------------------------------------------------

MethodStep(t) ==
  \/ PerlGet(t) \/ PerlGetArray(t) \/ PerlGetHash(t)
  \/ PerlSet(t) \/ PerlSetArray(t) \/ PerlSetHash(t) \/ PerlSetIpAddr(t)
  \/ PerlClear(t) \/ PerlDeleteItem(t)
  \/ PerlCount(t) \/ PerlKeys(t) \/ PerlValues(t)

\* What a thread does by itself once it is in a call.
Step(t) == MethodStep(t) \/ PerlLock(t) \/ Return(t)

Next ==
  \E t \in Thread :
    \/ /\ ~crashed /\ (stack[t] = <<>> \/ At(t, "run"))
       /\ \E r \in {x \in Res : User[x] = t} : \E c \in Calls(r) : Call(t, c)
    \/ Step(t)

Spec == Init /\ [][Next]_vars

(***************************************************************************)
(* Fairness: a thread inside a call goes on, also when the lock is free    *)
(* only now and then.                                                      *)
(***************************************************************************)
FairSpec == Spec /\ \A t \in Thread : SF_vars(Step(t))

-----------------------------------------------------------------------------
(***************************************************************************)
(* Properties.                                                             *)
(***************************************************************************)

TypeOK ==
  /\ lock \in [Interp -> [owner : Thread \cup {NoOne}, depth : Nat]]
  /\ \A t \in Thread : ctx[t] \in Interp \cup {Home[t]}
  /\ leaked \in [Interp -> 0..MaxLeaks]
  /\ crashed \in BOOLEAN
  /\ \A r \in Res, a \in Attr : DOMAIN store[r][a] \subseteq Index(a)
  /\ \A r \in Compiled, a \in Attr : \A i \in DOMAIN store[r][a] :
       store[r][a][i] \in Values(Kind[a])

\* What a getter has to return after the calls so far.  A Perl resource cuts
\* strings at a NUL and does not give an IpAddr back.
Expected(c) ==
  LET k == Kind[c.a]
      v == last[c.r][c.a][c.i]
  IN IF c.i \notin DOMAIN last[c.r][c.a]         THEN Empty(k)
     ELSE IF c.r \in Perl /\ k = "string"        THEN Cut(v)
     ELSE IF c.r \in Perl /\ k = "ip"            THEN EmptyIp
     ELSE v

\* A getter returns what was set last for this resource, attribute and index,
\* whatever the width and sign of the integer, through all the slots, the
\* conversion to long and the Perl scalar, and nested calls in between.
ReadYourWrites ==
  \A t \in Thread :
    At(t, "answer") /\ Top(t).c.a # NoAttr
      /\ Top(t).c.op \in {"get", "getArray", "getHash"}
      => Top(t).res = Expected(Top(t).c)

\* Thread t runs Perl code of interpreter p.
Inside(t, p) == \E k \in 1..Len(stack[t]) :
                  /\ stack[t][k].at = "run"
                  /\ PerlOf[stack[t][k].c.r] = p
\* ... and took no lock to do so.
Sneaked(t) == \E k \in 1..Len(stack[t]) :
                stack[t][k].at = "run" /\ stack[t][k].c.op \in {"clear", "delete"}

\* PerlResource.cc:2, "Only one thread can use Perl interpreter at the time":
\* two threads are in one interpreter only if one of them is in Clear or
\* DeleteItem of an attribute, which take no lock.
OneThreadInPerl ==
  \A t, u \in Thread, p \in Interp :
    t # u /\ Inside(t, p) /\ Inside(u, p) => Sneaked(t) \/ Sneaked(u)

LockedFrames(t, p) ==
  Cardinality({k \in 1..Len(stack[t]) :
    /\ stack[t][k].at = "run"
    /\ stack[t][k].c.op \notin {"clear", "delete"}
    /\ PerlOf[stack[t][k].c.r] = p})

\* The recursive lock is as deep as its owner has calls in progress, plus one
\* for each setter of an IpAddr that failed: every other path of an accessor
\* unlocks what it locked.
LockDepthExact ==
  \A p \in Interp :
    /\ lock[p].depth = leaked[p] + IF lock[p].owner = NoOne THEN 0
                                   ELSE LockedFrames(lock[p].owner, p)
    /\ lock[p].owner = NoOne <=> lock[p].depth = 0

\* A thread that is in no call has the Perl context it came with, unless a
\* setter of an IpAddr failed.
ContextRestored ==
  (\A p \in Interp : leaked[p] = 0) =>
     \A t \in Thread : stack[t] = <<>> => ctx[t] = Home[t]

\* Every call returns, or the process ends, or a failed setter of an IpAddr
\* has left the interpreter locked.
CallsReturn ==
  \A t \in Thread : stack[t] # <<>> ~>
    stack[t] = <<>> \/ crashed \/ \E p \in Interp : leaked[p] > 0

\* The accessors of PerlResource: one thread in an interpreter, and lock and
\* context as they were before on every way out.
InterpreterGuarded == TypeOK /\ OneThreadInPerl /\ LockDepthExact /\ ContextRestored

=============================================================================
