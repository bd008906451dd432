------------------------------- MODULE Channel -------------------------------
(***************************************************************************)
(* What lib/SyncQueue.h promises to its callers, without locks, waiting,   *)
(* timeouts or pauses: a priority channel that owns the items it accepted. *)
(* An item has one owner at any time.  A closed channel accepts and        *)
(* delivers nothing, its items are discarded all at once, and it opens     *)
(* again empty.                                                            *)
(***************************************************************************)
EXTENDS Integers, Sequences

CONSTANTS Writers, Readers, Item, NoItem, Prio, MaxItems

VARIABLES
  content,   \* content[p]: the items of priority p, oldest first
  owned,     \* owned[t]: the item thread t owns
  open

cvars == <<content, owned, open>>

Nothing == [p \in Prio |-> <<>>]

Owned(i) ==
  \/ \E t \in Writers \cup Readers : owned[t] = i
  \/ \E p \in Prio : \E k \in 1..Len(content[p]) : content[p][k] = i

CInit ==
  /\ content = Nothing
  /\ owned = [t \in Writers \cup Readers |-> NoItem]
  /\ open = TRUE

\* A writer gets hold of a new item.
Make(w, i) ==
  /\ owned[w] = NoItem /\ ~Owned(i)
  /\ owned' = [owned EXCEPT ![w] = i]
  /\ UNCHANGED <<content, open>>

Accept(w, p) ==
  /\ open
  /\ owned[w] # NoItem
  /\ MaxItems[p] = 0 \/ Len(content[p]) < MaxItems[p]
  /\ content' = [content EXCEPT ![p] = Append(@, owned[w])]
  /\ owned' = [owned EXCEPT ![w] = NoItem]
  /\ UNCHANGED open

Deliver(r, p) ==
  /\ open
  /\ owned[r] = NoItem
  /\ content[p] # <<>>
  /\ \A q \in Prio : content[q] # <<>> => q <= p
  /\ owned' = [owned EXCEPT ![r] = Head(content[p])]
  /\ content' = [content EXCEPT ![p] = Tail(@)]
  /\ UNCHANGED open

Finish(t) ==
  /\ owned' = [owned EXCEPT ![t] = NoItem]
  /\ UNCHANGED <<content, open>>

Close ==
  /\ open' = FALSE
  /\ content' \in {content, Nothing}
  /\ UNCHANGED owned

Open ==
  /\ ~open
  /\ content = Nothing
  /\ open' = TRUE
  /\ UNCHANGED <<content, owned>>

CNext ==
  \/ \E w \in Writers, i \in Item : Make(w, i)
  \/ \E w \in Writers, p \in Prio : Accept(w, p)
  \/ \E r \in Readers, p \in Prio : Deliver(r, p)
  \/ \E t \in Writers \cup Readers : Finish(t)
  \/ Close
  \/ Open

CSpec == CInit /\ [][CNext]_cvars

=============================================================================
