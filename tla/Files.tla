-------------------------------- MODULE Files --------------------------------
(***************************************************************************)
(* Resources in files: module Save writes them, module Load reads them,    *)
(* in another process or after a restart, with checkpoints                 *)
(* (module/Save.cc, module/Load.cc, Resource.cc and the binary and text    *)
(* streams).                                                               *)
(*                                                                         *)
(* A file is a sequence of records.  A record is a header, which may hold  *)
(* the type and with it the id, and the contents; it takes so many units   *)
(* (bytes; lines of a text file).  A binary stream fetches blocks of the   *)
(* file ahead of what is read, and its ByteCount is what it has fetched.   *)
(* The status of a resource goes with its id.                              *)
(*                                                                         *)
(* Load runs in a reader thread under its object lock, which it gives up   *)
(* only to sleep; another thread stops and starts it and saves and         *)
(* restores checkpoints.  Property skipItems is not registered, so that    *)
(* the loop that skips items never runs.  The descriptor of Load is a      *)
(* local variable of ReopenFile, so that the member fd stays -1 and a new  *)
(* filename never reopens the file.                                        *)
(***************************************************************************)
EXTENDS Integers, Sequences, FiniteSets

CONSTANTS
  Scenes,       \* configurations of Save and Load, one is chosen at the start
  Block,        \* the size of a block of a binary stream
  MaxRestarts,  \* bound: how often the reading process starts again
  MaxStops      \* bound: how often Load is stopped

\* Without the file there is no stream.
NoFile == -1

\* What Save is given, and the properties of the two modules.
Resource == [n : Nat, type : 1..127, id : Nat, size : Nat \ {0}]
SaveConfig ==
  [mode : {"OUTPUT", "MULTI"}, maxItems : Nat, maxSize : Nat, text : BOOLEAN,
   overwrite : BOOLEAN, saveType : BOOLEAN, saveId : BOOLEAN, filter : SUBSET (1..127),
   faults : SUBSET {"open"}]
LoadConfig ==
  [name : Nat \cup {NoFile}, text : BOOLEAN, wait : BOOLEAN, mark : BOOLEAN,
   maxItems : Nat, resourceType : 0..127]

(***************************************************************************)
(* A scene: the input of Save and its properties (save), the properties of *)
(* Load (load).  Load and Save agree on whether types are stored.          *)
(***************************************************************************)
ASSUME FilesAssumption ==
  /\ Block \in Nat \ {0} /\ MaxRestarts \in Nat /\ MaxStops \in Nat
  /\ \A s \in Scenes :
       /\ s.input \in Seq(Resource) /\ s.save \in SaveConfig /\ s.load \in LoadConfig
       /\ s.save.saveId => s.save.saveType
       /\ s.load.text = s.save.text
       /\ s.load.name <= Len(s.input) + 1
       /\ s.load.resourceType = 0 <=> s.save.saveType
       /\ \A j \in 1..Len(s.input) :
            ~s.save.saveType => s.input[j].type = s.load.resourceType

VARIABLES
  scene,
  file,         \* file[n]: the records of file number n, 0 without a number
  in,           \* what Save has still to write
  saved,        \* what it has written
  out,          \* Save: open, broken (a deleted stream is still used) or closed
  fileId, savedItems, savedSize, items,
  loading,      \* Load: where the reader is
  pos,          \* what it has read of the file
  byteCount,
  read,         \* the resources it delivered, in this process
  from,         \* where the stream started in this process
  markEmmited,
  running,      \* the processor runs
  cancel,
  ctl,          \* the thread that controls Load
  missed,       \* a signal came when the reader was not asleep yet
  check,        \* the checkpoint, and where the reader really was
  restarts, stops

saveVars == <<file, in, saved, out, fileId, savedItems, savedSize, items>>
loadVars == <<pos, byteCount, read, from, markEmmited>>
ctlVars == <<running, cancel, ctl, missed, check, restarts, stops>>
vars == <<scene, file, in, saved, out, fileId, savedItems, savedSize, items,
          loading, pos, byteCount, read, from, markEmmited, running, cancel, ctl,
          missed, check, restarts, stops>>

Save == scene.save
Load == scene.load
FileNo == 0..(Len(scene.input) + 1)
NoCheck == [offset |-> -1, at |-> 0]
Mark == [type |-> 0, id |-> 0, n |-> 0]
Junk == [type |-> -1, id |-> 0, n |-> 0]

TypeOK ==
  /\ scene \in Scenes
  /\ DOMAIN file = FileNo
  /\ out \in {"new", "open", "broken", "closed", "crash"}
  /\ fileId \in Nat /\ savedItems \in 0..Len(scene.input)
  /\ savedSize \in Nat /\ items \in 0..Len(scene.input)
  /\ loading \in {"off", "loop", "call", "gap", "asleep", "woken", "done", "crash"}
  /\ pos \in Nat /\ from \in Nat /\ byteCount \in Nat
  /\ markEmmited \in BOOLEAN /\ running \in BOOLEAN /\ cancel \in BOOLEAN /\ missed \in BOOLEAN
  /\ ctl \in {"idle", "cancel", "signal", "join"}
  /\ restarts \in 0..MaxRestarts /\ stops \in 0..MaxStops

Init ==
  /\ scene \in Scenes
  /\ file = [n \in FileNo |-> <<>>]
  /\ in = scene.input /\ saved = <<>>
  /\ out = "new"
  /\ fileId = 1 /\ savedItems = 0 /\ savedSize = 0 /\ items = 0
  /\ loading = "off"
  /\ pos = 0 /\ byteCount = 0 /\ read = <<>> /\ from = 0
  /\ markEmmited = FALSE /\ running = TRUE /\ cancel = FALSE
  /\ ctl = "idle" /\ missed = FALSE /\ check = NoCheck
  /\ restarts = 0 /\ stops = 0

-----------------------------------------------------------------------------
(***************************************************************************)
(* SerializeResource and DeserializeResource.                              *)
(***************************************************************************)

\* Mutation: the flag is not part of the type.
WriteHeaderNoFlag(r) ==
  IF ~Save.saveType THEN <<>>
  ELSE IF Save.saveId THEN <<r.type, r.id>> ELSE <<r.type>>
\* The type, with bit 7 set when the id follows.
WriteHeader(r) ==
  IF ~Save.saveType THEN <<>>
  ELSE IF Save.saveId THEN <<r.type + 128, r.id>> ELSE <<r.type>>

Serialize(r) == [head |-> WriteHeader(r), size |-> r.size, n |-> r.n]
Length(rec) == Len(rec.head) + rec.size

\* Without an id in the file the resource keeps the one of the registry.
Deserialize(rec) ==
  IF Load.resourceType # 0
    THEN [type |-> Load.resourceType, id |-> 0, n |-> rec.n]
    ELSE [type |-> rec.head[1] % 128,
          id |-> IF rec.head[1] >= 128 THEN rec.head[2] ELSE 0,
          n |-> IF rec.head[1] >= 128 <=> Len(rec.head) = 2 THEN rec.n ELSE -1]

\* The sum of the first k numbers of w.
Sum(w, k) == LET s[j \in 0..Len(w)] == IF j = 0 THEN 0 ELSE s[j - 1] + w[j] IN s[k]

Lengths(f) == [j \in 1..Len(f) |-> Length(f[j])]
Offset(f, k) == Sum(Lengths(f), k)
Size(f) == Offset(f, Len(f))
\* The records that start at p: one, or none between records and at the end.
Starts(f, p) == {k \in 1..Len(f) : Offset(f, k - 1) = p}

-----------------------------------------------------------------------------
(***************************************************************************)
(* Save.                                                                   *)
(***************************************************************************)

Numbered == Save.maxItems > 0 \/ Save.maxSize > 0

\* ReopenFile opens, and truncates or appends to, the numbered file.  A text
\* stream then writes to the file without a number, truncated again.
Opened(id) ==
  LET n == IF Numbered THEN id ELSE 0
      f == [file EXCEPT ![n] = IF Save.overwrite THEN <<>> ELSE @]
  IN IF Save.text THEN [f EXCEPT ![0] = <<>>] ELSE f

\* The file that the stream writes to.
Target(id) == IF Save.text \/ ~Numbered THEN 0 ELSE id

\* If open fails, stream points to the deleted stream when there was one.
SaveInit ==
  /\ out = "new"
  /\ \/ out' = "open" /\ file' = Opened(fileId)
     \/ "open" \in Save.faults /\ out' = "closed" /\ UNCHANGED file
  /\ UNCHANGED <<scene, in, saved, fileId, savedItems, savedSize, items, loading,
                 loadVars, ctlVars>>

\* Write r to file number id of f.
Written(f, id, r) == [f EXCEPT ![Target(id)] = Append(@, Serialize(r))]

\* Mutation: the number of the file is not changed.
NextFileSame == fileId
NextFile == fileId + 1

\* Mutation: a file is full when it has one more than maxItemsPerFile.
FullOneMore(r) ==
  \/ Save.maxItems > 0 /\ savedItems = Save.maxItems + 1
  \/ Save.maxSize > 0 /\ savedSize + r.size > Save.maxSize
\* OUTPUT: the resource does not fit into the current file.
Full(r) ==
  \/ Save.maxItems > 0 /\ savedItems = Save.maxItems
  \/ Save.maxSize > 0 /\ savedSize + r.size > Save.maxSize

\* ProcessOutputSync; savedSize counts only when there is a limit.  When the
\* next file cannot be opened the deleted stream is used.
ProcessOutput ==
  /\ out = "open" /\ Save.mode = "OUTPUT" /\ in # <<>>
  /\ LET r == Head(in)
         size == IF Save.maxSize > 0 THEN r.size ELSE 0
         id == IF Full(r) THEN NextFile ELSE fileId
     IN \/ /\ fileId' = id
           /\ file' = Written(IF Full(r) THEN Opened(id) ELSE file, id, r)
           /\ savedItems' = IF Full(r) THEN 1 ELSE savedItems + 1
           /\ savedSize' = IF Full(r) THEN size ELSE savedSize + size
           /\ items' = items + 1
           /\ in' = Tail(in) /\ saved' = Append(saved, r)
           /\ UNCHANGED out
        \/ /\ Full(r) /\ "open" \in Save.faults
           /\ out' = "broken"
           /\ UNCHANGED <<file, in, saved, fileId, savedItems, savedSize, items>>
  /\ UNCHANGED <<scene, loading, loadVars, ctlVars>>

Rotates == Save.maxItems > 0 /\ (items + 1) % Save.maxItems = 0

\* ProcessMultiSync: only the types of the filter, and a new file after every
\* maxItemsPerFile of them, whatever their size.
ProcessMulti ==
  /\ out = "open" /\ Save.mode = "MULTI" /\ in # <<>>
  /\ LET r == Head(in) IN
       IF Save.filter # {} /\ r.type \notin Save.filter
         THEN UNCHANGED <<file, saved, fileId, items, out>>
         ELSE /\ items' = items + 1
              /\ saved' = Append(saved, r)
              /\ LET f == Written(file, fileId, r) IN
                   IF ~Rotates THEN file' = f /\ UNCHANGED <<fileId, out>>
                   ELSE /\ fileId' = NextFile
                        /\ \/ file' = [Opened(NextFile) EXCEPT ![Target(fileId)] =
                                         IF Target(fileId) = Target(NextFile)
                                           THEN @ ELSE f[Target(fileId)]]
                              /\ UNCHANGED out
                           \/ "open" \in Save.faults /\ out' = "broken" /\ file' = f
  /\ in' = Tail(in)
  /\ UNCHANGED <<scene, savedItems, savedSize, loading, loadVars, ctlVars>>

\* A closed stream: the resource is passed on and not written.  A deleted one:
\* undefined, it may look as if it had been written.
SaveNot ==
  /\ out \in {"closed", "broken"} /\ in # <<>>
  /\ \/ in' = Tail(in) /\ UNCHANGED out
     \/ out = "broken" /\ out' = "crash" /\ UNCHANGED in
  /\ UNCHANGED <<scene, file, saved, fileId, savedItems, savedSize, items, loading,
                 loadVars, ctlVars>>

-----------------------------------------------------------------------------
(***************************************************************************)
(* Load.                                                                   *)
(***************************************************************************)

Source == IF Load.name = NoFile THEN <<>> ELSE file[Load.name]

\* What a binary stream has fetched when p has been read: the block p is in.
Fetched(p) == LET b == (p \div Block + 1) * Block
              IN IF b < Size(Source) THEN b ELSE Size(Source)
\* ByteCount before a resource is read, and right after it, when a binary
\* stream has fetched no more than it needed.
CountBefore(p) == IF Load.text THEN p ELSE Fetched(p)
CountAfter(p, q) ==
  IF Load.text THEN q ELSE IF q > Fetched(p) THEN Fetched(q - 1) ELSE Fetched(p)

\* The process starts: Init opens the file, the thread of the processor starts.
LoadInit ==
  /\ loading = "off" /\ in = <<>> /\ out # "new"
  /\ loading' = "loop"
  /\ UNCHANGED <<scene, saveVars, loadVars, ctlVars>>

\* The process ends and starts again; the checkpoint remains.
Restart ==
  /\ loading # "off" /\ restarts < MaxRestarts
  /\ restarts' = restarts + 1
  /\ loading' = "loop"
  /\ pos' = 0 /\ from' = 0 /\ byteCount' = 0 /\ read' = <<>>
  /\ markEmmited' = FALSE /\ running' = TRUE /\ cancel' = FALSE
  /\ missed' = FALSE /\ ctl' = "idle"
  /\ UNCHANGED <<scene, saveVars, check, stops>>

\* RunThread tests running, without the lock of the module.
RunThread ==
  /\ loading = "loop"
  /\ loading' = IF running THEN "call" ELSE "done"
  /\ UNCHANGED <<scene, saveVars, loadVars, ctlVars>>

Items == Cardinality({j \in 1..Len(read) : read[j] # Mark})
Enough == Load.maxItems # 0 /\ Items >= Load.maxItems
NoMore == Enough \/ Starts(Source, pos) = {}

\* Mutation: the whole count is added for each resource.
AddedFromStart(p, q) == CountAfter(p, q)
\* Mutation: the difference is taken the other way round.
AddedBackwards(p, q) == CountBefore(p) - CountAfter(p, q)
\* totalSize of DeserializeResource.
Added(p, q) == CountAfter(p, q) - CountBefore(p)

\* ProcessInputSync finds a resource, or in the middle of a record anything.
ProcessInput ==
  /\ loading = "call" /\ ~Enough
  /\ loading' = "loop"
  /\ \/ \E k \in Starts(Source, pos) :
          /\ pos' = Offset(Source, k)
          /\ read' = Append(read, Deserialize(Source[k]))
     \/ /\ Starts(Source, pos) = {} /\ pos < Size(Source)
        /\ pos' = pos + 1
        /\ read' = Append(read, Junk)
  /\ byteCount' = byteCount + Added(pos, pos')
  /\ UNCHANGED <<scene, saveVars, from, markEmmited, ctlVars>>

\* Mutation: the marker is not remembered.
ProcessInputMarkAgain ==
  /\ loading = "call" /\ NoMore /\ (Enough \/ ~Load.wait)
  /\ Load.mark /\ ~markEmmited /\ Len(read) < 6
  /\ loading' = "loop"
  /\ read' = Append(read, Mark)
  /\ UNCHANGED <<scene, saveVars, pos, byteCount, from, markEmmited, ctlVars>>
\* One marker after the last resource.
ProcessInputMark ==
  /\ loading = "call" /\ NoMore /\ (Enough \/ ~Load.wait)
  /\ Load.mark /\ ~markEmmited
  /\ loading' = "loop"
  /\ markEmmited' = TRUE
  /\ read' = Append(read, Mark)
  /\ UNCHANGED <<scene, saveVars, pos, byteCount, from, ctlVars>>

\* Without a resource the thread ends.
ProcessInputEnd ==
  /\ loading = "call" /\ NoMore /\ (Enough \/ ~Load.wait)
  /\ ~Load.mark \/ markEmmited
  /\ loading' = "done"
  /\ UNCHANGED <<scene, saveVars, loadVars, ctlVars>>

\* The end of the file with property wait: the object lock is given up, and
\* cancel, which may be set already, is not tested ...
ProcessInputWaits ==
  /\ loading = "call" /\ ~Enough /\ NoMore /\ Load.wait
  /\ loading' = "gap"
  /\ missed' = (missed \/ ctl = "join")
  /\ UNCHANGED <<scene, saveVars, loadVars, running, cancel, ctl, check, restarts, stops>>

\* ... and then fileCond is taken and waited for, with no condition to test.
WaitSend ==
  /\ loading = "gap"
  /\ loading' = "asleep"
  /\ UNCHANGED <<scene, saveVars, loadVars, ctlVars>>

SpuriousWakeup ==
  /\ loading = "asleep"
  /\ loading' = "woken"
  /\ UNCHANGED <<scene, saveVars, loadVars, ctlVars>>

WaitEnds ==
  /\ loading = "woken"
  /\ loading' = IF cancel THEN "done" ELSE "call"
  /\ UNCHANGED <<scene, saveVars, loadVars, ctlVars>>

-----------------------------------------------------------------------------
(***************************************************************************)
(* The processor controls Load: Stop, Start, checkpoints.                  *)
(***************************************************************************)

\* Processor::Stop resets running, then calls Stop of the module ...
StopBegin ==
  /\ ctl = "idle" /\ running /\ loading \notin {"off", "crash"} /\ stops < MaxStops
  /\ running' = FALSE /\ ctl' = "cancel" /\ stops' = stops + 1
  /\ UNCHANGED <<scene, saveVars, loading, loadVars, cancel, missed, check, restarts>>

\* ... which sets cancel under the object lock and gives the lock up ...
StopSync ==
  /\ ctl = "cancel"
  /\ cancel' = TRUE /\ ctl' = "signal"
  /\ UNCHANGED <<scene, saveVars, loading, loadVars, running, missed, check, restarts, stops>>

\* Mutation: the receivers' condition of fileCond is signalled.
StopSignalRecv ==
  /\ ctl = "signal"
  /\ ctl' = "join"
  /\ missed' = (missed \/ loading = "gap")
  /\ UNCHANGED <<scene, saveVars, loadVars, loading, running, cancel, check, restarts, stops>>
\* ... to signal: a reader that is not asleep yet does not notice ...
StopSignal ==
  /\ ctl = "signal"
  /\ ctl' = "join"
  /\ missed' = (missed \/ loading = "gap")
  /\ loading' = IF loading = "asleep" THEN "woken" ELSE loading
  /\ UNCHANGED <<scene, saveVars, loadVars, running, cancel, check, restarts, stops>>

\* ... and waits for the thread.
StopJoin ==
  /\ ctl = "join" /\ loading = "done"
  /\ ctl' = "idle"
  /\ UNCHANGED <<scene, saveVars, loading, loadVars, running, cancel, missed, check,
                 restarts, stops>>

Start ==
  /\ ctl = "idle" /\ ~running
  /\ running' = TRUE /\ cancel' = FALSE /\ loading' = "loop"
  /\ UNCHANGED <<scene, saveVars, loadVars, ctl, missed, check, restarts, stops>>

\* The position is what byteCount says; at is where the reader really was.
SaveCheckpoint ==
  /\ ctl = "idle" /\ loading \notin {"off", "crash"}
  /\ check' = [offset |-> byteCount, at |-> pos]
  /\ UNCHANGED <<scene, saveVars, loading, loadVars, running, cancel, ctl, missed,
                 restarts, stops>>

\* A new process skips offset units before it reads; a text stream also leaves
\* the rest of that line.  byteCount is not set.  Without the file the stream
\* is NULL.
RestoreCheckpoint ==
  /\ loading = "loop" /\ ctl = "idle" /\ check # NoCheck
  /\ read = <<>> /\ pos = 0 /\ restarts > 0
  /\ LET p == check.offset + (IF Load.text THEN 1 ELSE 0)
         q == IF p <= Size(Source) THEN p ELSE Size(Source)
     IN IF Load.name = NoFile
          THEN loading' = "crash" /\ UNCHANGED <<pos, from>>
          ELSE pos' = q /\ from' = q /\ UNCHANGED loading
  /\ UNCHANGED <<scene, saveVars, byteCount, read, markEmmited, ctlVars>>

-----------------------------------------------------------------------------

SaveStep == SaveInit \/ ProcessOutput \/ ProcessMulti \/ SaveNot
Reader ==
  \/ LoadInit \/ RunThread \/ ProcessInput \/ ProcessInputMark \/ ProcessInputEnd
  \/ ProcessInputWaits \/ WaitSend \/ WaitEnds
Stopping == StopSync \/ StopSignal \/ StopJoin
Control == StopBegin \/ Start \/ SaveCheckpoint \/ RestoreCheckpoint

Next ==
  \/ SaveStep \/ Reader \/ SpuriousWakeup \/ Stopping \/ Control \/ Restart

Spec == Init /\ [][Next]_vars

\* The threads are scheduled; nobody has to stop, start or restart anything.
FairSpec == Spec /\ WF_vars(SaveStep) /\ WF_vars(Reader) /\ WF_vars(Stopping)

-----------------------------------------------------------------------------
(***************************************************************************)
(* Properties.                                                             *)
(***************************************************************************)

Sizes(f) == [j \in 1..Len(f) |-> f[j].size]
Limits(f) ==
  /\ Save.maxItems > 0 => Len(f) <= Save.maxItems
  /\ Save.mode = "OUTPUT" /\ Save.maxSize > 0 =>
       Len(f) = 1 \/ Sum(Sizes(f), Len(f)) <= Save.maxSize

\* Both variants of rotation keep a numbered file within its limits; a record
\* larger than maxSizePerFile has a file of its own.  MULTI knows no size.
FilesWithinLimits == ~Save.text => \A n \in FileNo \ {0} : Limits(file[n])

\* The first k sequences of q, one after the other.
Joined(q, k) ==
  LET s[j \in 0..Len(q)] == IF j = 0 THEN <<>> ELSE s[j - 1] \o q[j] IN s[k]

Numbers(f) == [k \in 1..Len(f) |-> f[k].n]
AllFiles ==
  LET q == [n \in 1..Len(scene.input) + 2 |-> Numbers(file[n - 1])] IN Joined(q, Len(q))

\* The binary files, in the order of their numbers, hold exactly the resources
\* that were counted as written, in their order.
NothingLost ==
  ~Save.text => AllFiles = Numbers(saved)

\* What Load delivers from a record boundary on are the records of the file
\* from there, each once, with the type and the id that Save was given.
RoundTrip ==
  \A k \in 0..Len(Source) : from = Offset(Source, k) =>
    \A j \in 1..Len(read) : read[j] # Mark =>
      /\ k + j <= Len(Source)
      /\ \E r \in {scene.input[i] : i \in 1..Len(scene.input)} :
           /\ r.n = Source[k + j].n /\ read[j].n = r.n
           /\ read[j].type = r.type
           /\ Save.saveId => read[j].id = r.id

Aligned == \E k \in 0..Len(Source) : from = Offset(Source, k)

\* At most one marker, behind all resources, also when the processor is stopped
\* and started: unless the stream started in the middle of a record.
MarkIsLast == Aligned => \A j \in 1..Len(read) : read[j] = Mark => j = Len(read)

\* A checkpoint of a binary file is never ahead of what had been read: a new
\* process that restores it loses nothing, although the byte count it is made
\* from is taken from a stream that reads ahead.
CheckpointNotAhead ==
  ~Load.text /\ check # NoCheck => check.offset <= check.at

\* A reader ends after StopSync, wherever it was, unless the signal came between
\* its test of running and WaitSend; it is then asleep for ever.
StopFreesReader ==
  ctl = "cancel" ~> missed \/ ctl = "idle"

\* Save and Load together: files within their limits hold what was written, and
\* what is read is what they hold, with one marker behind it.
FilesWhole == TypeOK /\ FilesWithinLimits /\ NothingLost /\ RoundTrip /\ MarkIsLast

=============================================================================
