-------------------------- MODULE HttpServerProofs --------------------------
(***************************************************************************)
(* Proofs about the server, for any number of clients, service threads and *)
(* descriptors and any requests.                                           *)
(***************************************************************************)
EXTENDS HttpServer, WellFoundedInduction, FiniteSetTheorems, TLAPS

(***************************************************************************)
(* Types.                                                                  *)
(***************************************************************************)
Code == {200, 400, 500, 501}
Piece == [k : Nat, u : Nat]
Header == [k : Nat, u : {0}, code : Code, n : Nat, keep : BOOLEAN]
Serving == {"read", "handle", "submit", "collect", "send", "close"}
Service == [at : Serving \cup {"off", "top", "get", "done"}, fd : Fd \cup {NoFd}, have : Nat,
            keep_alive : BOOLEAN, code : Code, body : Seq(Piece), i : Nat,
            ids : Seq(Nat), result : Seq(Nat), send : Nat]
Talker == [at : {"new", "open", "gone"}, k : Nat \ {0}, sent : Nat, net : Nat,
           end : {"no", "fin", "reset"}, got : Seq(Piece \cup Header), cut : BOOLEAN]
Task == [c : Client, k : Nat, i : Nat]

Early == {"off", "new", "socket"}
Setting == Early \cup {"bind", "listen", "failed"}
MainAt == Setting \cup {"loop", "accept", "accepted", "close", "stop", "join", "done"}

Types ==
  /\ scene \in Scenes /\ dead \in BOOLEAN
  /\ fds \in [Fd -> Client \cup {"free", "listen", "file"}]
  /\ main_running \in BOOLEAN /\ main_socket \in Fd \cup {NoFd}
  /\ main \in MainAt /\ fd \in Fd \cup {NoFd}
  /\ backlog \in Seq(Client) /\ queue \in Seq(Fd) /\ closed \in BOOLEAN
  /\ th \in [Thread -> Service] /\ cl \in [Client -> Talker]
  /\ ctl \in {"off", "run", "engines", "server", "join", "end", "exit"}
  /\ engine \in [{"out", "sink"} -> {"new", "run", "off"}]
  /\ inside \in SUBSET Task /\ finished \in SUBSET Task
  /\ stops \in BOOLEAN /\ file \in Fd \cup {NoFd, -1}

(***************************************************************************)
(* The main thread: before it listens there are no connections, and when   *)
(* the program ends it has ended.                                          *)
(***************************************************************************)
Serves(t) == th[t].at \in Serving
MainOK ==
  /\ main \in Early => main_socket = NoFd
  /\ main \in Setting => /\ backlog = <<>> /\ queue = <<>>
                         /\ \A n \in Fd : fds[n] \notin Client
                         /\ \A t \in Thread : ~Serves(t)
  /\ main \in {"off", "new"} => \A t \in Thread : th[t].at = "off"
  /\ \A t \in Thread \ scene.threads : th[t].at \in {"off", "done"}
  /\ fd # NoFd => main = "accepted"
  /\ ctl = "end" => main \in {"done", "failed"}
  /\ ctl = "exit" => main \in {"done", "failed", "off"}
  /\ main = "done" => \A t \in Thread : th[t].at \in {"off", "done"}
  /\ ctl = "off" => main = "off"
  /\ dead => main = "off" /\ ctl = "exit"

(***************************************************************************)
(* Descriptors.                                                            *)
(***************************************************************************)
NoShutdown == \A c \in Client : \A j \in 1..Len(scene.reqs[c]) : scene.reqs[c][j].m # "SHUTDOWN"
FileOpen == file \in Fd => fds[file] = "file"

Waiting ==
  /\ \A j \in 1..Len(queue) : fds[queue[j]] \in Client
  /\ \A j, k \in 1..Len(queue) : queue[j] = queue[k] => j = k
  /\ fd # NoFd => fds[fd] \in Client /\ \A j \in 1..Len(queue) : queue[j] # fd
InService ==
  \A t \in Thread : Serves(t) =>
    /\ th[t].fd \in Fd /\ Peer(t) \in Client /\ fd # th[t].fd
    /\ \A j \in 1..Len(queue) : queue[j] # th[t].fd
    /\ \A u \in Thread : Serves(u) /\ th[u].fd = th[t].fd => t = u
Others ==
  /\ main_socket \in Fd => fds[main_socket] \notin Client
  /\ file \in Fd => fds[file] \notin Client
  /\ main \in Early \/ Listening => FileOpen
  /\ NoShutdown => FileOpen /\ (main_socket \in Fd /\ ctl # "exit" => Listening)
\* A client has one connection.
OneEach ==
  /\ \A m, n \in Fd : fds[n] \in Client /\ fds[m] = fds[n] => m = n
  /\ \A j, k \in 1..Len(backlog) : backlog[j] = backlog[k] => j = k
  /\ \A n \in Fd, j \in 1..Len(backlog) : fds[n] # backlog[j]
  /\ \A c \in Client : cl[c].at = "new" \/ (cl[c].at = "gone" /\ cl[c].end = "no") =>
       (\A n \in Fd : fds[n] # c) /\ (\A j \in 1..Len(backlog) : backlog[j] # c)

\* What a service thread keeps between connections, and what it has sent of a
\* response.
Rested == \A t \in Thread : ~Serves(t) => th[t] = [Idle EXCEPT !.at = th[t].at]
Sending ==
  \A t \in Thread : Serves(t) =>
    /\ th[t].at = "send" => th[t].send <= Len(th[t].body)
    /\ th[t].at \notin {"send", "close"} => th[t].send = 0

Core == /\ Types /\ MainOK /\ Waiting /\ InService /\ Others /\ OneEach
        /\ Rested /\ Sending

(***************************************************************************)
(* Conversations: the record s of a service thread, d of its client, which *)
(* makes the requests R.                                                   *)
(***************************************************************************)
All(R, k) == 2 + Len(R[k].body)
Blank(s) == s.body = <<>> /\ s.send = 0

\* What was sent is in the buffer or on its way, and no answer has come ...
Fresh(s, d) == d.sent = s.have + d.net /\ d.got = <<>> /\ ~d.cut
\* ... or the answer, or a part of it, has been sent.
Limbo(s, d, R) == d.k <= Len(R) /\ s.have = 0 /\ d.net = 0 /\ d.sent = All(R, d.k)

GotOK(d) ==
  /\ d.got # <<>> => d.got[1] \in Header
  /\ ~d.cut => \A j \in 1..Len(d.got) :
       d.got[j].k = d.k /\ d.got[j].u = j - 1 /\ j <= d.got[1].n + 1

ClientOK(d, R) ==
  /\ d.k <= Len(R) + 1
  /\ d.net > 0 \/ d.sent > 0 \/ d.got # <<>> => d.k <= Len(R)
  /\ d.k <= Len(R) => d.sent <= All(R, d.k) /\ d.net <= All(R, d.k)
  /\ d.at \in {"new", "gone"} => d.sent = 0 /\ d.got = <<>> /\ ~d.cut
  /\ d.at = "new" => d.net = 0
  /\ d.at # "gone" => d.end = "no"
  /\ GotOK(d)

WholeGot(d, R) ==
  d.got # <<>> /\ d.k <= Len(R) /\ R[d.k].m = "PROCESS" /\ R[d.k].length =>
    (d.got[1].code = 200 => d.got[1].n = Len(R[d.k].body))

Answering == {"handle", "submit", "collect", "send"}
Talk(s, d, R) ==
  /\ d.at # "new"
  /\ d.k > Len(R) => s.at \in {"read", "close"} /\ s.have = 0 /\ d.net = 0
  /\ d.k <= Len(R) => s.have + d.net <= All(R, d.k)
  /\ s.at \in Answering =>
       /\ d.k <= Len(R) /\ s.have >= 2
       /\ R[d.k].length => s.have = All(R, d.k)
       /\ s.keep_alive => R[d.k].length
  /\ s.at \in {"read", "handle", "submit", "collect"} => Blank(s)
  /\ s.at \in {"read", "handle"} => s.ids = <<>>
  /\ s.at \in {"read", "handle", "submit"} => s.result = <<>>
  /\ d.at = "open" =>
       /\ s.at \in {"handle", "submit", "collect"} => Fresh(s, d)
       /\ s.at = "read" => Fresh(s, d) \/ Limbo(s, d, R)
       /\ s.at = "send" => /\ d.sent = s.have + d.net /\ Len(d.got) = s.send
                           /\ ~d.cut => d.got = <<>>
                           /\ d.got # <<>> => /\ d.got[1].n = Len(s.body)
                                              /\ d.got[1].keep => s.keep_alive
       /\ s.at = "close" => \/ s.have = 0 /\ Fresh(s, d)
                            \/ Limbo(s, d, R)
                            \/ /\ d.sent = s.have + d.net /\ d.k <= Len(R)
                               /\ d.got # <<>> => ~d.got[1].keep \/ Len(d.got) <= d.got[1].n
  /\ s.at = "send" => \A j \in 1..Len(s.body) : s.body[j] = [k |-> d.k, u |-> j]

\* The resources of a request.
TaskTalk(s, d, R) ==
  /\ s.at \in {"submit", "collect"} => \A j \in 1..Len(s.ids) : s.ids[j] = j
  /\ s.at = "submit" =>
       /\ s.i = Len(s.ids) + 1 /\ s.i <= s.have - 1
       /\ R[d.k].m \in {"PROCESS", "PASS"}
       /\ R[d.k].arg = IF R[d.k].m = "PROCESS" THEN "out" ELSE "sink"
  /\ s.at = "collect" => R[d.k].m = "PROCESS" /\ R[d.k].arg = "out"
WholeTalk(s, d, R) ==
  /\ s.at = "collect" => Len(s.ids) = s.have - 2
  /\ s.at = "send" /\ R[d.k].m = "PROCESS" /\ R[d.k].length /\ s.code = 200 =>
       Len(s.body) = Len(R[d.k].body)

\* Client c, with or without a thread that serves it.
Together(t, c) == Serves(t) /\ Peer(t) = c
Untaken(d) == d.sent = d.net /\ d.got = <<>> /\ ~d.cut
Fine(c) ==
  /\ ClientOK(cl[c], scene.reqs[c])
  /\ \A t \in Thread : Together(t, c) =>
       Talk(th[t], cl[c], scene.reqs[c]) /\ TaskTalk(th[t], cl[c], scene.reqs[c])
  /\ cl[c].at = "open" => (\E t \in Thread : Together(t, c)) \/ Untaken(cl[c])
  /\ ~stops => WholeGot(cl[c], scene.reqs[c])
  /\ ~stops => \A t \in Thread : Together(t, c) => WholeTalk(th[t], cl[c], scene.reqs[c])
Stopped == engine["out"] = "off" => stops \/ dead
Talks == Stopped /\ \A c \in Client : Fine(c)

(***************************************************************************)
(* The resources in the engine.                                            *)
(***************************************************************************)
Bad(r) == \E j \in DOMAIN scene.reqs[r.c][r.k].body : scene.reqs[r.c][r.k].body[j] = "bad"

\* Resource r, if a thread serves the client that has sent it.
Own(s, d, R, r) ==
  /\ Bad(r) \/ (s.at \in {"submit", "collect"} /\ d.k = r.k)
  /\ d.k = r.k =>
       /\ s.at # "handle"
       /\ s.at = "read" => /\ s.have = 0 /\ d.net = 0
                           /\ d.at = "open" => Limbo(s, d, R)
       /\ s.at = "submit" => R[d.k].m = "PROCESS"
       /\ s.at \in {"submit", "collect"} =>
            r.i \in 1..Len(s.ids) /\ \A j \in 1..Len(s.result) : s.result[j] # r.i
\* The connection it came with is served as long as it is open.
Sent1(r) ==
  /\ r.k <= cl[r.c].k /\ cl[r.c].at # "new"
  /\ \A j \in 1..Len(backlog) : backlog[j] # r.c
  /\ \A n \in Fd : fds[n] = r.c => \E t \in Thread : Serves(t) /\ th[t].fd = n
TaskOK(r) ==
  /\ Sent1(r)
  /\ Bad(r) \/ \E t \in Thread : Together(t, r.c)
  /\ \A t \in Thread : Together(t, r.c) => Own(th[t], cl[r.c], scene.reqs[r.c], r)
ResultOK(s) ==
  s.at = "collect" =>
    /\ \A j \in 1..Len(s.result) : s.result[j] \in 1..Len(s.ids)
    /\ \A j, k \in 1..Len(s.result) : s.result[j] = s.result[k] => j = k
Tasks ==
  /\ engine["out"] = "off" => inside = {} /\ finished = {}
  /\ inside \cap finished = {}
  /\ \A r \in inside \cup finished : TaskOK(r)
  /\ \A t \in Thread : ResultOK(th[t])

(***************************************************************************)
(* Steps keep the types.                                                   *)
(***************************************************************************)
LEMMA TypesInit == Init => Types
<1> SUFFICES ASSUME Init PROVE Types
  OBVIOUS
<1>1. Idle \in Service
  BY DEF Idle, Service, Code
<1>2. \A c \in Client : cl[c] = [at |-> "new", k |-> 1, sent |-> 0, net |-> 0,
                                 end |-> "no", got |-> <<>>, cut |-> FALSE]
  BY DEF Init
<1>3. cl \in [Client -> Talker]
  <2>1. [at |-> "new", k |-> 1, sent |-> 0, net |-> 0, end |-> "no", got |-> <<>>,
         cut |-> FALSE] \in Talker
    BY DEF Talker
  <2>2. QED
    BY <2>1 DEF Init
<1>4. engine \in [{"out", "sink"} -> {"new", "run", "off"}]
  BY HttpAssumption DEF Init
<1>5. fds \in [Fd -> Client \cup {"free", "listen", "file"}] /\ th \in [Thread -> Service]
  BY <1>1 DEF Init
<1>6. /\ main \in MainAt /\ backlog \in Seq(Client) /\ queue \in Seq(Fd)
      /\ inside \in SUBSET Task /\ finished \in SUBSET Task
      /\ ctl \in {"off", "run", "engines", "server", "join", "end", "exit"}
  BY DEF Init, MainAt, Setting, Early
<1>7. QED
  BY <1>3, <1>4, <1>5, <1>6 DEF Init, Types

LEMMA FreeTaken == ASSUME Types, HasFree PROVE FirstFree \in Fd /\ fds[FirstFree] = "free"
<1>1. PICK n \in Fd : fds[n] = "free"
  BY DEF HasFree
<1> DEFINE S == {m \in Fd : fds[m] = "free"}
<1>2. S \in SUBSET Nat /\ S # {}
  BY <1>1, HttpAssumption
<1>3. \E m \in S : \A x \in S : m <= x
  <2>1. PICK m \in S : \A x \in S : ~(<<x, m>> \in OpToRel(<, Nat))
    BY <1>2, NatLessThanWellFounded, WFMin, Zenon
  <2>2. \A x, y \in Nat : x < y => <<x, y>> \in OpToRel(<, Nat)
    BY DEF OpToRel
  <2>3. \A x \in S : ~(x < m) /\ x \in Nat /\ m \in Nat
    BY <1>2, <2>1, <2>2, Zenon
  <2>4. QED
    BY <2>3
<1>4. \E m \in Fd : fds[m] = "free" /\ \A x \in Fd : fds[x] = "free" => m <= x
  BY <1>3
<1>5. QED
  BY <1>4 DEF FirstFree

\* The thread t alone changes, and its record becomes s.
Turns(t, s) == th' = [th EXCEPT ![t] = s]

LEMMA Turned ==
  ASSUME th \in [Thread -> Service], NEW t \in Thread, NEW s \in Service, Turns(t, s)
  PROVE  th' \in [Thread -> Service] /\ th'[t] = s /\ \A u \in Thread \ {t} : th'[u] = th[u]
BY DEF Turns

LEMMA GoneTyped == ASSUME Types, NEW c \in Client PROVE Gone(c) \in Talker
<1>1. PICK d \in Talker : d = cl[c]
  BY DEF Types
<1>2. PICK e \in Seq(Piece \cup Header) : e = <<>>
  <2>1. \A S : <<>> \in Seq(S)
    OBVIOUS
  <2>2. QED
    BY <2>1, Zenon
<1>3. [d EXCEPT !.at = "gone", !.net = 0, !.sent = 0, !.got = e, !.cut = FALSE] \in Talker
  BY <1>2 DEF Talker
<1>4. QED
  BY <1>1, <1>2, <1>3 DEF Gone

\* close() of the listening socket, or of what has its number now.
Closes(n) ==
  /\ fds' \in [Fd -> Client \cup {"free", "listen", "file"}]
  /\ \A m \in Fd \ {n} : fds'[m] = fds[m]
  /\ n \in Fd => fds'[n] = "free"
  /\ cl' \in [Client -> Talker]
  /\ \A c \in Client : cl'[c] = cl[c] \/ (cl'[c] = Gone(c) /\ \E j \in 1..Len(backlog) : backlog[j] = c)
  /\ backlog' \in {backlog, <<>>}
  /\ backlog' = backlog => cl' = cl
LEMMA CloseFdCloses == ASSUME Types, NEW n, CloseFd(n) PROVE Closes(n)
<1>1. CASE n \in Fd /\ fds[n] = "listen"
  <2>1. /\ fds' = [fds EXCEPT ![n] = "free"] /\ backlog' = <<>>
        /\ cl' = [c \in Client |->
                    IF \E j \in 1..Len(backlog) : backlog[j] = c THEN Gone(c) ELSE cl[c]]
    BY <1>1 DEF CloseFd
  <2>2. cl' \in [Client -> Talker]
    BY <2>1, GoneTyped DEF Types
  <2>3. backlog = <<>> => cl' = cl
    <3>1. SUFFICES ASSUME backlog = <<>> PROVE cl' = cl
      OBVIOUS
    <3>2. 1..Len(backlog) = {}
      BY <3>1
    <3>3. cl' = [c \in Client |-> cl[c]]
      BY <2>1, <3>2
    <3>4. QED
      BY <3>3 DEF Types
  <2>4. QED
    BY <1>1, <2>1, <2>2, <2>3 DEF Closes, Types
<1>2. CASE ~(n \in Fd /\ fds[n] = "listen")
  <2>1. /\ fds' = [m \in Fd |-> IF m = n THEN "free" ELSE fds[m]]
        /\ cl' = cl /\ backlog' = backlog
    BY <1>2 DEF CloseFd
  <2>2. QED
    BY <2>1 DEF Closes, Types
<1>3. QED
  BY <1>1, <1>2

(***************************************************************************)
(* What the steps of a service thread do to its record and to its client.  *)
(***************************************************************************)
Steady == UNCHANGED <<scene, dead, fds, serverVars, file>>
Joined(t) == t \in Thread /\ Serves(t) /\ th[t].fd \in Fd /\ Peer(t) \in Client

\* The response is ready: its code, and one unit or none.
Answers(t, code) ==
  \E b \in {th[t].body, Append(th[t].body, Unit(t, 1)), <<Unit(t, 1)>>} :
    Turns(t, [th[t] EXCEPT !.at = "send", !.code = code, !.body = b])

LEMMA RespondAnswers ==
  ASSUME Types, NEW t \in Thread, NEW code \in Code,
         \/ th' = Respond(t, code) \/ th' = RespondLine(t, code) \/ th' = ErrorResponse(t, code)
  PROVE  Answers(t, code)
<1>1. PICK s \in Service : s = th[t]
  BY DEF Types
<1>2. th \in [Thread -> Service]
  BY DEF Types
<1>3. CASE th' = Respond(t, code)
  <2>1. Turns(t, [th[t] EXCEPT !.at = "send", !.code = code, !.body = th[t].body])
    BY <1>1, <1>2, <1>3 DEF Respond, Turns, Service
  <2>2. QED
    BY <2>1 DEF Answers
<1>4. CASE th' = RespondLine(t, code)
  BY <1>1, <1>2, <1>4 DEF RespondLine, Turns, Answers
<1>5. CASE th' = ErrorResponse(t, code)
  BY <1>1, <1>2, <1>5 DEF ErrorResponse, Turns, Answers
<1>6. QED
  BY <1>3, <1>4, <1>5

LEMMA UnitTyped ==
  ASSUME Types, NEW t \in Thread, Joined(t), NEW j \in Nat
  PROVE  Unit(t, j) \in Piece /\ Unit(t, j).k = cl[Peer(t)].k /\ Unit(t, j).u = j
<1>1. cl[Peer(t)].k \in Nat
  BY DEF Types, Joined, Talker
<1>2. QED
  BY <1>1 DEF Unit, Piece

LEMMA AnswersTyped ==
  ASSUME Types, NEW t \in Thread, Joined(t), NEW code \in Code, Answers(t, code)
  PROVE  /\ th' \in [Thread -> Service] /\ \A u \in Thread \ {t} : th'[u] = th[u]
         /\ \E b \in Seq(Piece) :
              /\ b \in {th[t].body, Append(th[t].body, Unit(t, 1)), <<Unit(t, 1)>>}
              /\ th'[t] = [th[t] EXCEPT !.at = "send", !.code = code, !.body = b]
<1>1. PICK s \in Service : s = th[t]
  BY DEF Types
<1>2. PICK b \in {s.body, Append(s.body, Unit(t, 1)), <<Unit(t, 1)>>} :
        Turns(t, [s EXCEPT !.at = "send", !.code = code, !.body = b])
  BY <1>1 DEF Answers
<1>3. PICK p \in Piece : p = Unit(t, 1)
  BY UnitTyped
<1>4. s.body \in Seq(Piece)
  BY DEF Service
<1>5. Append(s.body, p) \in Seq(Piece) /\ <<p>> \in Seq(Piece)
  BY <1>4
<1>6. b \in Seq(Piece)
  BY <1>2, <1>3, <1>4, <1>5
<1>7. [s EXCEPT !.at = "send", !.code = code, !.body = b] \in Service
  BY <1>6 DEF Service, Serving
<1>8. QED
  BY <1>1, <1>2, <1>6, <1>7, Turned DEF Types

\* The engines.
EngineTyped ==
  /\ engine' \in [{"out", "sink"} -> {"new", "run", "off"}]
  /\ inside' \in SUBSET Task /\ finished' \in SUBSET Task /\ stops' \in BOOLEAN

LEMMA SetRunTyped == ASSUME Types, NEW v, SetRun(v) PROVE EngineTyped
<1>1. CASE StopEngine({"out"})
  BY <1>1 DEF StopEngine, EngineTyped, Types
<1>2. CASE StartEngine
  BY <1>2 DEF StartEngine, EngineTyped, Types
<1>3. CASE UNCHANGED engineVars
  BY <1>3 DEF engineVars, EngineTyped, Types
<1>4. QED
  BY <1>1, <1>2, <1>3 DEF SetRun

\* The requests that are answered at once.
HandlesNow(t) == HandleGet(t) \/ HandleSet(t) \/ HandleCheckpoint(t) \/ HandleOther(t)
LEMMA HandleTurns ==
  ASSUME Types, NEW t \in Thread, HandlesNow(t)
  PROVE  /\ At(t, "handle") /\ Ask(t).m \notin {"PROCESS", "PASS"}
         /\ \E code \in Code : Answers(t, code)
         /\ Steady /\ UNCHANGED cl /\ EngineTyped
         /\ UNCHANGED engineVars \/ \E v : SetRun(v)
<1> USE DEF Handles
<1>0. UNCHANGED engineVars => EngineTyped
  BY DEF engineVars, EngineTyped, Types
<1>1. CASE HandleGet(t)
  <2>1. \E code \in {200, 400} : th' = ErrorResponse(t, code) \/ th' = RespondLine(t, code)
    BY <1>1 DEF HandleGet
  <2>2. QED
    BY <1>0, <1>1, <2>1, RespondAnswers DEF HandleGet, Code, Steady
<1>2. CASE HandleSet(t)
  <2>1. \E code \in {200, 400} : th' = ErrorResponse(t, code) \/ th' = Respond(t, code)
    BY <1>2 DEF HandleSet
  <2>2. UNCHANGED engineVars \/ \E v : SetRun(v)
    BY <1>2 DEF HandleSet
  <2>3. QED
    BY <1>0, <1>2, <2>1, <2>2, RespondAnswers, SetRunTyped DEF HandleSet, Code, Steady
<1>3. CASE HandleCheckpoint(t)
  BY <1>0, <1>3, RespondAnswers DEF HandleCheckpoint, Code, Steady
<1>4. CASE HandleOther(t)
  BY <1>0, <1>4, RespondAnswers DEF HandleOther, Code, Steady
<1>5. QED
  BY <1>1, <1>2, <1>3, <1>4 DEF HandlesNow

\* The steps of PROCESS and PASS.
LEMMA ResourceTurns ==
  ASSUME Types, NEW t \in Thread, HandleResources(t)
  PROVE  /\ At(t, "handle") /\ Ask(t).m \in {"PROCESS", "PASS"}
         /\ Steady /\ UNCHANGED cl /\ UNCHANGED engineVars
         /\ \/ Answers(t, 500)
            \/ /\ Ask(t).arg = IF Ask(t).m = "PROCESS" THEN "out" ELSE "sink"
               /\ [th[t] EXCEPT !.at = "submit", !.i = 1] \in Service
               /\ Turns(t, [th[t] EXCEPT !.at = "submit", !.i = 1])
<1>1. PICK s \in Service : s = th[t]
  BY DEF Types
<1>2. th \in [Thread -> Service]
  BY DEF Types
<1>3. [s EXCEPT !.at = "submit", !.i = 1] \in Service
  BY DEF Service, Serving
<1>4. CASE th' = Respond(t, 500)
  BY <1>4, RespondAnswers DEF HandleResources, Handles, Steady, Code
<1>5. CASE /\ Ask(t).arg = IF Ask(t).m = "PROCESS" THEN "out" ELSE "sink"
           /\ th' = [th EXCEPT ![t].at = "submit", ![t].i = 1]
  <2>1. Turns(t, [s EXCEPT !.at = "submit", !.i = 1])
    BY <1>1, <1>2, <1>5 DEF Turns
  <2>2. QED
    BY <1>1, <1>3, <1>5, <2>1 DEF HandleResources, Handles, Steady
<1>6. QED
  BY <1>4, <1>5 DEF HandleResources

LEMMA SubmitTurns ==
  ASSUME Types, NEW t \in Thread, Joined(t), Submit(t)
  PROVE  /\ At(t, "submit") /\ th[t].i <= Len(Body(t)) /\ engine[Ask(t).arg] # "off"
         /\ Steady /\ UNCHANGED cl /\ EngineTyped /\ UNCHANGED <<engine, finished, stops>>
         /\ inside' = IF Ask(t).arg = "out" THEN inside \cup {Resource(t, th[t].i)} ELSE inside
         /\ Resource(t, th[t].i) \in Task
         /\ [th[t] EXCEPT !.i = @ + 1, !.ids = Append(@, th[t].i)] \in Service
         /\ Turns(t, [th[t] EXCEPT !.i = @ + 1, !.ids = Append(@, th[t].i)])
<1>1. PICK s \in Service : s = th[t]
  BY DEF Types
<1>2. th \in [Thread -> Service]
  BY DEF Types
<1>3. s.i + 1 \in Nat /\ Append(s.ids, s.i) \in Seq(Nat)
  BY DEF Service
<1>4. [s EXCEPT !.i = s.i + 1, !.ids = Append(s.ids, s.i)] \in Service
  BY <1>3 DEF Service
<1>5. Turns(t, [s EXCEPT !.i = s.i + 1, !.ids = Append(s.ids, s.i)])
  BY <1>1, <1>2 DEF Submit, Turns
<1>6. Resource(t, s.i) \in Task
  <2>1. cl[Peer(t)].k \in Nat /\ s.i \in Nat /\ Peer(t) \in Client
    BY DEF Types, Joined, Talker, Service
  <2>2. QED
    BY <2>1 DEF Resource, Task
<1>7. /\ At(t, "submit") /\ th[t].i <= Len(Body(t)) /\ engine[Ask(t).arg] # "off"
      /\ Steady /\ UNCHANGED cl /\ UNCHANGED <<engine, finished, stops>>
      /\ inside' = IF Ask(t).arg = "out" THEN inside \cup {Resource(t, th[t].i)} ELSE inside
  BY DEF Submit, Steady
<1>8. EngineTyped
  BY <1>1, <1>6, <1>7 DEF EngineTyped, Types
<1>9. QED
  BY <1>1, <1>4, <1>5, <1>6, <1>7, <1>8

\* The body has been read, or a part of it.
LEMMA PassedTurns ==
  ASSUME Types, NEW t \in Thread, th' = Passed(t)
  PROVE  \/ Ask(t).m # "PROCESS" /\ Answers(t, 200)
         \/ /\ Ask(t).m = "PROCESS" /\ [th[t] EXCEPT !.at = "collect"] \in Service
            /\ Turns(t, [th[t] EXCEPT !.at = "collect"])
<1>1. PICK s \in Service : s = th[t]
  BY DEF Types
<1>2. th \in [Thread -> Service]
  BY DEF Types
<1>3. [s EXCEPT !.at = "collect"] \in Service
  BY DEF Service, Serving
<1>4. CASE Ask(t).m = "PROCESS"
  BY <1>1, <1>2, <1>3, <1>4 DEF Passed, Goto, Turns
<1>5. CASE Ask(t).m # "PROCESS"
  BY <1>5, RespondAnswers DEF Passed, Code
<1>6. QED
  BY <1>4, <1>5

LEMMA CollectOneTurns ==
  ASSUME Types, NEW t \in Thread, CollectOne(t)
  PROVE  /\ At(t, "collect") /\ Steady /\ UNCHANGED cl /\ EngineTyped
         /\ UNCHANGED <<engine, inside, stops>>
         /\ \E j \in 1..Len(th[t].ids) :
              /\ Resource(t, th[t].ids[j]) \in finished
              /\ finished' = finished \ {Resource(t, th[t].ids[j])}
              /\ [th[t] EXCEPT !.result = Append(@, th[t].ids[j])] \in Service
              /\ Turns(t, [th[t] EXCEPT !.result = Append(@, th[t].ids[j])])
<1>1. PICK s \in Service : s = th[t]
  BY DEF Types
<1>2. th \in [Thread -> Service]
  BY DEF Types
<1>3. PICK j \in 1..Len(s.ids) :
        /\ Resource(t, s.ids[j]) \in finished
        /\ finished' = finished \ {Resource(t, s.ids[j])}
        /\ th' = [th EXCEPT ![t].result = Append(@, Resource(t, s.ids[j]).i)]
  BY <1>1 DEF CollectOne
<1>4. PICK x \in Nat : x = s.ids[j]
  BY <1>3 DEF Service
<1>5. Resource(t, x).i = x
  BY DEF Resource
<1>6. Append(s.result, x) \in Seq(Nat)
  BY DEF Service
<1>7. [s EXCEPT !.result = Append(s.result, x)] \in Service
  BY <1>6 DEF Service
<1>8. Turns(t, [s EXCEPT !.result = Append(s.result, x)])
  BY <1>1, <1>2, <1>3, <1>4, <1>5 DEF Turns
<1>9. EngineTyped /\ Steady /\ UNCHANGED <<cl, engine, inside, stops>> /\ At(t, "collect")
  BY <1>3, SMTT(30) DEF CollectOne, EngineTyped, Types, Steady
<1>10. QED
  BY <1>1, <1>3, <1>4, <1>7, <1>8, <1>9

LEMMA CollectAllTurns ==
  ASSUME Types, NEW t \in Thread, Joined(t), CollectAll(t)
  PROVE  /\ At(t, "collect") /\ Len(th[t].result) = Len(th[t].ids)
         /\ Steady /\ UNCHANGED cl /\ UNCHANGED engineVars
         /\ \E b \in Seq(Piece) :
              /\ b = th[t].body \o InOrder(t)
              /\ [th[t] EXCEPT !.at = "send", !.code = 200, !.body = b] \in Service
              /\ Turns(t, [th[t] EXCEPT !.at = "send", !.code = 200, !.body = b])
<1>1. PICK s \in Service : s = th[t]
  BY DEF Types
<1>2. th \in [Thread -> Service]
  BY DEF Types
<1>3. s.body \in Seq(Piece) /\ s.ids \in Seq(Nat) /\ Len(s.ids) \in Nat
  BY DEF Service
<1>4. \A j \in 1..Len(s.ids) : Unit(t, s.ids[j]) \in Piece
  BY <1>3, UnitTyped
<1>5. PICK n \in Nat : n = Len(s.ids)
  BY <1>3
<1>6. InOrder(t) = [j \in 1..n |-> Unit(t, s.ids[j])]
  BY <1>1, <1>5 DEF InOrder
<1>7. InOrder(t) \in Seq(Piece)
  <2>1. PICK f : f = [j \in 1..n |-> Unit(t, s.ids[j])]
    OBVIOUS
  <2>2. f \in [1..n -> Piece]
    BY <1>4, <1>5, <2>1
  <2>3. \A S : \A g \in [1..n -> S] : g \in Seq(S)
    OBVIOUS
  <2>4. QED
    BY <1>6, <2>1, <2>2, <2>3
<1>8. PICK b \in Seq(Piece) : b = s.body \o InOrder(t)
  <2>1. \A S : \A p, q \in Seq(S) : p \o q \in Seq(S)
    OBVIOUS
  <2>2. QED
    BY <1>3, <1>7, <2>1, Zenon
<1>9. [s EXCEPT !.at = "send", !.code = 200, !.body = b] \in Service
  <2>1. PICK code \in Code : code = 200
    BY DEF Code
  <2>2. [s EXCEPT !.at = "send", !.code = code, !.body = b] \in Service
    BY <1>8 DEF Service, Serving
  <2>3. QED
    BY <2>1, <2>2
<1>10. Turns(t, [s EXCEPT !.at = "send", !.code = 200, !.body = b])
  BY <1>1, <1>2, <1>8, ZenonT(60) DEF CollectAll, Turns
<1>11. QED
  BY <1>1, <1>8, <1>9, <1>10 DEF CollectAll, Steady

\* The client c alone changes, and its record becomes d.
Alters(c, d) == cl' = [cl EXCEPT ![c] = d]

LEMMA Altered ==
  ASSUME cl \in [Client -> Talker], NEW c \in Client, NEW d \in Talker, Alters(c, d)
  PROVE  cl' \in [Client -> Talker] /\ cl'[c] = d /\ \A e \in Client \ {c} : cl'[e] = cl[e]
BY DEF Alters

\* Reading a request.
LEMMA ReadTurns ==
  ASSUME Types, NEW t \in Thread, Joined(t), Read(t)
  PROVE  /\ At(t, "read") /\ Steady /\ UNCHANGED engineVars /\ cl[Peer(t)].net > 0
         /\ Alters(Peer(t), [cl[Peer(t)] EXCEPT !.net = 0])
         /\ [cl[Peer(t)] EXCEPT !.net = 0] \in Talker
         /\ \E h \in Nat, a \in {"read", "handle"}, b \in BOOLEAN :
              /\ h = th[t].have + cl[Peer(t)].net
              /\ a = "handle" <=> Ready(t, h)
              /\ b <=> KeepAlive(t, h)
              /\ [th[t] EXCEPT !.have = h, !.keep_alive = b, !.at = a] \in Service
              /\ Turns(t, [th[t] EXCEPT !.have = h, !.keep_alive = b, !.at = a])
<1>1. PICK s \in Service : s = th[t]
  BY DEF Types
<1>2. PICK c \in Client : c = Peer(t)
  BY DEF Joined
<1>3. PICK d \in Talker : d = cl[c]
  BY DEF Types
<1>4. th \in [Thread -> Service] /\ cl \in [Client -> Talker]
  BY DEF Types
<1>5. PICK h \in Nat : h = s.have + d.net
  BY DEF Service, Talker
<1>6. PICK a \in {"read", "handle"} : a = IF Ready(t, h) THEN "handle" ELSE "read"
  OBVIOUS
<1>7. PICK b \in BOOLEAN : b = KeepAlive(t, h)
  BY DEF KeepAlive
<1>8. [s EXCEPT !.have = h, !.keep_alive = b, !.at = a] \in Service
  BY DEF Service, Serving
<1>9. [d EXCEPT !.net = 0] \in Talker
  BY DEF Talker
<1>10. /\ th' = [th EXCEPT ![t].have = h, ![t].keep_alive = b, ![t].at = a]
       /\ cl' = [cl EXCEPT ![c].net = 0]
  BY <1>1, <1>2, <1>3, <1>5, <1>6, <1>7 DEF Read
<1>11. Turns(t, [s EXCEPT !.have = h, !.keep_alive = b, !.at = a])
  BY <1>1, <1>4, <1>10 DEF Turns
<1>12. Alters(c, [d EXCEPT !.net = 0])
  BY <1>3, <1>4, <1>10 DEF Alters
<1>13. At(t, "read") /\ Steady /\ UNCHANGED engineVars /\ cl[Peer(t)].net > 0
  BY DEF Read, Steady
<1>14. a = "handle" <=> Ready(t, h)
  BY <1>6
<1>15. QED
  BY <1>1, <1>2, <1>3, <1>5, <1>7, <1>8, <1>9, <1>11, <1>12, <1>13, <1>14

LEMMA GotoTurns ==
  ASSUME Types, NEW t \in Thread, NEW a \in Serving \cup {"off", "top", "get", "done"},
         th' = Goto(t, a)
  PROVE  [th[t] EXCEPT !.at = a] \in Service /\ Turns(t, [th[t] EXCEPT !.at = a])
<1>1. PICK s \in Service : s = th[t]
  BY DEF Types
<1>2. th \in [Thread -> Service]
  BY DEF Types
<1>3. [s EXCEPT !.at = a] \in Service
  BY DEF Service
<1>4. Turns(t, [s EXCEPT !.at = a])
  BY <1>1, <1>2 DEF Turns, Goto
<1>5. QED
  BY <1>1, <1>3, <1>4

\* Writing a response: it is over, and the connection goes on or ends.
Over(t) ==
  \/ /\ th[t].keep_alive /\ [Idle EXCEPT !.at = "read", !.fd = th[t].fd] \in Service
     /\ Turns(t, [Idle EXCEPT !.at = "read", !.fd = th[t].fd])
  \/ /\ ~th[t].keep_alive /\ [th[t] EXCEPT !.at = "close"] \in Service
     /\ Turns(t, [th[t] EXCEPT !.at = "close"])

LEMMA AfterTurns ==
  ASSUME Types, NEW t \in Thread, th' = AfterResponse(t)
  PROVE  Over(t)
<1>1. th[t].fd \in Fd \cup {NoFd} /\ th[t].keep_alive \in BOOLEAN
  BY DEF Types, Service
<1>2. Idle \in Service
  BY DEF Idle, Service, Code
<1>3. CASE th[t].keep_alive
  <2>1. [Idle EXCEPT !.at = "read", !.fd = th[t].fd] \in Service
    BY <1>1, <1>2 DEF Service, Serving
  <2>2. QED
    BY <1>3, <2>1 DEF AfterResponse, Clear, Turns, Over
<1>4. CASE ~th[t].keep_alive
  BY <1>4, GotoTurns DEF AfterResponse, Over, Serving
<1>5. QED
  BY <1>3, <1>4

LEMMA ResponseTyped ==
  ASSUME Types, NEW t \in Thread, Joined(t)
  PROVE  /\ Response(t) \in Seq(Piece \cup Header) /\ Len(Response(t)) = Len(th[t].body) + 1
         /\ Response(t)[1] = [k |-> cl[Peer(t)].k, u |-> 0, code |-> th[t].code,
                              n |-> Len(th[t].body), keep |-> th[t].keep_alive]
         /\ Response(t)[1] \in Header
         /\ \A j \in 1..Len(th[t].body) : Response(t)[j + 1] = th[t].body[j]
<1>1. PICK s \in Service : s = th[t]
  BY DEF Types
<1>2. /\ s.body \in Seq(Piece) /\ Len(s.body) \in Nat /\ s.code \in Code /\ s.keep_alive \in BOOLEAN
      /\ cl[Peer(t)].k \in Nat
  <2>1. s.body \in Seq(Piece) /\ s.code \in Code /\ s.keep_alive \in BOOLEAN
    BY DEF Service
  <2>2. Len(s.body) \in Nat
    BY <2>1
  <2>3. PICK d \in Talker : d = cl[Peer(t)]
    BY DEF Types, Joined
  <2>4. d.k \in Nat
    BY DEF Talker
  <2>5. QED
    BY <2>1, <2>2, <2>3, <2>4
<1>3. PICK h : h = [k |-> cl[Peer(t)].k, u |-> 0, code |-> s.code, n |-> Len(s.body),
                    keep |-> s.keep_alive]
  OBVIOUS
<1>4. h \in Header
  BY <1>2, <1>3 DEF Header
<1>5. PICK b \in Seq(Piece) : b = s.body
  BY <1>2
<1>6. Response(t) = <<h>> \o b
  BY <1>1, <1>3, <1>5 DEF Response
<1>7. \A S : \A x \in S : \A q \in Seq(S) :
        /\ <<x>> \o q \in Seq(S) /\ Len(<<x>> \o q) = Len(q) + 1 /\ (<<x>> \o q)[1] = x
        /\ \A j \in 1..Len(q) : (<<x>> \o q)[j + 1] = q[j]
  OBVIOUS
<1>8. b \in Seq(Piece \cup Header) /\ h \in Piece \cup Header
  BY <1>4
<1>9. QED
  BY <1>1, <1>3, <1>4, <1>5, <1>6, <1>7, <1>8

LEMMA Prefix ==
  ASSUME NEW S, NEW q \in Seq(S), NEW w \in 1..Len(q)
  PROVE  /\ SubSeq(q, 1, w) \in Seq(S) /\ Len(SubSeq(q, 1, w)) = w
         /\ \A j \in 1..w : SubSeq(q, 1, w)[j] = q[j]
<1>1. w \in Nat /\ w <= Len(q) /\ \A k \in 1..w : q[k] \in S
  OBVIOUS
<1>2. Len(SubSeq(q, 1, w)) = w
  BY <1>1
<1>3. QED
  BY <1>1, <1>2

\* ... a part of it is sent, or all.
Sends(t, w, b) ==
  /\ w \in 1..Len(th[t].body) + 1 - th[t].send
  /\ Alters(Peer(t), [cl[Peer(t)] EXCEPT !.got = @ \o SubSeq(Response(t), 1, w), !.cut = b])
  /\ [cl[Peer(t)] EXCEPT !.got = @ \o SubSeq(Response(t), 1, w), !.cut = b] \in Talker
  /\ b <=> cl[Peer(t)].cut \/ w < Len(th[t].body) + 1 - th[t].send
  /\ \/ w = Len(th[t].body) + 1 - th[t].send /\ Over(t)
     \/ /\ w < Len(th[t].body) + 1 - th[t].send
        /\ [th[t] EXCEPT !.send = @ + w] \in Service
        /\ Turns(t, [th[t] EXCEPT !.send = @ + w])

LEMMA WriteTurns ==
  ASSUME Types, NEW t \in Thread, Joined(t), th[t].send <= Len(th[t].body), Write(t)
  PROVE  /\ At(t, "send") /\ cl[Peer(t)].end = "no" /\ Steady /\ UNCHANGED engineVars
         /\ \E w \in Nat, b \in BOOLEAN : Sends(t, w, b)
<1>1. PICK s \in Service : s = th[t]
  BY DEF Types
<1>2. PICK c \in Client : c = Peer(t)
  BY DEF Joined
<1>3. PICK d \in Talker : d = cl[c]
  BY DEF Types
<1>4. th \in [Thread -> Service] /\ cl \in [Client -> Talker]
  BY DEF Types
<1>5. PICK q \in Seq(Piece \cup Header) : q = Response(t) /\ Len(q) = Len(s.body) + 1
  BY <1>1, ResponseTyped
<1>6. s.send \in Nat /\ Len(s.body) \in Nat /\ s.send <= Len(s.body)
  BY <1>1 DEF Service
<1>7. PICK rest \in Nat \ {0} : rest = Len(q) - s.send
  BY <1>5, <1>6
<1>8. PICK w \in IF "interrupt" \in scene.faults THEN 1..rest ELSE {rest} :
        /\ cl' = [cl EXCEPT ![c].got = @ \o SubSeq(q, 1, w), ![c].cut = @ \/ w < rest]
        /\ th' = IF Sent(t, w) THEN AfterResponse(t) ELSE [th EXCEPT ![t].send = @ + w]
  BY <1>1, <1>2, <1>5, <1>7, ZenonT(60) DEF Write
<1>9. w \in 1..rest /\ w \in 1..Len(q) /\ w \in Nat
  BY <1>5, <1>6, <1>7, <1>8, SMTT(30)
<1>10. PICK p \in Seq(Piece \cup Header) : p = SubSeq(q, 1, w)
  BY <1>9, Prefix
<1>11. PICK b \in BOOLEAN : b = (d.cut \/ w < rest)
  BY DEF Talker
<1>12. [d EXCEPT !.got = d.got \o p, !.cut = b] \in Talker
  <2>1. \A S : \A x, y \in Seq(S) : x \o y \in Seq(S)
    OBVIOUS
  <2>2. d.got \in Seq(Piece \cup Header)
    BY DEF Talker
  <2>3. PICK g \in Seq(Piece \cup Header) : g = d.got \o p
    BY <2>1, <2>2, Zenon
  <2>4. [d EXCEPT !.got = g, !.cut = b] \in Talker
    BY DEF Talker
  <2>5. QED
    BY <2>3, <2>4
<1>13. Alters(c, [d EXCEPT !.got = d.got \o p, !.cut = b])
  BY <1>3, <1>4, <1>8, <1>10, <1>11 DEF Alters
<1>14. Sent(t, w) <=> s.send + w >= Len(q)
  BY <1>1, <1>5 DEF Sent
<1>15. Sent(t, w) <=> w = rest
  BY <1>5, <1>6, <1>7, <1>9, <1>14
<1>16. rest = Len(th[t].body) + 1 - th[t].send /\ w \in 1..Len(th[t].body) + 1 - th[t].send
  <2>1. rest = Len(s.body) + 1 - s.send
    BY <1>5, <1>6, <1>7, SMTT(30)
  <2>2. QED
    BY <1>1, <1>9, <2>1, Zenon
<1>17. /\ Alters(Peer(t), [cl[Peer(t)] EXCEPT !.got = @ \o SubSeq(Response(t), 1, w), !.cut = b])
       /\ [cl[Peer(t)] EXCEPT !.got = @ \o SubSeq(Response(t), 1, w), !.cut = b] \in Talker
  BY <1>2, <1>3, <1>5, <1>10, <1>12, <1>13
<1>18. b <=> cl[Peer(t)].cut \/ w < Len(th[t].body) + 1 - th[t].send
  <2>1. rest = Len(th[t].body) + 1 - th[t].send /\ d = cl[Peer(t)] /\ b = (d.cut \/ w < rest)
    BY <1>2, <1>3, <1>11, <1>16
  <2>2. b <=> d.cut \/ w < rest
    BY <2>1, Zenon
  <2>3. QED
    BY <2>1, <2>2, Zenon
<1>19. \/ w = Len(th[t].body) + 1 - th[t].send /\ Over(t)
       \/ /\ w < Len(th[t].body) + 1 - th[t].send
          /\ [th[t] EXCEPT !.send = @ + w] \in Service
          /\ Turns(t, [th[t] EXCEPT !.send = @ + w])
  <2>1. CASE w = rest
    BY <1>8, <1>15, <1>16, <2>1, AfterTurns
  <2>2. CASE w # rest
    <3>1. th' = [th EXCEPT ![t].send = @ + w] /\ w < rest
      BY <1>8, <1>9, <1>15, <2>2
    <3>2. PICK x \in Nat : x = s.send + w
      BY <1>6, <1>9
    <3>3. [s EXCEPT !.send = x] \in Service
      BY DEF Service
    <3>4. Turns(t, [s EXCEPT !.send = s.send + w])
      BY <1>1, <1>4, <3>1 DEF Turns
    <3>5. QED
      BY <1>1, <1>16, <3>1, <3>2, <3>3, <3>4
  <2>3. QED
    BY <2>1, <2>2
<1>20. Sends(t, w, b)
  BY <1>16, <1>17, <1>18, <1>19 DEF Sends
<1>21. At(t, "send") /\ cl[Peer(t)].end = "no" /\ Steady /\ UNCHANGED engineVars
  BY DEF Write, Steady
<1>22. QED
  BY <1>9, <1>20, <1>21

LEMMA TimesOutTurns ==
  ASSUME Types, NEW t \in Thread, Joined(t), WriteTimesOut(t)
  PROVE  /\ At(t, "send") /\ cl[Peer(t)].end = "no" /\ Steady /\ UNCHANGED engineVars /\ Over(t)
         /\ [cl[Peer(t)] EXCEPT !.cut = TRUE] \in Talker
         /\ Alters(Peer(t), [cl[Peer(t)] EXCEPT !.cut = TRUE])
<1>1. PICK c \in Client : c = Peer(t)
  BY DEF Joined
<1>2. PICK d \in Talker : d = cl[c]
  BY DEF Types
<1>3. [d EXCEPT !.cut = TRUE] \in Talker
  BY DEF Talker
<1>4. Alters(c, [d EXCEPT !.cut = TRUE])
  BY <1>1, <1>2 DEF WriteTimesOut, Alters, Types
<1>5. Over(t)
  BY AfterTurns DEF WriteTimesOut
<1>6. QED
  BY <1>1, <1>2, <1>3, <1>4, <1>5 DEF WriteTimesOut, Steady

(***************************************************************************)
(* A step of a service thread with its connection.                         *)
(***************************************************************************)
Goes(t) ==
  /\ Joined(t) /\ Steady /\ EngineTyped
  /\ th' \in [Thread -> Service] /\ \A u \in Thread \ {t} : th'[u] = th[u]
  /\ th'[t].at \in Serving /\ th'[t].fd = th[t].fd
  /\ th'[t].at = "send" => th'[t].send <= Len(th'[t].body)
  /\ th'[t].at \notin {"send", "close"} => th'[t].send = 0
  /\ cl' \in [Client -> Talker]
  /\ \A c \in Client : cl'[c].at = cl[c].at /\ cl'[c].end = cl[c].end

\* The first outcome of WriteLost.
LostQuietly(t) ==
  /\ At(t, "send") /\ cl[Peer(t)].end # "no" /\ th' = AfterResponse(t)
  /\ UNCHANGED <<scene, dead, fds, serverVars, cl, engineVars, file>>

LEMMA CoreJoined ==
  ASSUME Core, NEW t \in Thread, Serves(t)
  PROVE  /\ Joined(t) /\ th[t].send \in Nat /\ th[t].body \in Seq(Piece) /\ Len(th[t].body) \in Nat
         /\ th[t].at = "send" => th[t].send <= Len(th[t].body)
         /\ th[t].at \notin {"send", "close"} => th[t].send = 0
<1>1. Joined(t)
  BY DEF Core, InService, Joined
<1>2. th[t].send \in Nat /\ th[t].body \in Seq(Piece)
  BY DEF Core, Types, Service
<1>3. Len(th[t].body) \in Nat
  BY <1>2
<1>4. QED
  BY <1>1, <1>2, <1>3 DEF Core, Sending

LEMMA AnswersGoes ==
  ASSUME Core, NEW t \in Thread, Serves(t), th[t].send = 0, NEW code \in Code, Answers(t, code),
         Steady, UNCHANGED cl, EngineTyped
  PROVE  Goes(t)
<1>1. Joined(t) /\ Types
  BY CoreJoined DEF Core
<1>2. PICK s \in Service : s = th[t]
  BY <1>1 DEF Types
<1>3. PICK b \in Seq(Piece) : th'[t] = [s EXCEPT !.at = "send", !.code = code, !.body = b]
  <2>1. \E b \in Seq(Piece) : th'[t] = [th[t] EXCEPT !.at = "send", !.code = code, !.body = b]
    BY <1>1, AnswersTyped, ZenonT(60)
  <2>2. QED
    BY <1>2, <2>1
<1>4. th' \in [Thread -> Service] /\ \A u \in Thread \ {t} : th'[u] = th[u]
  BY <1>1, AnswersTyped
<1>5. /\ th'[t].at = "send" /\ th'[t].fd = s.fd /\ th'[t].send = s.send /\ th'[t].body = b
  BY <1>3 DEF Service
<1>6. Len(b) \in Nat
  OBVIOUS
<1>7. cl \in [Client -> Talker]
  BY <1>1 DEF Types
<1>8. QED
  BY <1>1, <1>2, <1>4, <1>5, <1>6, <1>7 DEF Goes, Serving

\* The record of t becomes s, and that of its client stays as it is or becomes d.
Proceeds(t, s) ==
  /\ s \in Service /\ Turns(t, s) /\ s.at \in Serving /\ s.fd = th[t].fd
  /\ s.at = "send" => s.send <= Len(s.body)
  /\ s.at \notin {"send", "close"} => s.send = 0
Replies(t, d) ==
  /\ d \in Talker /\ Alters(Peer(t), d)
  /\ d.at = cl[Peer(t)].at /\ d.end = cl[Peer(t)].end

LEMMA ProceedsGoes ==
  ASSUME Core, NEW t \in Thread, Serves(t), NEW s, Proceeds(t, s), Steady, EngineTyped,
         UNCHANGED cl \/ \E d : Replies(t, d)
  PROVE  Goes(t)
<1>1. Joined(t) /\ Types
  BY CoreJoined DEF Core
<1>2. th \in [Thread -> Service] /\ cl \in [Client -> Talker]
  BY <1>1 DEF Types
<1>3. th' \in [Thread -> Service] /\ th'[t] = s /\ \A u \in Thread \ {t} : th'[u] = th[u]
  BY <1>2, Turned DEF Proceeds
<1>4. /\ cl' \in [Client -> Talker]
      /\ \A c \in Client : cl'[c].at = cl[c].at /\ cl'[c].end = cl[c].end
  <2>1. CASE UNCHANGED cl
    BY <1>2, <2>1
  <2>2. CASE \E d : Replies(t, d)
    <3>1. PICK d : Replies(t, d)
      BY <2>2
    <3>2. PICK c \in Client : c = Peer(t)
      BY <1>1 DEF Joined
    <3>3. d \in Talker /\ Alters(c, d) /\ d.at = cl[c].at /\ d.end = cl[c].end
      BY <3>1, <3>2 DEF Replies
    <3>4. cl' \in [Client -> Talker] /\ cl'[c] = d /\ \A e \in Client \ {c} : cl'[e] = cl[e]
      BY <1>2, <3>3, Altered
    <3>5. QED
      BY <3>3, <3>4
  <2>3. QED
    BY <2>1, <2>2
<1>5. QED
  BY <1>1, <1>3, <1>4 DEF Goes, Proceeds

LEMMA EngineSame == ASSUME Types, UNCHANGED engineVars PROVE EngineTyped
BY DEF Types, engineVars, EngineTyped

LEMMA HandleGoes == ASSUME Core, NEW t \in Thread, HandlesNow(t) PROVE Goes(t)
<1>1. At(t, "handle") /\ Steady /\ UNCHANGED cl /\ EngineTyped
  BY HandleTurns DEF Core
<1>2. PICK code \in Code : Answers(t, code)
  BY HandleTurns DEF Core
<1>3. Serves(t)
  BY <1>1 DEF Serves, Serving, At
<1>4. th[t].send = 0
  BY <1>1, <1>3, CoreJoined DEF At
<1>5. QED
  BY <1>1, <1>2, <1>3, <1>4, AnswersGoes

LEMMA ResourcesGoes == ASSUME Core, NEW t \in Thread, HandleResources(t) PROVE Goes(t)
<1>1. At(t, "handle") /\ Steady /\ UNCHANGED cl /\ UNCHANGED engineVars /\ Types
  BY ResourceTurns DEF Core
<1>2. Serves(t)
  BY <1>1 DEF Serves, Serving, At
<1>3. th[t].send = 0
  BY <1>1, <1>2, CoreJoined DEF At
<1>4. EngineTyped
  BY <1>1, EngineSame
<1>5. CASE Answers(t, 500)
  BY <1>1, <1>2, <1>3, <1>4, <1>5, AnswersGoes DEF Code
<1>6. CASE /\ [th[t] EXCEPT !.at = "submit", !.i = 1] \in Service
           /\ Turns(t, [th[t] EXCEPT !.at = "submit", !.i = 1])
  <2>1. PICK s \in Service : s = th[t]
    BY <1>1 DEF Types
  <2>2. PICK x \in Service : x = [s EXCEPT !.at = "submit", !.i = 1]
    BY <1>6, <2>1
  <2>3. x.at = "submit" /\ x.fd = s.fd /\ x.send = s.send
    BY <2>2 DEF Service
  <2>4. Proceeds(t, x)
    BY <1>3, <1>6, <2>1, <2>2, <2>3 DEF Proceeds, Serving
  <2>5. QED
    BY <1>1, <1>2, <1>4, <2>4, ProceedsGoes
<1>7. QED
  BY <1>1, <1>5, <1>6, ResourceTurns

LEMMA PassedGoes ==
  ASSUME Core, NEW t \in Thread, At(t, "submit"), th' = Passed(t) \/ th' = Respond(t, 500),
         Steady, UNCHANGED cl, UNCHANGED engineVars
  PROVE  Goes(t)
<1>1. Types
  BY DEF Core
<1>2. Serves(t)
  BY <1>1 DEF Serves, Serving, At
<1>3. th[t].send = 0
  BY <1>1, <1>2, CoreJoined DEF At
<1>4. EngineTyped
  BY <1>1, EngineSame
<1>5. CASE \E code \in Code : Answers(t, code)
  BY <1>1, <1>2, <1>3, <1>4, <1>5, AnswersGoes
<1>6. CASE /\ [th[t] EXCEPT !.at = "collect"] \in Service
           /\ Turns(t, [th[t] EXCEPT !.at = "collect"])
  <2>1. PICK s \in Service : s = th[t]
    BY <1>1 DEF Types
  <2>2. PICK x \in Service : x = [s EXCEPT !.at = "collect"]
    BY <1>6, <2>1
  <2>3. x.at = "collect" /\ x.fd = s.fd /\ x.send = s.send
    BY <2>2 DEF Service
  <2>4. Proceeds(t, x)
    BY <1>3, <1>6, <2>1, <2>2, <2>3 DEF Proceeds, Serving
  <2>5. QED
    BY <1>1, <1>2, <1>4, <2>4, ProceedsGoes
<1>7. CASE th' = Respond(t, 500)
  BY <1>1, <1>5, <1>7, RespondAnswers DEF Code
<1>8. CASE th' = Passed(t)
  BY <1>1, <1>5, <1>6, <1>8, PassedTurns DEF Code
<1>9. QED
  BY <1>7, <1>8

LEMMA SubmitGoes == ASSUME Core, NEW t \in Thread, Submit(t) PROVE Goes(t)
<1>1. Serves(t) /\ Types /\ At(t, "submit")
  BY DEF Serves, Serving, At, Submit, Core
<1>2. Joined(t) /\ th[t].send = 0
  BY <1>1, CoreJoined DEF At
<1>3. /\ Steady /\ UNCHANGED cl /\ EngineTyped
      /\ [th[t] EXCEPT !.i = @ + 1, !.ids = Append(@, th[t].i)] \in Service
      /\ Turns(t, [th[t] EXCEPT !.i = @ + 1, !.ids = Append(@, th[t].i)])
  BY <1>1, <1>2, SubmitTurns
<1>4. PICK s \in Service : s = th[t]
  BY <1>1 DEF Types
<1>5. PICK x \in Service : x = [s EXCEPT !.i = s.i + 1, !.ids = Append(s.ids, s.i)]
  BY <1>3, <1>4
<1>6. x.at = s.at /\ x.fd = s.fd /\ x.send = s.send
  BY <1>5 DEF Service
<1>7. Proceeds(t, x)
  BY <1>1, <1>2, <1>3, <1>4, <1>5, <1>6 DEF Proceeds, Serving, At
<1>8. QED
  BY <1>1, <1>3, <1>7, ProceedsGoes

LEMMA CollectOneGoes == ASSUME Core, NEW t \in Thread, CollectOne(t) PROVE Goes(t)
<1>1. Serves(t) /\ Types /\ At(t, "collect")
  BY DEF Serves, Serving, At, CollectOne, Core
<1>2. Joined(t) /\ th[t].send = 0
  BY <1>1, CoreJoined DEF At
<1>3. Steady /\ UNCHANGED cl /\ EngineTyped
  BY <1>1, CollectOneTurns
<1>4. PICK s \in Service : s = th[t]
  BY <1>1 DEF Types
<1>5. PICK j \in 1..Len(th[t].ids) :
        /\ [th[t] EXCEPT !.result = Append(@, th[t].ids[j])] \in Service
        /\ Turns(t, [th[t] EXCEPT !.result = Append(@, th[t].ids[j])])
  BY <1>1, CollectOneTurns
<1>6. PICK x \in Service : x = [s EXCEPT !.result = Append(s.result, s.ids[j])]
  BY <1>4, <1>5
<1>7. x.at = s.at /\ x.fd = s.fd /\ x.send = s.send
  BY <1>6 DEF Service
<1>8. Proceeds(t, x)
  BY <1>1, <1>2, <1>4, <1>5, <1>6, <1>7 DEF Proceeds, Serving, At
<1>9. QED
  BY <1>1, <1>3, <1>8, ProceedsGoes

LEMMA CollectAllGoes == ASSUME Core, NEW t \in Thread, CollectAll(t) PROVE Goes(t)
<1>1. Serves(t) /\ Types /\ At(t, "collect")
  BY SMTT(30) DEF Serves, Serving, At, CollectAll, Core
<1>2. Joined(t) /\ th[t].send = 0
  BY <1>1, CoreJoined DEF At
<1>3. Steady /\ UNCHANGED cl /\ EngineTyped
  BY <1>1, <1>2, CollectAllTurns, EngineSame
<1>4. PICK s \in Service : s = th[t]
  BY <1>1 DEF Types
<1>5. PICK b \in Seq(Piece) :
        /\ [th[t] EXCEPT !.at = "send", !.code = 200, !.body = b] \in Service
        /\ Turns(t, [th[t] EXCEPT !.at = "send", !.code = 200, !.body = b])
  BY <1>1, <1>2, CollectAllTurns, ZenonT(60)
<1>6. PICK x \in Service : x = [s EXCEPT !.at = "send", !.code = 200, !.body = b]
  BY <1>4, <1>5
<1>7. x.at = "send" /\ x.fd = s.fd /\ x.send = s.send /\ x.body = b /\ Len(b) \in Nat
  BY <1>6 DEF Service
<1>8. Proceeds(t, x)
  BY <1>1, <1>2, <1>4, <1>5, <1>6, <1>7 DEF Proceeds, Serving, At
<1>9. QED
  BY <1>1, <1>3, <1>8, ProceedsGoes

LEMMA ReadGoes == ASSUME Core, NEW t \in Thread, Read(t) PROVE Goes(t)
<1>1. Serves(t) /\ Types /\ At(t, "read")
  BY DEF Serves, Serving, At, Read, Core
<1>2. Joined(t) /\ th[t].send = 0
  BY <1>1, CoreJoined DEF At
<1>3. Steady /\ EngineTyped
  BY <1>1, <1>2, ReadTurns, EngineSame
<1>4. PICK s \in Service : s = th[t]
  BY <1>1 DEF Types
<1>5. PICK h \in Nat, a \in {"read", "handle"}, b \in BOOLEAN :
        /\ [th[t] EXCEPT !.have = h, !.keep_alive = b, !.at = a] \in Service
        /\ Turns(t, [th[t] EXCEPT !.have = h, !.keep_alive = b, !.at = a])
  BY <1>1, <1>2, ReadTurns
<1>6. PICK x \in Service : x = [s EXCEPT !.have = h, !.keep_alive = b, !.at = a]
  BY <1>4, <1>5
<1>7. x.at = a /\ x.fd = s.fd /\ x.send = s.send
  BY <1>6 DEF Service
<1>8. Proceeds(t, x)
  BY <1>1, <1>2, <1>4, <1>5, <1>6, <1>7 DEF Proceeds, Serving, At
<1>9. PICK d \in Talker : d = cl[Peer(t)]
  BY <1>1, <1>2 DEF Types, Joined
<1>10. PICK e \in Talker : e = [d EXCEPT !.net = 0]
  BY <1>1, <1>2, <1>9, ReadTurns
<1>11. e.at = d.at /\ e.end = d.end
  BY <1>10 DEF Talker
<1>12. Replies(t, e)
  BY <1>1, <1>2, <1>9, <1>10, <1>11, ReadTurns DEF Replies
<1>13. QED
  BY <1>1, <1>3, <1>8, <1>12, ProceedsGoes

\* The thread closes the connection next, or reads the next request.
LEMMA OverProceeds ==
  ASSUME Core, NEW t \in Thread, Serves(t), Over(t)
  PROVE  \E x \in Service : Proceeds(t, x)
<1>1. Types
  BY DEF Core
<1>2. PICK s \in Service : s = th[t]
  BY <1>1 DEF Types
<1>3. Idle \in Service
  BY DEF Idle, Service, Code
<1>4. CASE /\ [Idle EXCEPT !.at = "read", !.fd = th[t].fd] \in Service
           /\ Turns(t, [Idle EXCEPT !.at = "read", !.fd = th[t].fd])
  <2>1. PICK x \in Service : x = [Idle EXCEPT !.at = "read", !.fd = s.fd]
    BY <1>2, <1>4
  <2>2. x.at = "read" /\ x.fd = s.fd /\ x.send = 0
    BY <2>1 DEF Idle
  <2>3. QED
    BY <1>2, <1>4, <2>1, <2>2 DEF Proceeds, Serving
<1>5. CASE /\ [th[t] EXCEPT !.at = "close"] \in Service
           /\ Turns(t, [th[t] EXCEPT !.at = "close"])
  <2>1. PICK x \in Service : x = [s EXCEPT !.at = "close"]
    BY <1>2, <1>5
  <2>2. x.at = "close" /\ x.fd = s.fd
    BY <2>1 DEF Service
  <2>3. QED
    BY <1>2, <1>5, <2>1, <2>2 DEF Proceeds, Serving
<1>6. QED
  BY <1>4, <1>5 DEF Over

LEMMA ReadFailsGoes == ASSUME Core, NEW t \in Thread, ReadFails(t) PROVE Goes(t)
<1>1. /\ Serves(t) /\ Types /\ Steady /\ UNCHANGED cl /\ UNCHANGED engineVars
      /\ th' = Goto(t, "close")
  BY DEF Serves, Serving, At, ReadFails, Core, Steady
<1>2. [th[t] EXCEPT !.at = "close"] \in Service /\ Turns(t, [th[t] EXCEPT !.at = "close"])
  BY <1>1, GotoTurns DEF Serving
<1>3. PICK s \in Service : s = th[t]
  BY <1>1 DEF Types
<1>4. PICK x \in Service : x = [s EXCEPT !.at = "close"]
  BY <1>2, <1>3
<1>5. x.at = "close" /\ x.fd = s.fd
  BY <1>4 DEF Service
<1>6. Proceeds(t, x)
  BY <1>2, <1>3, <1>4, <1>5 DEF Proceeds, Serving
<1>7. QED
  BY <1>1, <1>6, ProceedsGoes, EngineSame

LEMMA WriteGoes == ASSUME Core, NEW t \in Thread, Write(t) PROVE Goes(t)
<1>1. Serves(t) /\ Types /\ At(t, "send")
  BY DEF Serves, Serving, At, Write, Core
<1>2. Joined(t) /\ th[t].send <= Len(th[t].body) /\ Len(th[t].body) \in Nat
  BY <1>1, CoreJoined DEF At
<1>3. Steady /\ EngineTyped
  BY <1>1, <1>2, WriteTurns, EngineSame
<1>4. PICK s \in Service : s = th[t]
  BY <1>1 DEF Types
<1>5. PICK w \in Nat, b \in BOOLEAN : Sends(t, w, b)
  BY <1>1, <1>2, WriteTurns
<1>6. PICK d \in Talker : d = cl[Peer(t)]
  BY <1>1, <1>2 DEF Types, Joined
<1>7. PICK e \in Talker : e = [d EXCEPT !.got = d.got \o SubSeq(Response(t), 1, w), !.cut = b]
  BY <1>5, <1>6 DEF Sends
<1>8. e.at = d.at /\ e.end = d.end
  BY <1>7 DEF Talker
<1>9. Replies(t, e)
  BY <1>5, <1>6, <1>7, <1>8 DEF Replies, Sends
<1>10. CASE Over(t)
  BY <1>1, <1>3, <1>9, <1>10, OverProceeds, ProceedsGoes
<1>11. CASE /\ w < Len(th[t].body) + 1 - th[t].send
            /\ [th[t] EXCEPT !.send = @ + w] \in Service
            /\ Turns(t, [th[t] EXCEPT !.send = @ + w])
  <2>1. PICK x \in Service : x = [s EXCEPT !.send = s.send + w]
    BY <1>4, <1>11
  <2>2. x.at = s.at /\ x.fd = s.fd /\ x.send = s.send + w /\ x.body = s.body
    BY <2>1 DEF Service
  <2>3. s.send \in Nat /\ Len(s.body) \in Nat /\ w < Len(s.body) + 1 - s.send
    BY <1>2, <1>4, <1>11 DEF Service
  <2>4. s.send + w <= Len(s.body)
    BY <2>3
  <2>5. Proceeds(t, x)
    BY <1>1, <1>4, <1>11, <2>1, <2>2, <2>4 DEF Proceeds, Serving, At
  <2>6. QED
    BY <1>1, <1>3, <1>9, <2>5, ProceedsGoes
<1>12. QED
  BY <1>5, <1>10, <1>11 DEF Sends

LEMMA WriteEndsGoes ==
  ASSUME Core, NEW t \in Thread, WriteTimesOut(t) \/ LostQuietly(t)
  PROVE  Goes(t)
<1>1. Serves(t) /\ Types /\ At(t, "send")
  BY DEF Serves, Serving, At, WriteTimesOut, LostQuietly, Core
<1>2. Joined(t)
  BY <1>1, CoreJoined DEF At
<1>3. CASE LostQuietly(t)
  <2>1. Steady /\ UNCHANGED cl /\ EngineTyped
    BY <1>1, <1>3, EngineSame DEF LostQuietly, Steady
  <2>2. \E x \in Service : Proceeds(t, x)
    BY <1>1, <1>3, OverProceeds, AfterTurns DEF LostQuietly
  <2>3. QED
    BY <1>1, <2>1, <2>2, ProceedsGoes
<1>4. CASE WriteTimesOut(t)
  <2>1. Steady /\ Over(t) /\ EngineTyped
    BY <1>1, <1>2, <1>4, TimesOutTurns, EngineSame
  <2>2. PICK d \in Talker : d = cl[Peer(t)]
    BY <1>1, <1>2 DEF Types, Joined
  <2>3. PICK e \in Talker : e = [d EXCEPT !.cut = TRUE]
    BY <1>1, <1>2, <1>4, <2>2, TimesOutTurns
  <2>4. e.at = d.at /\ e.end = d.end
    BY <2>3 DEF Talker
  <2>5. Replies(t, e)
    BY <1>1, <1>2, <1>4, <2>2, <2>3, <2>4, TimesOutTurns DEF Replies
  <2>6. QED
    BY <1>1, <2>1, <2>5, ProceedsGoes, OverProceeds
<1>5. QED
  BY <1>3, <1>4

\* Nothing is opened, closed or handed over.
Open(d) == d.at = "new" \/ (d.at = "gone" /\ d.end = "no")
LEMMA SteadyCore ==
  ASSUME Core, Steady, EngineTyped, th' \in [Thread -> Service], cl' \in [Client -> Talker],
         \A u \in Thread : Serves(u)' => Serves(u) /\ th'[u].fd = th[u].fd,
         \A u \in Thread : th[u].at \in {"off", "done"} => th'[u].at = th[u].at,
         \A c \in Client : Open(cl'[c]) => Open(cl[c]),
         Rested', Sending'
  PROVE  Core'
<1> USE DEF Steady, serverVars
<1>1. Types'
  BY DEF Core, Types, EngineTyped
<1>2. MainOK'
  <2>1. MainOK
    BY DEF Core
  <2>2. QED
    BY <2>1 DEF MainOK
<1>3. Waiting'
  BY DEF Core, Waiting
<1>4. InService'
  <2>1. \A u \in Thread : Serves(u)' =>
          /\ Serves(u) /\ th'[u].fd = th[u].fd /\ Peer(u)' = Peer(u)
    BY DEF Peer
  <2>2. QED
    BY <2>1 DEF Core, InService
<1>5. Others'
  <2>1. FileOpen' <=> FileOpen
    BY DEF FileOpen
  <2>2. Listening' <=> Listening
    BY DEF Listening
  <2>3. NoShutdown' <=> NoShutdown
    BY DEF NoShutdown
  <2>4. QED
    BY <2>1, <2>2, <2>3 DEF Core, Others
<1>6. OneEach'
  BY DEF Core, OneEach, Open
<1>7. QED
  BY <1>1, <1>2, <1>3, <1>4, <1>5, <1>6 DEF Core

LEMMA GoesCore == ASSUME Core, NEW t \in Thread, Goes(t) PROVE Core'
<1>1. /\ Steady /\ EngineTyped /\ th' \in [Thread -> Service] /\ cl' \in [Client -> Talker]
      /\ Joined(t) /\ th'[t].at \in Serving /\ th'[t].fd = th[t].fd
      /\ \A u \in Thread \ {t} : th'[u] = th[u]
      /\ \A c \in Client : cl'[c].at = cl[c].at /\ cl'[c].end = cl[c].end
  BY DEF Goes
<1>2. Serves(t) /\ Serves(t)'
  BY <1>1 DEF Joined, Serves
<1>3. \A u \in Thread : Serves(u)' => Serves(u) /\ th'[u].fd = th[u].fd
  BY <1>1, <1>2 DEF Serves
<1>4. \A u \in Thread : th[u].at \in {"off", "done"} => th'[u].at = th[u].at
  BY <1>1, <1>2 DEF Serves, Serving
<1>5. \A c \in Client : Open(cl'[c]) => Open(cl[c])
  BY <1>1 DEF Open
<1>6. Rested'
  BY <1>1, <1>2 DEF Core, Rested, Serves
<1>7. Sending'
  <2>1. SUFFICES ASSUME NEW u \in Thread, Serves(u)'
                 PROVE  /\ th'[u].at = "send" => th'[u].send <= Len(th'[u].body)
                        /\ th'[u].at \notin {"send", "close"} => th'[u].send = 0
    BY DEF Sending
  <2>2. CASE u = t
    BY <2>2 DEF Goes
  <2>3. CASE u # t
    <3>1. th'[u] = th[u] /\ Serves(u)
      BY <1>1, <2>1, <2>3 DEF Serves
    <3>2. QED
      BY <3>1, CoreJoined
  <2>4. QED
    BY <2>2, <2>3
<1>8. QED
  BY <1>1, <1>3, <1>4, <1>5, <1>6, <1>7, SteadyCore

\* A thread that has no connection.
LEMMA RestCore == ASSUME Core, NEW t \in Thread, Top(t) \/ Cancelled(t) PROVE Core'
<1>1. /\ th[t].at \in {"top", "get"} /\ Types /\ Steady /\ UNCHANGED <<cl, engineVars>>
      /\ \E a \in {"get", "done"} : th' = Goto(t, a)
  BY DEF Top, Cancelled, At, Core, Steady
<1>2. PICK a \in {"get", "done"} : th' = Goto(t, a)
  BY <1>1
<1>3. [th[t] EXCEPT !.at = a] \in Service /\ Turns(t, [th[t] EXCEPT !.at = a])
  BY <1>1, <1>2, GotoTurns
<1>4. PICK x \in Service : x = [th[t] EXCEPT !.at = a]
  BY <1>3
<1>5. th' \in [Thread -> Service] /\ th'[t] = x /\ \A u \in Thread \ {t} : th'[u] = th[u]
  <2>1. th \in [Thread -> Service] /\ Turns(t, x)
    BY <1>1, <1>3, <1>4 DEF Types
  <2>2. QED
    BY <2>1, Turned
<1>6. th[t] = [Idle EXCEPT !.at = th[t].at] /\ ~Serves(t)
  BY <1>1 DEF Core, Rested, Serves, Serving
<1>7. x = [Idle EXCEPT !.at = a] /\ x.at = a
  BY <1>4, <1>6 DEF Idle
<1>8. ~Serves(t)'
  BY <1>5, <1>7 DEF Serves, Serving
<1>9. \A u \in Thread : Serves(u)' => Serves(u) /\ th'[u].fd = th[u].fd
  BY <1>5, <1>8 DEF Serves
<1>10. \A u \in Thread : th[u].at \in {"off", "done"} => th'[u].at = th[u].at
  BY <1>1, <1>5
<1>11. Rested'
  BY <1>5, <1>7 DEF Core, Rested, Serves
<1>12. Sending'
  BY <1>5, <1>8 DEF Core, Sending, Serves
<1>13. EngineTyped /\ cl' \in [Client -> Talker]
  BY <1>1, EngineSame DEF Types
<1>14. QED
  BY <1>1, <1>5, <1>9, <1>10, <1>11, <1>12, <1>13, SteadyCore

(***************************************************************************)
(* Steps of the main thread and of Start and Stop that leave the           *)
(* descriptors alone.                                                      *)
(***************************************************************************)
LEMMA PlainCore ==
  ASSUME Core, UNCHANGED <<scene, dead, fds, th, cl, file, main_socket, backlog, queue>>,
         EngineTyped, main' \in MainAt, main_running' \in BOOLEAN, closed' \in BOOLEAN,
         ctl' \in {"off", "run", "engines", "server", "join", "end", "exit"},
         fd' \in {fd, NoFd}, main' \in Early => main \in Early,
         ctl = "exit" => ctl' = "exit", MainOK'
  PROVE  Core'
<1>1. Types'
  BY DEF Core, Types, EngineTyped
<1>2. Waiting'
  BY DEF Core, Waiting
<1>3. InService'
  <2>1. \A u \in Thread : (Serves(u)' <=> Serves(u)) /\ Peer(u)' = Peer(u)
    BY DEF Peer, Serves
  <2>2. \A u \in Thread : Serves(u) => fd' # th'[u].fd
    <3>1. \A u \in Thread : Serves(u) => fd # th[u].fd /\ NoFd # th[u].fd
      BY HttpAssumption DEF Core, InService
    <3>2. QED
      BY <3>1
  <2>3. QED
    BY <2>1, <2>2 DEF Core, InService
<1>4. Others'
  <2>1. FileOpen' <=> FileOpen
    BY DEF FileOpen
  <2>2. Listening' <=> Listening
    BY DEF Listening
  <2>3. NoShutdown' <=> NoShutdown
    BY DEF NoShutdown
  <2>4. QED
    BY <2>1, <2>2, <2>3 DEF Core, Others
<1>5. OneEach'
  BY DEF Core, OneEach
<1>6. Rested' /\ Sending'
  BY DEF Core, Rested, Sending, Serves
<1>7. QED
  BY <1>1, <1>2, <1>3, <1>4, <1>5, <1>6 DEF Core

PlainStep ==
  Start \/ Prepare \/ SetupFails \/ Loop \/ AcceptFails \/ AcceptedLate \/ JoinThreads
  \/ StopEngines \/ StopJoin \/ Finish

LEMMA PlainStepCore == ASSUME Core, PlainStep PROVE Core'
<1> USE DEF engineVars, serverVars
<1>1. Types /\ MainOK
  BY DEF Core
<1>2. UNCHANGED engineVars => EngineTyped
  BY <1>1, EngineSame
<1>3. \A u \in Thread : UNCHANGED th => (Serves(u)' <=> Serves(u))
  BY DEF Serves
<1>4. CASE Start
  <2>1. MainOK'
    BY <1>1, <1>3, <1>4 DEF Start, MainOK, Setting, Early
  <2>2. QED
    BY <1>1, <1>2, <1>4, <2>1, PlainCore DEF Start, Types, MainOK, MainAt, Setting, Early
<1>5. CASE Prepare
  <2>1. MainOK'
    BY <1>1, <1>3, <1>5 DEF Prepare, MainOK, Setting, Early
  <2>2. QED
    BY <1>1, <1>2, <1>5, <2>1, PlainCore DEF Prepare, Types, MainAt, Setting, Early
<1>6. CASE SetupFails
  <2>1. MainOK'
    BY <1>1, <1>3, <1>6 DEF SetupFails, MainOK, Setting, Early
  <2>2. QED
    BY <1>1, <1>2, <1>6, <2>1, PlainCore DEF SetupFails, Types, MainAt, Setting, Early
<1>7. CASE Loop
  <2>1. MainOK'
    BY <1>1, <1>3, <1>7 DEF Loop, MainOK, Setting, Early
  <2>2. QED
    BY <1>1, <1>2, <1>7, <2>1, PlainCore DEF Loop, Types, MainAt, Setting, Early
<1>8. CASE AcceptFails
  <2>1. MainOK'
    BY <1>1, <1>3, <1>8 DEF AcceptFails, MainOK, Setting, Early
  <2>2. QED
    BY <1>1, <1>2, <1>8, <2>1, PlainCore DEF AcceptFails, Types, MainAt, Setting, Early
<1>9. CASE AcceptedLate
  <2>1. MainOK'
    BY <1>1, <1>3, <1>9 DEF AcceptedLate, MainOK, Setting, Early
  <2>2. QED
    BY <1>1, <1>2, <1>9, <2>1, PlainCore DEF AcceptedLate, Types, MainAt, Setting, Early
<1>10. CASE JoinThreads
  <2>1. \A u \in Thread : th[u].at \in {"off", "done"}
    BY <1>1, <1>10 DEF JoinThreads, MainOK, At
  <2>2. MainOK'
    BY <1>1, <1>3, <1>10, <2>1 DEF JoinThreads, MainOK, Setting, Early
  <2>3. QED
    BY <1>1, <1>2, <1>10, <2>2, PlainCore DEF JoinThreads, Types, MainAt, Setting, Early
<1>11. CASE StopEngines
  <2>1. MainOK'
    BY <1>1, <1>3, <1>11 DEF StopEngines, MainOK, Setting, Early
  <2>2. EngineTyped
    BY <1>1, <1>11 DEF StopEngines, StopEngine, EngineTyped, Types
  <2>3. QED
    BY <1>1, <1>11, <2>1, <2>2, PlainCore DEF StopEngines, Types, MainAt, Setting, Early
<1>12. CASE StopJoin
  <2>1. MainOK'
    BY <1>1, <1>3, <1>12 DEF StopJoin, MainOK, Setting, Early
  <2>2. QED
    BY <1>1, <1>2, <1>12, <2>1, PlainCore DEF StopJoin, Types, MainAt, Setting, Early
<1>13. CASE Finish
  <2>1. MainOK'
    BY <1>1, <1>3, <1>13 DEF Finish, MainOK
  <2>2. EngineTyped
    BY <1>1, <1>13 DEF Finish, EngineTyped, Types
  <2>3. QED
    BY <1>1, <1>13, <2>1, <2>2, PlainCore DEF Finish, Types
<1>14. QED
  BY <1>4, <1>5, <1>6, <1>7, <1>8, <1>9, <1>10, <1>11, <1>12, <1>13 DEF PlainStep

(***************************************************************************)
(* The clients.                                                            *)
(***************************************************************************)
LEMMA RequestTyped ==
  ASSUME Types, NEW c \in Client
  PROVE  /\ scene.reqs[c] \in Seq(Request) /\ Len(scene.reqs[c]) \in Nat
         /\ \A k \in 1..Len(scene.reqs[c]) :
              /\ scene.reqs[c][k] \in Request
              /\ scene.reqs[c][k].body \in Seq({"ok", "bad", "0", "1"})
              /\ Len(scene.reqs[c][k].body) \in Nat /\ All(scene.reqs[c], k) \in Nat
<1>1. scene.reqs \in [Client -> Seq(Request)]
  BY HttpAssumption DEF Types
<1>2. scene.reqs[c] \in Seq(Request)
  BY <1>1
<1>3. Len(scene.reqs[c]) \in Nat /\ \A k \in 1..Len(scene.reqs[c]) : scene.reqs[c][k] \in Request
  BY <1>2
<1>4. \A r \in Request : r.body \in Seq({"ok", "bad", "0", "1"})
  BY DEF Request
<1>5. \A r \in Request : Len(r.body) \in Nat /\ 2 + Len(r.body) \in Nat
  BY <1>4
<1>6. QED
  BY <1>2, <1>3, <1>4, <1>5 DEF All

LEMMA SendAlters ==
  ASSUME Types, NEW c \in Client, Send(c)
  PROVE  /\ Steady /\ UNCHANGED <<th, engineVars>> /\ cl[c].at = "open"
         /\ cl[c].k \in 1..Len(scene.reqs[c])
         /\ \E n \in Nat \ {0}, e \in Talker :
              /\ cl[c].sent + n <= All(scene.reqs[c], cl[c].k)
              /\ e = [cl[c] EXCEPT !.sent = cl[c].sent + n, !.net = cl[c].net + n]
              /\ Alters(c, e)
<1>1. PICK d \in Talker : d = cl[c]
  BY DEF Types
<1>2. d.sent \in Nat /\ d.net \in Nat /\ d.k \in Nat \ {0}
  BY DEF Talker
<1>3. d.k \in 1..Len(scene.reqs[c])
  BY <1>1, <1>2, RequestTyped DEF Send, HasRequest
<1>4. PICK x \in Nat : x = All(scene.reqs[c], d.k) /\ x = Units(c)
  BY <1>1, <1>3, RequestTyped DEF Units, RequestOf, All
<1>5. PICK n \in 1..x - d.sent : cl' = [cl EXCEPT ![c].sent = @ + n, ![c].net = @ + n]
  BY <1>1, <1>4 DEF Send
<1>6. n \in Nat \ {0} /\ d.sent + n <= x /\ d.sent + n \in Nat /\ d.net + n \in Nat
  BY <1>2, <1>4, <1>5
<1>7. PICK e \in Talker : e = [d EXCEPT !.sent = d.sent + n, !.net = d.net + n]
  BY <1>6 DEF Talker
<1>8. Alters(c, e)
  BY <1>1, <1>5, <1>7 DEF Alters, Types
<1>9. QED
  BY <1>1, <1>3, <1>4, <1>6, <1>7, <1>8 DEF Send, Steady

LEMMA NextAlters ==
  ASSUME Types, NEW c \in Client, NextRequest(c)
  PROVE  /\ Steady /\ UNCHANGED <<th, engineVars>> /\ cl[c].at = "open"
         /\ Answered(c) /\ cl[c].got[1].keep
         /\ \E e \in Talker :
              /\ e = [cl[c] EXCEPT !.k = cl[c].k + 1, !.sent = 0, !.got = <<>>, !.cut = FALSE]
              /\ Alters(c, e)
<1>1. PICK d \in Talker : d = cl[c]
  BY DEF Types
<1>2. d.k + 1 \in Nat \ {0}
  BY DEF Talker
<1>3. PICK g \in Seq(Piece \cup Header) : g = <<>>
  <2>1. \A S : <<>> \in Seq(S)
    OBVIOUS
  <2>2. QED
    BY <2>1, Zenon
<1>4. PICK e \in Talker : e = [d EXCEPT !.k = d.k + 1, !.sent = 0, !.got = g, !.cut = FALSE]
  BY <1>2 DEF Talker
<1>5. Alters(c, e)
  BY <1>1, <1>3, <1>4 DEF NextRequest, Alters, Types
<1>6. QED
  BY <1>1, <1>3, <1>4, <1>5 DEF NextRequest, Steady

LEMMA HangUpAlters ==
  ASSUME Types, NEW c \in Client, HangUp(c)
  PROVE  /\ Steady /\ UNCHANGED <<th, engineVars>> /\ cl[c].at = "open"
         /\ \E e \in Talker :
              /\ e.at = "gone" /\ e.k = cl[c].k /\ e.sent = 0 /\ e.net = cl[c].net
              /\ e.end # "no" /\ e.got = <<>> /\ ~e.cut
              /\ Alters(c, e)
<1>1. PICK d \in Talker : d = cl[c]
  BY DEF Types
<1>2. PICK end \in {"fin", "reset"} :
        cl' = [cl EXCEPT ![c] = [Gone(c) EXCEPT !.net = cl[c].net, !.end = end]]
  BY DEF HangUp
<1>3. PICK g \in Talker : g = Gone(c)
  BY GoneTyped
<1>4. g.at = "gone" /\ g.k = d.k /\ g.sent = 0 /\ g.got = <<>> /\ ~g.cut
  BY <1>1, <1>3 DEF Gone, Talker
<1>5. PICK e \in Talker : e = [g EXCEPT !.net = d.net, !.end = end]
  BY <1>2 DEF Talker
<1>6. /\ e.at = g.at /\ e.k = g.k /\ e.sent = g.sent /\ e.got = g.got /\ e.cut = g.cut
      /\ e.net = d.net /\ e.end = end
  BY <1>5 DEF Talker
<1>7. Alters(c, e)
  BY <1>1, <1>2, <1>3, <1>5 DEF Alters
<1>8. QED
  BY <1>1, <1>2, <1>4, <1>6, <1>7 DEF HangUp, Steady

LEMMA ClientCore ==
  ASSUME Core, NEW c \in Client, Send(c) \/ NextRequest(c) \/ HangUp(c)
  PROVE  Core'
<1>1. Types /\ cl \in [Client -> Talker]
  BY DEF Core, Types
<1>2. Steady /\ UNCHANGED <<th, engineVars>>
  BY <1>1, SendAlters, NextAlters, HangUpAlters
<1>3. PICK e \in Talker : Alters(c, e) /\ (Open(e) => Open(cl[c]))
  <2>1. PICK d \in Talker : d = cl[c]
    BY <1>1
  <2>2. CASE Send(c)
    <3>1. PICK n \in Nat, e \in Talker :
            e = [d EXCEPT !.sent = d.sent + n, !.net = d.net + n] /\ Alters(c, e)
      BY <1>1, <2>1, <2>2, SendAlters
    <3>2. e.at = d.at /\ e.end = d.end
      BY <3>1 DEF Talker
    <3>3. QED
      BY <2>1, <3>1, <3>2 DEF Open
  <2>3. CASE NextRequest(c)
    <3>1. PICK e \in Talker : /\ Alters(c, e)
            /\ e = [d EXCEPT !.k = d.k + 1, !.sent = 0, !.got = <<>>, !.cut = FALSE]
      BY <1>1, <2>1, <2>3, NextAlters
    <3>2. e.at = d.at /\ e.end = d.end
      BY <3>1 DEF Talker
    <3>3. QED
      BY <2>1, <3>1, <3>2 DEF Open
  <2>4. CASE HangUp(c)
    <3>1. PICK e \in Talker : e.at = "gone" /\ e.end # "no" /\ Alters(c, e)
      BY <1>1, <2>4, HangUpAlters
    <3>2. ~Open(e)
      BY <3>1 DEF Open
    <3>3. QED
      BY <3>1, <3>2
  <2>5. QED
    BY <2>2, <2>3, <2>4
<1>4. cl' \in [Client -> Talker] /\ cl'[c] = e /\ \A d \in Client \ {c} : cl'[d] = cl[d]
  BY <1>1, <1>3, Altered
<1>5. \A d \in Client : Open(cl'[d]) => Open(cl[d])
  BY <1>3, <1>4
<1>6. EngineTyped /\ th' \in [Thread -> Service]
  BY <1>1, <1>2, EngineSame DEF Types
<1>7. \A u \in Thread : (Serves(u)' <=> Serves(u)) /\ th'[u].fd = th[u].fd
  BY <1>2 DEF Serves
<1>8. Rested' /\ Sending'
  BY <1>2 DEF Core, Rested, Sending, Serves
<1>9. QED
  BY <1>2, <1>4, <1>5, <1>6, <1>7, <1>8, SteadyCore

(***************************************************************************)
(* Descriptors that are no connections are opened and closed.              *)
(***************************************************************************)
LEMMA Numbers == {"free", "listen", "file"} \cap Client = {} /\ NoFd \notin Fd /\ -1 \notin Fd
<1>1. -1 \notin Nat
  OBVIOUS
<1>2. QED
  BY <1>1, HttpAssumption, Zenon

LEMMA KeptCore ==
  ASSUME Core,
         \A n \in Fd : fds'[n] = fds[n] \/ (fds[n] \notin Client /\ fds'[n] \notin Client),
         UNCHANGED <<queue, fd>>, backlog' \in {backlog, <<>>},
         \A u \in Thread : Serves(u)' => Serves(u) /\ th'[u].fd = th[u].fd,
         \A c \in Client : \/ Open(cl'[c]) => Open(cl[c])
                           \/ backlog' = <<>> /\ \E j \in 1..Len(backlog) : backlog[j] = c
  PROVE  Waiting' /\ InService' /\ OneEach'
<1>1. queue \in Seq(Fd) /\ fd \in Fd \cup {NoFd} /\ backlog \in Seq(Client)
  BY DEF Core, Types
<1>2. \A n \in Fd : fds[n] \in Client => fds'[n] = fds[n]
  OBVIOUS
<1>3. \A n \in Fd : fds'[n] \in Client => fds'[n] = fds[n]
  OBVIOUS
<1>4. Waiting'
  <2>1. \A j \in 1..Len(queue) : queue[j] \in Fd
    BY <1>1
  <2>2. fd # NoFd => fd \in Fd
    BY <1>1
  <2>3. QED
    BY <1>2, <2>1, <2>2 DEF Core, Waiting
<1>5. InService'
  <2>1. \A u \in Thread : Serves(u)' =>
          /\ Serves(u) /\ th'[u].fd = th[u].fd /\ Peer(u)' = Peer(u)
    <3>1. SUFFICES ASSUME NEW u \in Thread, Serves(u)'
                   PROVE  Serves(u) /\ th'[u].fd = th[u].fd /\ Peer(u)' = Peer(u)
      OBVIOUS
    <3>2. Serves(u) /\ th'[u].fd = th[u].fd /\ th[u].fd \in Fd /\ fds[th[u].fd] \in Client
      BY <3>1 DEF Core, InService, Peer
    <3>3. QED
      BY <1>2, <3>2 DEF Peer
  <2>2. QED
    BY <2>1 DEF Core, InService
<1>6. OneEach'
  <2>0. /\ \A m, n \in Fd : fds[n] \in Client /\ fds[m] = fds[n] => m = n
        /\ \A j, k \in 1..Len(backlog) : backlog[j] = backlog[k] => j = k
        /\ \A n \in Fd, j \in 1..Len(backlog) : fds[n] # backlog[j]
        /\ \A c \in Client : Open(cl[c]) =>
             (\A n \in Fd : fds[n] # c) /\ (\A j \in 1..Len(backlog) : backlog[j] # c)
    BY DEF Core, OneEach, Open
  <2>1. 1..Len(<<>>) = {}
    OBVIOUS
  <2>2. \A j \in 1..Len(backlog') : j \in 1..Len(backlog) /\ backlog'[j] = backlog[j]
    BY <2>1
  <2>3. \A j \in 1..Len(backlog) : backlog[j] \in Client
    BY <1>1
  <2>4. \A m, n \in Fd : fds'[n] \in Client /\ fds'[m] = fds'[n] => m = n
    BY <1>3, <2>0
  <2>5. \A j, k \in 1..Len(backlog') : backlog'[j] = backlog'[k] => j = k
    BY <2>0, <2>2
  <2>6. \A n \in Fd, j \in 1..Len(backlog') : fds'[n] # backlog'[j]
    BY <1>3, <2>0, <2>2, <2>3
  <2>7. \A c \in Client : Open(cl'[c]) =>
          (\A n \in Fd : fds'[n] # c) /\ (\A j \in 1..Len(backlog') : backlog'[j] # c)
    <3>1. SUFFICES ASSUME NEW c \in Client, Open(cl'[c])
                   PROVE  (\A n \in Fd : fds'[n] # c) /\ (\A j \in 1..Len(backlog') : backlog'[j] # c)
      OBVIOUS
    <3>2. CASE Open(cl[c])
      BY <1>3, <2>0, <2>2, <3>2
    <3>3. CASE backlog' = <<>> /\ \E j \in 1..Len(backlog) : backlog[j] = c
      BY <1>3, <2>0, <2>1, <3>3
    <3>4. QED
      BY <3>1, <3>2, <3>3
  <2>8. QED
    BY <2>4, <2>5, <2>6, <2>7 DEF OneEach, Open
<1>7. QED
  BY <1>4, <1>5, <1>6

LEMMA OpenSocketCore == ASSUME Core, OpenSocket PROVE Core'
<1>1. Types /\ MainOK /\ Others /\ main = "socket" /\ HasFree
  BY DEF Core, OpenSocket
<1>2. PICK n \in Fd : n = FirstFree /\ fds[n] = "free"
  BY <1>1, FreeTaken
<1>3. /\ fds' = [fds EXCEPT ![n] = "listen"] /\ main_socket' = n /\ main' = "bind"
      /\ UNCHANGED <<scene, dead, main_running, fd, backlog, queue, closed, th, cl, ctl,
                     engineVars, file>>
  BY <1>2 DEF OpenSocket
<1>4. Types'
  BY <1>1, <1>3 DEF Types, engineVars, MainAt, Setting, Early
<1>5. /\ {"free", "listen", "file"} \cap Client = {} /\ NoFd \notin Fd
      /\ fds \in [Fd -> Client \cup {"free", "listen", "file"}]
  BY <1>1, HttpAssumption DEF Types
<1>6. \A m \in Fd : fds'[m] = fds[m] \/ (fds[m] \notin Client /\ fds'[m] \notin Client)
  BY <1>2, <1>3, <1>5
<1>7. \A u \in Thread : (Serves(u)' <=> Serves(u)) /\ th'[u] = th[u]
  BY <1>3 DEF Serves
<1>8. Waiting' /\ InService' /\ OneEach'
  BY <1>3, <1>6, <1>7, KeptCore
<1>9. MainOK'
  <2>1. \A m \in Fd : fds'[m] \notin Client
    BY <1>1, <1>6 DEF MainOK, Setting, Early
  <2>2. QED
    BY <1>1, <1>3, <1>7, <2>1 DEF MainOK, Setting, Early
<1>10. Others'
  <2>1. FileOpen
    BY <1>1 DEF Others, Early
  <2>2. FileOpen'
    BY <1>2, <1>3, <1>5, <2>1 DEF FileOpen
  <2>3. Listening'
    BY <1>3, <1>5 DEF Listening
  <2>4. QED
    BY <1>3, <1>5, <2>2, <2>3 DEF Others, FileOpen, Listening
<1>11. Rested' /\ Sending'
  BY <1>7 DEF Core, Rested, Sending
<1>12. QED
  BY <1>4, <1>8, <1>9, <1>10, <1>11 DEF Core

LEMMA OpenFileCore == ASSUME Core, OpenFile PROVE Core'
<1>1. Types /\ MainOK /\ Others /\ ctl # "exit" /\ HasFree
  BY DEF Core, OpenFile
<1>2. PICK n \in Fd : n = FirstFree /\ fds[n] = "free"
  BY <1>1, FreeTaken
<1>3. /\ fds' = [fds EXCEPT ![n] = "file"] /\ file' = n
      /\ UNCHANGED <<scene, dead, main_running, main_socket, main, fd, backlog, queue, closed,
                     ctl, th, cl, engineVars>>
  BY <1>2 DEF OpenFile, serverVars
<1>4. Types'
  BY <1>1, <1>3 DEF Types, engineVars
<1>5. /\ {"free", "listen", "file"} \cap Client = {} /\ NoFd \notin Fd
      /\ fds \in [Fd -> Client \cup {"free", "listen", "file"}]
  BY <1>1, HttpAssumption DEF Types
<1>6. \A m \in Fd : fds'[m] = fds[m] \/ (fds[m] \notin Client /\ fds'[m] \notin Client)
  BY <1>2, <1>3, <1>5
<1>7. \A u \in Thread : (Serves(u)' <=> Serves(u)) /\ th'[u] = th[u]
  BY <1>3 DEF Serves
<1>8. Waiting' /\ InService' /\ OneEach'
  BY <1>3, <1>6, <1>7, KeptCore
<1>9. MainOK'
  <2>1. main \in Setting => \A m \in Fd : fds'[m] \notin Client
    BY <1>1, <1>6 DEF MainOK
  <2>2. QED
    BY <1>1, <1>3, <1>7, <2>1 DEF MainOK
<1>10. Others'
  <2>1. FileOpen'
    BY <1>3, <1>5 DEF FileOpen
  <2>2. Listening => Listening'
    BY <1>2, <1>3, <1>5 DEF Listening
  <2>3. NoShutdown' <=> NoShutdown
    BY <1>3 DEF NoShutdown
  <2>4. main_socket \in Fd => fds'[main_socket] \notin Client
    BY <1>1, <1>6 DEF Others
  <2>5. fds'[file'] \notin Client
    BY <1>3, <1>5
  <2>6. QED
    BY <1>1, <1>3, <2>1, <2>2, <2>3, <2>4, <2>5 DEF Others
<1>11. Rested' /\ Sending'
  BY <1>7 DEF Core, Rested, Sending
<1>12. QED
  BY <1>4, <1>8, <1>9, <1>10, <1>11 DEF Core

LEMMA CloseFileCore == ASSUME Core, CloseFile PROVE Core'
<1>1. Types /\ MainOK /\ Others /\ ctl # "exit"
  BY DEF Core, CloseFile
<1>2. PICK n \in Fd : n = file
  BY DEF CloseFile
<1>3. /\ fds' = [fds EXCEPT ![n] = "free"] /\ file' = -1
      /\ UNCHANGED <<scene, dead, main_running, main_socket, main, fd, backlog, queue, closed,
                     ctl, th, cl, engineVars>>
  BY <1>2 DEF CloseFile, serverVars
<1>4. Types'
  BY <1>1, <1>3 DEF Types, engineVars
<1>5. /\ {"free", "listen", "file"} \cap Client = {} /\ NoFd \notin Fd /\ -1 \notin Fd
      /\ fds \in [Fd -> Client \cup {"free", "listen", "file"}]
  BY <1>1, Numbers DEF Types
<1>6. \A m \in Fd : fds'[m] = fds[m] \/ (fds[m] \notin Client /\ fds'[m] \notin Client)
  BY <1>1, <1>2, <1>3, <1>5 DEF Others
<1>7. \A u \in Thread : (Serves(u)' <=> Serves(u)) /\ th'[u] = th[u]
  BY <1>3 DEF Serves
<1>8. Waiting' /\ InService' /\ OneEach'
  BY <1>3, <1>6, <1>7, KeptCore
<1>9. MainOK'
  <2>1. main \in Setting => \A m \in Fd : fds'[m] \notin Client
    BY <1>1, <1>6 DEF MainOK
  <2>2. QED
    BY <1>1, <1>3, <1>7, <2>1 DEF MainOK
<1>10. Others'
  <2>1. FileOpen' /\ ~(file' \in Fd)
    BY <1>3, <1>5 DEF FileOpen
  <2>2. Listening /\ FileOpen => Listening'
    BY <1>2, <1>3, <1>5 DEF Listening, FileOpen
  <2>3. NoShutdown' <=> NoShutdown
    BY <1>3 DEF NoShutdown
  <2>4. main_socket \in Fd => fds'[main_socket] \notin Client
    BY <1>1, <1>6 DEF Others
  <2>5. QED
    BY <1>1, <1>3, <2>1, <2>2, <2>3, <2>4 DEF Others
<1>11. Rested' /\ Sending'
  BY <1>7 DEF Core, Rested, Sending
<1>12. QED
  BY <1>4, <1>8, <1>9, <1>10, <1>11 DEF Core

\* The listening socket is closed, or nothing, or what is no connection.
LEMMA ClosesKept ==
  ASSUME Core, Closes(main_socket), UNCHANGED <<queue, fd>>,
         \A u \in Thread : Serves(u)' => Serves(u) /\ th'[u].fd = th[u].fd
  PROVE  /\ Waiting' /\ InService' /\ OneEach' /\ backlog' \in Seq(Client)
         /\ backlog = <<>> => backlog' = <<>>
         /\ \A n \in Fd : fds'[n] = fds[n] \/ (fds[n] \notin Client /\ fds'[n] \notin Client)
         /\ NoShutdown /\ ctl # "exit" /\ UNCHANGED file => FileOpen'
<1>1. Types /\ Others
  BY DEF Core
<1>2. /\ {"free", "listen", "file"} \cap Client = {} /\ NoFd \notin Fd
      /\ fds \in [Fd -> Client \cup {"free", "listen", "file"}]
  BY <1>1, Numbers DEF Types
<1>3. \A n \in Fd : fds'[n] = fds[n] \/ (fds[n] \notin Client /\ fds'[n] \notin Client)
  BY <1>1, <1>2 DEF Closes, Others
<1>4. \A c \in Client : \/ Open(cl'[c]) => Open(cl[c])
                        \/ backlog' = <<>> /\ \E j \in 1..Len(backlog) : backlog[j] = c
  BY DEF Closes
<1>5. backlog' \in {backlog, <<>>}
  BY DEF Closes
<1>6. Waiting' /\ InService' /\ OneEach'
  BY <1>3, <1>4, <1>5, KeptCore
<1>7. backlog' \in Seq(Client)
  <2>1. <<>> \in Seq(Client) /\ backlog \in Seq(Client)
    BY <1>1 DEF Types
  <2>2. QED
    BY <1>5, <2>1
<1>8. ASSUME NoShutdown, ctl # "exit", UNCHANGED file PROVE FileOpen'
  <2>1. FileOpen /\ (main_socket \in Fd => fds[main_socket] = "listen")
    BY <1>1, <1>8 DEF Others, Listening
  <2>2. QED
    BY <1>8, <2>1 DEF Closes, FileOpen
<1>9. QED
  BY <1>3, <1>5, <1>6, <1>7, <1>8

LEMMA CloseMainCore == ASSUME Core, CloseMain PROVE Core'
<1>1. Types /\ MainOK /\ Others /\ Closes(main_socket)
  BY CloseFdCloses DEF Core, CloseMain
<1>2. /\ main = "close" /\ main' = "stop" /\ main_socket' = NoFd /\ main_running' = FALSE
      /\ UNCHANGED <<scene, dead, fd, queue, closed, th, ctl, engineVars, file>>
  BY DEF CloseMain
<1>3. \A u \in Thread : (Serves(u)' <=> Serves(u)) /\ th'[u] = th[u]
  BY <1>2 DEF Serves
<1>4. /\ Waiting' /\ InService' /\ OneEach' /\ backlog' \in Seq(Client)
      /\ \A n \in Fd : fds'[n] = fds[n] \/ (fds[n] \notin Client /\ fds'[n] \notin Client)
      /\ NoShutdown /\ ctl # "exit" => FileOpen'
  BY <1>1, <1>2, <1>3, ClosesKept
<1>5. Types'
  BY <1>1, <1>2, <1>4 DEF Types, Closes, engineVars, MainAt
<1>6. MainOK'
  BY <1>1, <1>2, <1>3 DEF MainOK, Setting, Early
<1>7. Others'
  <2>1. ~Listening' /\ ctl # "exit"
    BY <1>1, <1>2, Numbers DEF Listening, MainOK
  <2>2. NoShutdown' <=> NoShutdown
    BY <1>2 DEF NoShutdown
  <2>3. file \in Fd => fds'[file] \notin Client
    BY <1>1, <1>4 DEF Others
  <2>4. QED
    BY <1>2, <1>4, <2>1, <2>2, <2>3, Numbers DEF Others, Early
<1>8. Rested' /\ Sending'
  BY <1>3 DEF Core, Rested, Sending
<1>9. QED
  BY <1>4, <1>5, <1>6, <1>7, <1>8 DEF Core

LEMMA StopServerCore == ASSUME Core, StopServer PROVE Core'
<1>1. Types /\ MainOK /\ Others
  BY DEF Core
<1>2. /\ ctl = "server" /\ ctl' = "join" /\ main_running' = FALSE
      /\ UNCHANGED <<scene, dead, main, fd, queue, closed, th, engineVars, file>>
  BY DEF StopServer
<1>3. \A u \in Thread : (Serves(u)' <=> Serves(u)) /\ th'[u] = th[u]
  BY <1>2 DEF Serves
<1>4. CASE main_running
  <2>1. Closes(main_socket) /\ main_socket' = NoFd
    BY <1>1, <1>4, CloseFdCloses DEF StopServer
  <2>2. /\ Waiting' /\ InService' /\ OneEach' /\ backlog' \in Seq(Client)
        /\ backlog = <<>> => backlog' = <<>>
        /\ \A n \in Fd : fds'[n] = fds[n] \/ (fds[n] \notin Client /\ fds'[n] \notin Client)
        /\ NoShutdown /\ ctl # "exit" => FileOpen'
    BY <1>2, <1>3, <2>1, ClosesKept
  <2>3. Types'
    BY <1>1, <1>2, <2>1, <2>2 DEF Types, Closes, engineVars
  <2>4. MainOK'
    <3>1. main \in Setting => \A n \in Fd : fds'[n] \notin Client
      BY <1>1, <2>2 DEF MainOK
    <3>2. QED
      BY <1>1, <1>2, <1>3, <2>1, <2>2, <3>1 DEF MainOK
  <2>5. Others'
    <3>1. ~Listening'
      BY <2>1, Numbers DEF Listening
    <3>2. NoShutdown' <=> NoShutdown
      BY <1>2 DEF NoShutdown
    <3>3. file \in Fd => fds'[file] \notin Client
      BY <1>1, <2>2 DEF Others
    <3>4. ASSUME main \in Early PROVE FileOpen'
      <4>1. main_socket = NoFd /\ FileOpen
        BY <1>1, <3>4 DEF MainOK, Others
      <4>2. \A n \in Fd : fds'[n] = fds[n]
        BY <2>1, <4>1, Numbers DEF Closes
      <4>3. QED
        BY <1>2, <4>1, <4>2 DEF FileOpen
    <3>5. QED
      BY <1>2, <2>1, <2>2, <3>1, <3>2, <3>3, <3>4, Numbers DEF Others
  <2>6. Rested' /\ Sending'
    BY <1>3 DEF Core, Rested, Sending
  <2>7. QED
    BY <2>2, <2>3, <2>4, <2>5, <2>6 DEF Core
<1>5. CASE ~main_running
  <2>1. UNCHANGED <<main_socket, fds, cl, backlog>>
    BY <1>5 DEF StopServer
  <2>2. MainOK'
    BY <1>1, <1>2, <1>3, <2>1 DEF MainOK
  <2>3. QED
    BY <1>1, <1>2, <2>1, <2>2, PlainCore, EngineSame DEF Types
<1>6. QED
  BY <1>4, <1>5

\* SHUTDOWN: the request is one of the client's.
LEMMA ShutdownCore ==
  ASSUME Core, NEW t \in Thread, HandleShutdown(t),
         cl[Peer(t)].k \in 1..Len(scene.reqs[Peer(t)])
  PROVE  Core' /\ \E code \in Code : Answers(t, code)
<1>1. Types /\ MainOK /\ Others /\ Closes(main_socket)
  BY CloseFdCloses DEF Core, HandleShutdown
<1>2. /\ At(t, "handle") /\ Ask(t).m = "SHUTDOWN" /\ main_running' = FALSE
      /\ th' = RespondLine(t, 200)
      /\ UNCHANGED <<scene, dead, main_socket, main, fd, queue, closed, ctl, engineVars, file>>
  BY DEF HandleShutdown, Handles
<1>3. Serves(t)
  BY <1>2 DEF Serves, Serving, At
<1>4. Joined(t) /\ th[t].send = 0
  BY <1>2, <1>3, CoreJoined DEF At
<1>5. PICK code \in Code : code = 200 /\ Answers(t, code)
  BY <1>1, <1>2, RespondAnswers DEF Code
<1>6. PICK s \in Service : s = th[t]
  BY <1>1 DEF Types
<1>7. th' \in [Thread -> Service] /\ \A u \in Thread \ {t} : th'[u] = th[u]
  BY <1>1, <1>4, <1>5, AnswersTyped, ZenonT(60)
<1>8. PICK b \in Seq(Piece) : th'[t] = [s EXCEPT !.at = "send", !.code = code, !.body = b]
  <2>1. \E b \in Seq(Piece) : th'[t] = [th[t] EXCEPT !.at = "send", !.code = code, !.body = b]
    <3>1. Types /\ Joined(t) /\ Answers(t, code)
      BY <1>1, <1>4, <1>5
    <3>2. QED
      BY <3>1, AnswersTyped, ZenonT(60)
  <2>2. QED
    BY <1>6, <2>1
<1>9. th'[t].at = "send" /\ th'[t].fd = s.fd /\ th'[t].send = 0 /\ th'[t].body = b /\ Len(b) \in Nat
  BY <1>4, <1>6, <1>8 DEF Service
<1>10. \A u \in Thread : (Serves(u)' <=> Serves(u)) /\ th'[u].fd = th[u].fd
  BY <1>3, <1>6, <1>7, <1>9 DEF Serves, Serving
<1>11. /\ Waiting' /\ InService' /\ OneEach' /\ backlog' \in Seq(Client)
       /\ backlog = <<>> => backlog' = <<>>
       /\ \A n \in Fd : fds'[n] = fds[n] \/ (fds[n] \notin Client /\ fds'[n] \notin Client)
  BY <1>1, <1>2, <1>10, ClosesKept
<1>12. Types'
  BY <1>1, <1>2, <1>7, <1>11 DEF Types, Closes, engineVars
<1>13. main \notin Setting \cup {"done"} /\ t \in scene.threads
  BY <1>1, <1>3 DEF MainOK, Serves, Serving
<1>14. MainOK'
  BY <1>1, <1>2, <1>7, <1>10, <1>13 DEF MainOK, Setting, Early
<1>15. Others'
  <2>1. ~NoShutdown'
    <3>1. PICK c \in Client : c = Peer(t)
      BY <1>4 DEF Joined
    <3>2. scene'.reqs[c][cl[c].k].m = "SHUTDOWN" /\ cl[c].k \in 1..Len(scene'.reqs[c])
      BY <1>2, <3>1 DEF Ask, RequestOf
    <3>3. QED
      BY <3>2 DEF NoShutdown
  <2>2. ~Listening'
    BY <1>1, <1>2 DEF Closes, Listening
  <2>3. main_socket \in Fd => fds'[main_socket] \notin Client
    BY <1>1, <1>11 DEF Others
  <2>4. file \in Fd => fds'[file] \notin Client
    BY <1>1, <1>11 DEF Others
  <2>5. QED
    BY <1>2, <1>13, <2>1, <2>2, <2>3, <2>4 DEF Others, Setting
<1>16. Rested'
  BY <1>7, <1>10, <1>3 DEF Core, Rested
<1>17. Sending'
  <2>1. SUFFICES ASSUME NEW u \in Thread, Serves(u)'
                 PROVE  /\ th'[u].at = "send" => th'[u].send <= Len(th'[u].body)
                        /\ th'[u].at \notin {"send", "close"} => th'[u].send = 0
    BY DEF Sending
  <2>2. CASE u = t
    BY <1>9, <2>2
  <2>3. CASE u # t
    <3>1. th'[u] = th[u] /\ Serves(u)
      BY <1>7, <1>10, <2>1, <2>3
    <3>2. QED
      BY <3>1, CoreJoined
  <2>4. QED
    BY <2>2, <2>3
<1>18. QED
  BY <1>5, <1>11, <1>12, <1>14, <1>15, <1>16, <1>17 DEF Core

(***************************************************************************)
(* Connections are handed over.                                            *)
(***************************************************************************)
LEMMA OthersSame ==
  ASSUME Others, UNCHANGED <<scene, file, main_socket, fds, ctl>>,
         main' \in Early => main \in Early
  PROVE  Others'
<1>1. FileOpen' <=> FileOpen
  BY DEF FileOpen
<1>2. Listening' <=> Listening
  BY DEF Listening
<1>3. NoShutdown' <=> NoShutdown
  BY DEF NoShutdown
<1>4. QED
  BY <1>1, <1>2, <1>3 DEF Others

LEMMA PutCore == ASSUME Core, AcceptedPut PROVE Core'
<1>1. Types /\ MainOK /\ Others /\ Waiting /\ InService
  BY DEF Core
<1>2. /\ main = "accepted" /\ fd # NoFd /\ queue' = Append(queue, fd) /\ main' = "loop" /\ fd' = NoFd
      /\ UNCHANGED <<scene, dead, fds, main_running, main_socket, backlog, closed, th, cl, ctl,
                     engineVars, file>>
  BY DEF AcceptedPut
<1>3. PICK n \in Fd : n = fd
  BY <1>1, <1>2 DEF Types
<1>4. PICK q \in Seq(Fd) : q = queue
  BY <1>1 DEF Types
<1>5. /\ queue' \in Seq(Fd) /\ Len(q) \in Nat
      /\ \A j \in 1..Len(queue') : \/ j \in 1..Len(q) /\ queue'[j] = q[j]
                                   \/ j = Len(q) + 1 /\ queue'[j] = n
  BY <1>2, <1>3, <1>4
<1>6. \A j \in 1..Len(q) : fds[q[j]] \in Client /\ q[j] # n
  BY <1>1, <1>3, <1>2, <1>4 DEF Waiting
<1>7. \A j, k \in 1..Len(q) : q[j] = q[k] => j = k
  BY <1>1, <1>4 DEF Waiting
<1>8. Types'
  BY <1>1, <1>2, <1>5 DEF Types, engineVars, MainAt
<1>9. \A u \in Thread : (Serves(u)' <=> Serves(u)) /\ th'[u] = th[u] /\ Peer(u)' = Peer(u)
  BY <1>2 DEF Serves, Peer
<1>10. MainOK'
  BY <1>1, <1>2, <1>9 DEF MainOK, Setting, Early
<1>11. Waiting'
  <2>1. fds[n] \in Client
    BY <1>1, <1>2, <1>3 DEF Waiting
  <2>2. \A j, k \in 1..Len(queue') : queue'[j] = queue'[k] => j = k
    BY <1>5, <1>6, <1>7
  <2>3. QED
    BY <1>2, <1>5, <1>6, <2>1, <2>2 DEF Waiting
<1>12. InService'
  <2>1. SUFFICES ASSUME NEW u \in Thread, Serves(u)
                 PROVE  /\ th[u].fd \in Fd /\ Peer(u) \in Client /\ NoFd # th[u].fd
                        /\ \A j \in 1..Len(queue') : queue'[j] # th[u].fd
                        /\ \A v \in Thread : Serves(v) /\ th[v].fd = th[u].fd => u = v
    BY <1>2, <1>9 DEF InService
  <2>2. th[u].fd # n /\ \A j \in 1..Len(q) : q[j] # th[u].fd
    BY <1>1, <1>3, <1>4, <2>1 DEF InService
  <2>3. QED
    BY <1>1, <1>5, <2>1, <2>2, Numbers DEF InService
<1>13. Others'
  BY <1>1, <1>2, OthersSame DEF Early
<1>14. OneEach'
  BY <1>2 DEF Core, OneEach
<1>15. Rested' /\ Sending'
  BY <1>9 DEF Core, Rested, Sending
<1>16. QED
  BY <1>8, <1>10, <1>11, <1>12, <1>13, <1>14, <1>15 DEF Core

LEMMA StopQueueCore == ASSUME Core, StopQueue PROVE Core'
<1>1. Types /\ MainOK /\ Others /\ Waiting /\ InService
  BY DEF Core
<1>2. /\ main = "stop" /\ main' = "join" /\ queue' = <<>> /\ closed' = TRUE
      /\ UNCHANGED <<scene, dead, fds, main_running, main_socket, fd, backlog, th, cl, ctl,
                     engineVars, file>>
  BY DEF StopQueue
<1>3. queue' \in Seq(Fd) /\ 1..Len(queue') = {}
  BY <1>2
<1>4. Types'
  BY <1>1, <1>2, <1>3 DEF Types, engineVars, MainAt
<1>5. \A u \in Thread : (Serves(u)' <=> Serves(u)) /\ th'[u] = th[u] /\ Peer(u)' = Peer(u)
  BY <1>2 DEF Serves, Peer
<1>6. MainOK'
  BY <1>1, <1>2, <1>5 DEF MainOK, Setting, Early
<1>7. Waiting'
  BY <1>1, <1>2, <1>3 DEF Waiting
<1>8. InService'
  BY <1>1, <1>2, <1>3, <1>5 DEF InService
<1>9. Others'
  BY <1>1, <1>2, OthersSame DEF Early
<1>10. OneEach'
  BY <1>2 DEF Core, OneEach
<1>11. Rested' /\ Sending'
  BY <1>5 DEF Core, Rested, Sending
<1>12. QED
  BY <1>4, <1>6, <1>7, <1>8, <1>9, <1>10, <1>11 DEF Core

LEMMA AcceptCore == ASSUME Core, Accept PROVE Core'
<1>1. Types /\ MainOK /\ Others /\ Waiting /\ InService /\ OneEach /\ Listening /\ HasFree
  BY DEF Core, Accept
<1>2. PICK n \in Fd : n = FirstFree /\ fds[n] = "free"
  BY <1>1, FreeTaken
<1>3. PICK q \in Seq(Client) : q = backlog /\ q # <<>>
  BY <1>1 DEF Types, Accept
<1>4. /\ main = "accept" /\ main' = "accepted" /\ fd' = n /\ fds' = [fds EXCEPT ![n] = Head(q)]
      /\ backlog' = Tail(q)
      /\ UNCHANGED <<scene, dead, main_running, main_socket, queue, closed, th, cl, ctl,
                     engineVars, file>>
  BY <1>2, <1>3 DEF Accept
<1>5. /\ Tail(q) \in Seq(Client) /\ Len(q) \in Nat /\ 1 \in 1..Len(q) /\ Head(q) = q[1]
      /\ \A j \in 1..Len(Tail(q)) : j + 1 \in 1..Len(q) /\ j + 1 # 1 /\ Tail(q)[j] = q[j + 1]
      /\ \A j \in 1..Len(q) : q[j] \in Client
  BY <1>3
<1>6. PICK c \in Client : c = q[1]
  BY <1>5
<1>7. fds'[n] = c /\ \A m \in Fd \ {n} : fds'[m] = fds[m]
  BY <1>1, <1>4, <1>5, <1>6 DEF Types
<1>8. /\ {"free", "listen", "file"} \cap Client = {} /\ NoFd \notin Fd
  BY Numbers
<1>9. Types'
  <2>1. fds' \in [Fd -> Client \cup {"free", "listen", "file"}]
    BY <1>1, <1>4, <1>5, <1>6 DEF Types
  <2>2. QED
    BY <1>1, <1>4, <1>5, <2>1 DEF Types, engineVars, MainAt
<1>10. \A u \in Thread : (Serves(u)' <=> Serves(u)) /\ th'[u] = th[u]
  BY <1>4 DEF Serves
<1>11. MainOK'
  BY <1>1, <1>4, <1>10 DEF MainOK, Setting, Early
<1>12. \A m \in Fd : fds[m] \in Client => m # n /\ fds'[m] = fds[m]
  BY <1>2, <1>7, <1>8
<1>13. Waiting'
  <2>1. \A j \in 1..Len(queue) : queue[j] \in Fd /\ fds[queue[j]] \in Client
    BY <1>1 DEF Types, Waiting
  <2>2. QED
    BY <1>1, <1>4, <1>7, <1>12, <2>1 DEF Waiting
<1>14. InService'
  <2>1. \A u \in Thread : Serves(u) => Peer(u)' = Peer(u) /\ th[u].fd # n
    BY <1>1, <1>10, <1>12 DEF InService, Peer
  <2>2. QED
    BY <1>1, <1>4, <1>10, <2>1 DEF InService
<1>15. Others'
  <2>1. FileOpen /\ main_socket \in Fd /\ fds[main_socket] = "listen"
    BY <1>1 DEF Others, Listening
  <2>2. file \in Fd => file # n /\ fds'[file] = "file"
    BY <1>2, <1>7, <2>1 DEF FileOpen
  <2>3. main_socket \in Fd /\ fds'[main_socket] = "listen"
    BY <1>2, <1>7, <2>1
  <2>4. QED
    BY <1>4, <1>8, <2>2, <2>3 DEF Others, FileOpen, Listening
<1>16. OneEach'
  <2>1. \A m \in Fd : fds[m] # c
    BY <1>1, <1>3, <1>5, <1>6 DEF OneEach
  <2>2. \A m, k \in Fd : fds'[k] \in Client /\ fds'[m] = fds'[k] => m = k
    <3>1. \A m, k \in Fd : fds[k] \in Client /\ fds[m] = fds[k] => m = k
      BY <1>1 DEF OneEach
    <3>2. QED
      BY <1>7, <2>1, <3>1
  <2>3. \A j, k \in 1..Len(q) : q[j] = q[k] => j = k
    BY <1>1, <1>3 DEF OneEach
  <2>4. \A j, k \in 1..Len(Tail(q)) : Tail(q)[j] = Tail(q)[k] => j = k
    BY <1>5, <2>3
  <2>5. \A j \in 1..Len(Tail(q)) : Tail(q)[j] # c
    BY <1>5, <1>6, <2>3
  <2>6. \A m \in Fd, j \in 1..Len(q) : fds[m] # q[j]
    BY <1>1, <1>3 DEF OneEach
  <2>7. \A m \in Fd, j \in 1..Len(Tail(q)) : fds'[m] # Tail(q)[j]
    BY <1>5, <1>7, <2>5, <2>6
  <2>8. ASSUME NEW d \in Client, Open(cl[d])
        PROVE (\A m \in Fd : fds'[m] # d) /\ (\A j \in 1..Len(Tail(q)) : Tail(q)[j] # d)
    <3>1. (\A m \in Fd : fds[m] # d) /\ (\A j \in 1..Len(q) : q[j] # d)
      BY <1>1, <1>3, <2>8 DEF OneEach, Open
    <3>2. QED
      BY <1>5, <1>6, <1>7, <3>1
  <2>9. QED
    BY <1>4, <2>2, <2>4, <2>7, <2>8 DEF OneEach, Open
<1>17. Rested' /\ Sending'
  BY <1>10 DEF Core, Rested, Sending
<1>18. QED
  BY <1>9, <1>11, <1>13, <1>14, <1>15, <1>16, <1>17 DEF Core

\* A connection is closed.
LEMMA ConnClosed ==
  ASSUME Core, NEW n \in Fd, fds[n] \in Client, fds' = [fds EXCEPT ![n] = "free"],
         cl' = [cl EXCEPT ![fds[n]] = Gone(fds[n])], UNCHANGED backlog
  PROVE  /\ OneEach' /\ cl' \in [Client -> Talker]
         /\ fds' \in [Fd -> Client \cup {"free", "listen", "file"}]
         /\ \A m \in Fd \ {n} : fds'[m] = fds[m]
         /\ fds'[n] \notin Client
<1>1. Types /\ OneEach
  BY DEF Core
<1>2. PICK c \in Client : c = fds[n]
  OBVIOUS
<1>3. fds' \in [Fd -> Client \cup {"free", "listen", "file"}]
  BY <1>1 DEF Types
<1>4. fds'[n] = "free" /\ \A m \in Fd \ {n} : fds'[m] = fds[m]
  BY <1>1 DEF Types
<1>5. cl' \in [Client -> Talker] /\ \A d \in Client \ {c} : cl'[d] = cl[d]
  <2>1. Gone(c) \in Talker /\ cl \in [Client -> Talker] /\ cl' = [cl EXCEPT ![c] = Gone(c)]
    BY <1>1, <1>2, GoneTyped DEF Types
  <2>2. QED
    BY <2>1
<1>6. fds'[n] \notin Client
  BY <1>4, Numbers
<1>7. \A m, k \in Fd : fds[k] \in Client /\ fds[m] = fds[k] => m = k
  BY <1>1 DEF OneEach
<1>8. OneEach'
  <2>1. \A m, k \in Fd : fds'[k] \in Client /\ fds'[m] = fds'[k] => m = k
    BY <1>4, <1>6, <1>7
  <2>2. \A m \in Fd : fds'[m] # c
    BY <1>2, <1>4, <1>6, <1>7
  <2>3. \A j \in 1..Len(backlog) : backlog[j] # c
    BY <1>1, <1>2 DEF OneEach
  <2>4. \A m \in Fd, j \in 1..Len(backlog) : fds'[m] # backlog[j]
    <3>1. \A j \in 1..Len(backlog) : backlog[j] \in Client
      BY <1>1 DEF Types
    <3>2. QED
      BY <1>1, <1>4, <1>6, <3>1 DEF OneEach
  <2>5. \A d \in Client : Open(cl'[d]) =>
          (\A m \in Fd : fds'[m] # d) /\ (\A j \in 1..Len(backlog) : backlog[j] # d)
    <3>1. SUFFICES ASSUME NEW d \in Client, Open(cl'[d]), d # c
                   PROVE  (\A m \in Fd : fds'[m] # d) /\ (\A j \in 1..Len(backlog) : backlog[j] # d)
      BY <2>2, <2>3
    <3>2. Open(cl[d])
      BY <1>5, <3>1
    <3>3. (\A m \in Fd : fds[m] # d) /\ (\A j \in 1..Len(backlog) : backlog[j] # d)
      BY <1>1, <3>2 DEF OneEach, Open
    <3>4. QED
      BY <1>4, <1>6, <3>3
  <2>6. QED
    BY <1>1, <2>1, <2>4, <2>5 DEF OneEach, Open
<1>9. QED
  BY <1>3, <1>4, <1>5, <1>6, <1>8

LEMMA RefusedCore == ASSUME Core, AcceptedRefused PROVE Core'
<1>1. Types /\ MainOK /\ Others /\ Waiting /\ InService
  BY DEF Core
<1>2. PICK n \in Fd : n = fd /\ fds[n] \in Client
  BY <1>1 DEF Types, Waiting, AcceptedRefused
<1>3. /\ main = "accepted" /\ main' = "loop" /\ fd' = NoFd /\ fds' = [fds EXCEPT ![n] = "free"]
      /\ cl' = [cl EXCEPT ![fds[n]] = Gone(fds[n])]
      /\ UNCHANGED <<scene, dead, main_running, main_socket, backlog, queue, closed, th, ctl,
                     engineVars, file>>
  BY <1>2 DEF AcceptedRefused
<1>4. /\ OneEach' /\ cl' \in [Client -> Talker]
      /\ fds' \in [Fd -> Client \cup {"free", "listen", "file"}]
      /\ \A m \in Fd \ {n} : fds'[m] = fds[m]
      /\ fds'[n] \notin Client
  BY <1>2, <1>3, ConnClosed
<1>5. Types'
  BY <1>1, <1>3, <1>4 DEF Types, engineVars, MainAt
<1>6. \A u \in Thread : (Serves(u)' <=> Serves(u)) /\ th'[u] = th[u]
  BY <1>3 DEF Serves
<1>7. MainOK'
  BY <1>1, <1>3, <1>6 DEF MainOK, Setting, Early
<1>8. Waiting'
  <2>1. \A j \in 1..Len(queue) : queue[j] \in Fd /\ fds[queue[j]] \in Client /\ queue[j] # n
    BY <1>1, <1>2, Numbers DEF Types, Waiting
  <2>2. QED
    BY <1>1, <1>3, <1>4, <2>1 DEF Waiting
<1>9. InService'
  <2>1. \A u \in Thread : Serves(u) => Peer(u)' = Peer(u) /\ th[u].fd # NoFd
    BY <1>1, <1>2, <1>4, <1>6, Numbers DEF InService, Peer
  <2>2. QED
    BY <1>1, <1>3, <1>6, <2>1 DEF InService
<1>10. Others'
  <2>1. \A m \in Fd : fds[m] \notin Client => fds'[m] = fds[m]
    BY <1>2, <1>4
  <2>2. FileOpen => FileOpen'
    BY <1>3, <2>1, Numbers DEF FileOpen
  <2>3. Listening <=> Listening'
    BY <1>1, <1>3, <2>1 DEF Listening, Others
  <2>4. NoShutdown' <=> NoShutdown
    BY <1>3 DEF NoShutdown
  <2>5. QED
    BY <1>1, <1>3, <2>1, <2>2, <2>3, <2>4 DEF Others, Early
<1>11. Rested' /\ Sending'
  BY <1>6 DEF Core, Rested, Sending
<1>12. QED
  BY <1>4, <1>5, <1>7, <1>8, <1>9, <1>10, <1>11 DEF Core

LEMMA IdleTyped ==
  ASSUME NEW a \in {"off", "top", "done"}
  PROVE  [Idle EXCEPT !.at = a] \in Service /\ [Idle EXCEPT !.at = a].at = a
<1>1. Idle \in Service
  BY DEF Idle, Service, Code
<1>2. QED
  BY <1>1 DEF Service

LEMMA CloseConnCore == ASSUME Core, NEW t \in Thread, CloseConn(t) PROVE Core'
<1>1. Types /\ MainOK /\ Others /\ Waiting /\ InService /\ Serves(t)
  BY DEF Core, CloseConn, Serves, Serving, At
<1>2. PICK n \in Fd : n = th[t].fd /\ fds[n] = Peer(t) /\ fds[n] \in Client
  BY <1>1 DEF InService, Peer
<1>3. PICK x \in Service : x = [Idle EXCEPT !.at = "top"] /\ x.at = "top"
  BY IdleTyped
<1>4. /\ fds' = [fds EXCEPT ![n] = "free"] /\ cl' = [cl EXCEPT ![fds[n]] = Gone(fds[n])]
      /\ Turns(t, x)
      /\ UNCHANGED <<scene, dead, main_running, main_socket, main, fd, backlog, queue, closed, ctl,
                     engineVars, file>>
  BY <1>2, <1>3 DEF CloseConn, serverVars, Turns
<1>5. /\ OneEach' /\ cl' \in [Client -> Talker]
      /\ fds' \in [Fd -> Client \cup {"free", "listen", "file"}]
      /\ \A m \in Fd \ {n} : fds'[m] = fds[m]
      /\ fds'[n] \notin Client
  BY <1>2, <1>4, ConnClosed
<1>6. th' \in [Thread -> Service] /\ th'[t] = x /\ \A u \in Thread \ {t} : th'[u] = th[u]
  <2>1. th \in [Thread -> Service]
    BY <1>1 DEF Types
  <2>2. QED
    BY <1>4, <2>1, Turned
<1>7. ~Serves(t)' /\ \A u \in Thread \ {t} : Serves(u)' <=> Serves(u)
  BY <1>3, <1>6 DEF Serves, Serving
<1>8. Types'
  BY <1>1, <1>4, <1>5, <1>6 DEF Types, engineVars
<1>9. MainOK'
  <2>1. main \notin Setting \cup {"done"} /\ t \in scene.threads
    BY <1>1 DEF MainOK, Serves, Serving
  <2>2. QED
    BY <1>1, <1>4, <1>6, <1>7, <2>1 DEF MainOK, Setting, Early
<1>10. Waiting'
  <2>1. \A j \in 1..Len(queue) : queue[j] \in Fd /\ fds[queue[j]] \in Client /\ queue[j] # n
    BY <1>1, <1>2 DEF Types, Waiting, InService
  <2>2. fd # NoFd => fd # n /\ fd \in Fd
    BY <1>1, <1>2 DEF InService, Types
  <2>3. QED
    BY <1>1, <1>4, <1>5, <2>1, <2>2 DEF Waiting
<1>11. InService'
  <2>1. \A u \in Thread : Serves(u)' =>
          Serves(u) /\ th'[u] = th[u] /\ Peer(u)' = Peer(u) /\ u # t
    BY <1>1, <1>2, <1>5, <1>6, <1>7 DEF InService, Peer
  <2>2. QED
    BY <1>1, <1>4, <2>1 DEF InService
<1>12. Others'
  <2>1. \A m \in Fd : fds[m] \notin Client => fds'[m] = fds[m]
    BY <1>2, <1>5
  <2>2. FileOpen => FileOpen'
    BY <1>4, <2>1, Numbers DEF FileOpen
  <2>3. Listening <=> Listening'
    BY <1>1, <1>4, <2>1 DEF Listening, Others
  <2>4. NoShutdown' <=> NoShutdown
    BY <1>4 DEF NoShutdown
  <2>5. QED
    BY <1>1, <1>4, <2>1, <2>2, <2>3, <2>4 DEF Others, Early
<1>13. Rested' /\ Sending'
  BY <1>3, <1>6, <1>7 DEF Core, Rested, Sending
<1>14. QED
  BY <1>5, <1>8, <1>9, <1>10, <1>11, <1>12, <1>13 DEF Core

\* The next connection is taken from the queue.
LEMMA GetItemTurns ==
  ASSUME Core, NEW t \in Thread, GetItem(t)
  PROVE  /\ At(t, "get") /\ \E n \in Fd, x \in Service :
              /\ n = queue[1] /\ 1 \in 1..Len(queue) /\ fds[n] \in Client
              /\ x = [Idle EXCEPT !.at = "read", !.fd = n] /\ Turns(t, x)
         /\ queue' = Tail(queue)
         /\ UNCHANGED <<scene, dead, fds, main_running, main_socket, main, fd, backlog, closed, cl,
                        ctl, engineVars, file>>
<1>1. Types /\ Waiting /\ At(t, "get") /\ queue # <<>>
  BY DEF Core, GetItem
<1>2. PICK q \in Seq(Fd) : q = queue /\ q # <<>>
  BY <1>1 DEF Types
<1>3. 1 \in 1..Len(q) /\ Head(q) = q[1] /\ q[1] \in Fd
  BY <1>2
<1>4. PICK n \in Fd : n = q[1] /\ n = Head(q)
  BY <1>3
<1>5. fds[n] \in Client
  BY <1>1, <1>2, <1>3, <1>4 DEF Waiting
<1>6. th[t] = [Idle EXCEPT !.at = th[t].at]
  BY <1>1 DEF Core, Rested, Serves, Serving, At
<1>7. Idle \in Service
  BY DEF Idle, Service, Code
<1>8. PICK x \in Service : x = [Idle EXCEPT !.at = "read", !.fd = n]
  BY <1>7 DEF Service, Serving
<1>9. Turns(t, [th[t] EXCEPT !.at = "read", !.fd = n])
  BY <1>1, <1>2, <1>4 DEF GetItem, Turns, Types
<1>10. PICK a \in {th[t].at} : th[t] = [Idle EXCEPT !.at = a]
  BY <1>6
<1>11. [th[t] EXCEPT !.at = "read", !.fd = n] = x
  BY <1>8, <1>10, ZenonT(60) DEF Idle
<1>12. QED
  BY <1>1, <1>2, <1>3, <1>4, <1>5, <1>8, <1>9, <1>11 DEF GetItem

LEMMA GetItemCore == ASSUME Core, NEW t \in Thread, GetItem(t) PROVE Core'
<1>1. Types /\ MainOK /\ Others /\ Waiting /\ InService
  BY DEF Core
<1>2. PICK n \in Fd, x \in Service :
        /\ n = queue[1] /\ 1 \in 1..Len(queue) /\ fds[n] \in Client
        /\ x = [Idle EXCEPT !.at = "read", !.fd = n] /\ Turns(t, x)
  BY GetItemTurns
<1>3. /\ At(t, "get") /\ queue' = Tail(queue)
      /\ UNCHANGED <<scene, dead, fds, main_running, main_socket, main, fd, backlog, closed, cl,
                     ctl, engineVars, file>>
  BY GetItemTurns
<1>4. x.at = "read" /\ x.fd = n /\ x.send = 0
  BY <1>2 DEF Idle
<1>5. th' \in [Thread -> Service] /\ th'[t] = x /\ \A u \in Thread \ {t} : th'[u] = th[u]
  <2>1. th \in [Thread -> Service]
    BY <1>1 DEF Types
  <2>2. QED
    BY <1>2, <2>1, Turned
<1>6. Serves(t)' /\ ~Serves(t) /\ \A u \in Thread \ {t} : Serves(u)' <=> Serves(u)
  BY <1>3, <1>4, <1>5 DEF Serves, Serving, At
<1>7. PICK q \in Seq(Fd) : q = queue
  BY <1>1 DEF Types
<1>8. /\ Tail(q) \in Seq(Fd) /\ Len(q) \in Nat
      /\ \A j \in 1..Len(Tail(q)) : j + 1 \in 1..Len(q) /\ j + 1 # 1 /\ Tail(q)[j] = q[j + 1]
  BY <1>2, <1>7
<1>9. \A j, k \in 1..Len(q) : q[j] = q[k] => j = k
  BY <1>1, <1>7 DEF Waiting
<1>10. Types'
  BY <1>1, <1>3, <1>5, <1>7, <1>8 DEF Types, engineVars
<1>11. t \in scene.threads /\ main \notin Setting \cup {"done"}
  <2>1. queue # <<>>
    BY <1>2
  <2>2. main \notin Setting
    BY <1>1, <2>1 DEF MainOK
  <2>3. t \in scene.threads /\ main # "done"
    BY <1>1, <1>3 DEF MainOK, At
  <2>4. QED
    BY <2>2, <2>3
<1>12. MainOK'
  BY <1>1, <1>3, <1>5, <1>6, <1>11 DEF MainOK, Setting, Early
<1>13. Waiting'
  <2>1. \A j, k \in 1..Len(Tail(q)) : Tail(q)[j] = Tail(q)[k] => j = k
    BY <1>8, <1>9
  <2>2. \A j \in 1..Len(Tail(q)) : fds[Tail(q)[j]] \in Client
    BY <1>1, <1>7, <1>8 DEF Waiting
  <2>3. fd # NoFd => \A j \in 1..Len(Tail(q)) : Tail(q)[j] # fd
    BY <1>1, <1>7, <1>8 DEF Waiting
  <2>4. QED
    BY <1>1, <1>3, <1>7, <2>1, <2>2, <2>3 DEF Waiting
<1>14. InService'
  <2>1. SUFFICES ASSUME NEW u \in Thread, Serves(u)'
                 PROVE  /\ th'[u].fd \in Fd /\ fds[th'[u].fd] \in Client /\ fd # th'[u].fd
                        /\ \A j \in 1..Len(Tail(q)) : Tail(q)[j] # th'[u].fd
                        /\ \A v \in Thread : Serves(v)' /\ th'[v].fd = th'[u].fd => u = v
    BY <1>3, <1>7 DEF InService, Peer
  <2>2. \A v \in Thread \ {t} : Serves(v) => th[v].fd # n
    BY <1>1, <1>2 DEF InService
  <2>3. CASE u = t
    <3>1. \A j \in 1..Len(Tail(q)) : Tail(q)[j] # n
      BY <1>2, <1>7, <1>8, <1>9
    <3>2. fd # n
      BY <1>1, <1>2, Numbers DEF Waiting
    <3>3. QED
      BY <1>2, <1>4, <1>5, <1>6, <2>2, <2>3, <3>1, <3>2
  <2>4. CASE u # t
    <3>1. th'[u] = th[u] /\ Serves(u) /\ th[u].fd # n
      BY <1>5, <1>6, <2>1, <2>2, <2>4
    <3>2. /\ th[u].fd \in Fd /\ fds[th[u].fd] \in Client /\ fd # th[u].fd
          /\ \A j \in 1..Len(q) : q[j] # th[u].fd
          /\ \A v \in Thread : Serves(v) /\ th[v].fd = th[u].fd => u = v
      BY <1>1, <1>7, <3>1 DEF InService, Peer
    <3>3. QED
      BY <1>4, <1>5, <1>6, <1>8, <3>1, <3>2
  <2>5. QED
    BY <2>3, <2>4
<1>15. Others'
  BY <1>1, <1>3, OthersSame
<1>16. OneEach'
  BY <1>3 DEF Core, OneEach
<1>17. Rested'
  BY <1>5, <1>6 DEF Core, Rested
<1>18. Sending'
  <2>1. SUFFICES ASSUME NEW u \in Thread, Serves(u)'
                 PROVE  /\ th'[u].at = "send" => th'[u].send <= Len(th'[u].body)
                        /\ th'[u].at \notin {"send", "close"} => th'[u].send = 0
    BY DEF Sending
  <2>2. CASE u = t
    BY <1>4, <1>5, <2>2
  <2>3. CASE u # t
    <3>1. th'[u] = th[u] /\ Serves(u)
      BY <1>5, <1>6, <2>1, <2>3
    <3>2. QED
      BY <3>1, CoreJoined
  <2>4. QED
    BY <2>2, <2>3
<1>19. QED
  BY <1>10, <1>12, <1>13, <1>14, <1>15, <1>16, <1>17, <1>18 DEF Core

LEMMA CreateThreadsCore == ASSUME Core, CreateThreads PROVE Core'
<1>1. Types /\ MainOK /\ Others
  BY DEF Core
<1>2. /\ main = "new" /\ main' = "socket"
      /\ th' = [t \in Thread |-> IF t \in scene.threads THEN [Idle EXCEPT !.at = "top"] ELSE Idle]
      /\ UNCHANGED <<scene, dead, fds, main_running, main_socket, fd, backlog, queue, closed, cl,
                     ctl, engineVars, file>>
  BY DEF CreateThreads
<1>3. Idle \in Service /\ Idle.at = "off" /\ Idle = [Idle EXCEPT !.at = "off"]
  <2>1. Idle \in Service /\ Idle.at = "off"
    BY DEF Idle, Service, Code
  <2>2. \A s \in Service : s = [s EXCEPT !.at = s.at]
    BY DEF Service
  <2>3. QED
    BY <2>1, <2>2
<1>4. PICK x \in Service : x = [Idle EXCEPT !.at = "top"] /\ x.at = "top"
  BY IdleTyped
<1>5. \A t \in Thread : /\ ~Serves(t)' /\ th'[t] = [Idle EXCEPT !.at = th'[t].at]
  BY <1>2, <1>3, <1>4 DEF Serves, Serving
<1>6. th' \in [Thread -> Service]
  BY <1>2, <1>3, <1>4
<1>7. Types'
  BY <1>1, <1>2, <1>6, ZenonT(60) DEF Types, engineVars, MainAt, Setting, Early
<1>8. MainOK'
  <2>1. \A t \in Thread \ scene.threads : th'[t].at = "off"
    BY <1>2, <1>3
  <2>2. QED
    BY <1>1, <1>2, <1>5, <2>1 DEF MainOK, Setting, Early
<1>9. Others'
  BY <1>1, <1>2, OthersSame DEF Early
<1>10. Waiting' /\ OneEach'
  BY <1>2 DEF Core, Waiting, OneEach
<1>11. InService' /\ Rested' /\ Sending'
  BY <1>5 DEF InService, Rested, Sending
<1>12. QED
  BY <1>7, <1>8, <1>9, <1>10, <1>11 DEF Core

LEMMA ConnectCore == ASSUME Core, NEW c \in Client, Connect(c) PROVE Core'
<1>1. Types /\ MainOK /\ Others /\ OneEach
  BY DEF Core
<1>2. PICK d \in Talker : d = cl[c] /\ d.at = "new"
  BY <1>1 DEF Types, Connect
<1>3. PICK e \in Talker : e = [d EXCEPT !.at = "open"] /\ e.at = "open"
  <2>1. [d EXCEPT !.at = "open"] \in Talker
    BY DEF Talker
  <2>2. [d EXCEPT !.at = "open"].at = "open"
    BY DEF Talker
  <2>3. QED
    BY <2>1, <2>2
<1>4. /\ main \in {"loop", "accept", "accepted"} /\ Alters(c, e) /\ backlog' = Append(backlog, c)
      /\ UNCHANGED <<scene, dead, fds, main_running, main_socket, main, fd, queue, closed, th, ctl,
                     engineVars, file>>
  BY <1>1, <1>2, <1>3 DEF Connect, Alters, Types
<1>5. cl' \in [Client -> Talker] /\ cl'[c] = e /\ \A f \in Client \ {c} : cl'[f] = cl[f]
  <2>1. cl \in [Client -> Talker]
    BY <1>1 DEF Types
  <2>2. QED
    BY <1>4, <2>1, Altered
<1>6. PICK q \in Seq(Client) : q = backlog
  BY <1>1 DEF Types
<1>7. /\ backlog' \in Seq(Client) /\ Len(q) \in Nat
      /\ \A j \in 1..Len(backlog') : \/ j \in 1..Len(q) /\ backlog'[j] = q[j]
                                     \/ j = Len(q) + 1 /\ backlog'[j] = c
  BY <1>4, <1>6
<1>8. Types'
  BY <1>1, <1>4, <1>5, <1>7 DEF Types, engineVars
<1>9. \A u \in Thread : (Serves(u)' <=> Serves(u)) /\ th'[u] = th[u] /\ Peer(u)' = Peer(u)
  BY <1>4 DEF Serves, Peer
<1>10. MainOK'
  BY <1>1, <1>4, <1>9 DEF MainOK, Setting, Early
<1>11. Waiting' /\ InService' /\ Rested' /\ Sending'
  BY <1>4, <1>9 DEF Core, Waiting, InService, Rested, Sending
<1>12. Others'
  BY <1>1, <1>4, OthersSame
<1>13. OneEach'
  <2>1. (\A n \in Fd : fds[n] # c) /\ (\A j \in 1..Len(q) : q[j] # c)
    BY <1>1, <1>2, <1>6 DEF OneEach
  <2>2. \A j, k \in 1..Len(backlog') : backlog'[j] = backlog'[k] => j = k
    <3>1. \A j, k \in 1..Len(q) : q[j] = q[k] => j = k
      BY <1>1, <1>6 DEF OneEach
    <3>2. QED
      BY <1>7, <2>1, <3>1
  <2>3. \A n \in Fd, j \in 1..Len(backlog') : fds[n] # backlog'[j]
    BY <1>1, <1>6, <1>7, <2>1 DEF OneEach
  <2>4. ASSUME NEW f \in Client, Open(cl'[f])
        PROVE (\A n \in Fd : fds[n] # f) /\ (\A j \in 1..Len(backlog') : backlog'[j] # f)
    <3>1. f # c
      BY <1>3, <1>5, <2>4 DEF Open
    <3>2. Open(cl[f])
      BY <1>5, <2>4, <3>1
    <3>3. (\A n \in Fd : fds[n] # f) /\ (\A j \in 1..Len(q) : q[j] # f)
      BY <1>1, <1>6, <3>2 DEF OneEach, Open
    <3>4. QED
      BY <1>7, <3>1, <3>3
  <2>5. QED
    BY <1>1, <1>4, <2>2, <2>3, <2>4 DEF OneEach, Open
<1>14. QED
  BY <1>8, <1>10, <1>11, <1>12, <1>13 DEF Core

\* The program ends, or is killed: nothing is open any more.
LEMMA EndCore ==
  ASSUME Core, fds' = [n \in Fd |-> "free"], backlog' = <<>>, queue' = <<>>, file' = -1,
         cl' = [c \in Client |-> Gone(c)], ctl' = "exit", fd' = NoFd, UNCHANGED scene, EngineTyped,
         NEW a \in {"off", "done"}, th' = [t \in Thread |-> [Idle EXCEPT !.at = a]],
         main' \in {"done", "failed", "off"}, main' = "off" => a = "off" /\ main_socket' = NoFd,
         main_running' \in BOOLEAN, closed' \in BOOLEAN, main_socket' \in Fd \cup {NoFd},
         dead' \in BOOLEAN, dead' => main' = "off"
  PROVE  Core'
<1>1. Types
  BY DEF Core
<1>2. PICK x \in Service : x = [Idle EXCEPT !.at = a] /\ x.at = a
  BY IdleTyped
<1>3. th' \in [Thread -> Service] /\ \A t \in Thread : th'[t] = x
  BY <1>2
<1>4. \A t \in Thread : ~Serves(t)'
  BY <1>2, <1>3 DEF Serves, Serving
<1>5. \A n \in Fd : fds'[n] \notin Client
  BY Numbers
<1>6. 1..Len(backlog') = {} /\ 1..Len(queue') = {} /\ backlog' \in Seq(Client) /\ queue' \in Seq(Fd)
  OBVIOUS
<1>7. cl' \in [Client -> Talker]
  BY <1>1, GoneTyped
<1>8. Types'
  BY <1>1, <1>3, <1>6, <1>7 DEF Types, EngineTyped, MainAt, Setting, Early
<1>9. MainOK'
  BY <1>2, <1>3, <1>4, <1>5 DEF MainOK, Setting, Early
<1>10. Waiting' /\ InService' /\ OneEach'
  <2>1. Waiting' /\ InService'
    BY <1>4, <1>6 DEF Waiting, InService
  <2>2. OneEach'
    BY <1>5, <1>6 DEF OneEach
  <2>3. QED
    BY <2>1, <2>2
<1>11. Others'
  <2>1. FileOpen'
    BY Numbers DEF FileOpen
  <2>2. QED
    BY <1>5, <2>1, Numbers DEF Others
<1>12. Rested' /\ Sending'
  BY <1>2, <1>3, <1>4 DEF Rested, Sending
<1>13. QED
  BY <1>8, <1>9, <1>10, <1>11, <1>12 DEF Core

LEMMA ExitCore == ASSUME Core, Exit PROVE Core'
<1>1. Types /\ MainOK
  BY DEF Core
<1>2. EngineTyped
  BY <1>1, EngineSame DEF Exit
<1>3. main \in {"done", "failed"} /\ ~dead /\ fd = NoFd
  BY <1>1 DEF MainOK, Exit
<1>4. /\ fds' = [n \in Fd |-> "free"] /\ backlog' = <<>> /\ queue' = <<>> /\ file' = -1
      /\ cl' = [c \in Client |-> Gone(c)] /\ ctl' = "exit" /\ fd' = NoFd /\ UNCHANGED scene
      /\ th' = [t \in Thread |-> [Idle EXCEPT !.at = "done"]]
      /\ main' \in {"done", "failed"} /\ main_running' \in BOOLEAN /\ closed' \in BOOLEAN
      /\ main_socket' \in Fd \cup {NoFd} /\ dead' = FALSE
  BY <1>1, <1>3 DEF Exit, Types
<1>5. QED
  BY <1>2, <1>4, EndCore

LEMMA DieCore == ASSUME Core, Die PROVE Core'
<1>1. Types
  BY DEF Core
<1>2. EngineTyped
  BY <1>1 DEF Die, EngineTyped, Types
<1>3. Idle = [Idle EXCEPT !.at = "off"]
  <2>1. Idle \in Service /\ Idle.at = "off"
    BY DEF Idle, Service, Code
  <2>2. \A s \in Service : s = [s EXCEPT !.at = s.at]
    BY DEF Service
  <2>3. QED
    BY <2>1, <2>2
<1>4. /\ fds' = [n \in Fd |-> "free"] /\ backlog' = <<>> /\ queue' = <<>> /\ file' = -1
      /\ cl' = [c \in Client |-> Gone(c)] /\ ctl' = "exit" /\ fd' = NoFd /\ UNCHANGED scene
      /\ th' = [t \in Thread |-> [Idle EXCEPT !.at = "off"]]
      /\ main' = "off" /\ main_running' = FALSE /\ closed' = FALSE /\ main_socket' = NoFd
      /\ dead' = TRUE
  BY <1>3 DEF Die
<1>5. QED
  BY <1>2, <1>4, EndCore

(***************************************************************************)
(* Every step.  A request that is handled is one its client has made.      *)
(***************************************************************************)
Service1(t) ==
  \/ Read(t) \/ ReadFails(t) \/ Write(t) \/ WriteTimesOut(t) \/ LostQuietly(t)
  \/ HandlesNow(t) \/ HandleResources(t)
  \/ SubmitBad(t) \/ Submit(t) \/ SubmitRefused(t) \/ SubmitEnd(t)
  \/ CollectOne(t) \/ CollectAll(t)

LEMMA ServiceGoes == ASSUME Core, NEW t \in Thread, Service1(t) PROVE Goes(t)
<1>1. ASSUME SubmitBad(t) \/ SubmitRefused(t) \/ SubmitEnd(t) PROVE Goes(t)
  <2>1. /\ At(t, "submit") /\ (th' = Passed(t) \/ th' = Respond(t, 500)) /\ Steady
        /\ UNCHANGED cl /\ UNCHANGED engineVars
    BY <1>1 DEF SubmitBad, SubmitRefused, SubmitEnd, Steady
  <2>2. QED
    BY <2>1, PassedGoes
<1>2. QED
  BY <1>1, ReadGoes, ReadFailsGoes, WriteGoes, WriteEndsGoes, HandleGoes, ResourcesGoes, SubmitGoes,
     CollectOneGoes, CollectAllGoes DEF Service1

LEMMA ThreadCore ==
  ASSUME Core, NEW t \in Thread, ThreadStep(t),
         HandleShutdown(t) => cl[Peer(t)].k \in 1..Len(scene.reqs[Peer(t)])
  PROVE  Core'
<1>1. \/ Service1(t) \/ Top(t) \/ Cancelled(t) \/ GetItem(t) \/ CloseConn(t) \/ HandleShutdown(t)
      \/ Die
  BY DEF ThreadStep, Service1, WriteLost, LostQuietly, CollectSome, HandlesNow
<1>2. QED
  BY <1>1, ServiceGoes, GoesCore, RestCore, GetItemCore, CloseConnCore, ShutdownCore, DieCore

MainOrOther ==
  \/ Start \/ MainStep \/ ControlStep \/ StopEngines \/ Finish \/ OpenFile \/ CloseFile
LEMMA OtherCore == ASSUME Core, MainOrOther PROVE Core'
<1>1. \/ PlainStep \/ OpenSocket \/ Accept \/ AcceptedRefused \/ AcceptedPut \/ CloseMain \/ StopQueue
      \/ StopServer \/ Exit \/ CreateThreads \/ OpenFile \/ CloseFile
  BY DEF MainOrOther, MainStep, ControlStep, PlainStep
<1>2. QED
  BY <1>1, PlainStepCore, OpenSocketCore, AcceptCore, RefusedCore, PutCore, CloseMainCore,
     StopQueueCore, StopServerCore, ExitCore, CreateThreadsCore, OpenFileCore, CloseFileCore

LEMMA CoreInit == Init => Core
<1> SUFFICES ASSUME Init PROVE Core
  OBVIOUS
<1>1. Types
  BY TypesInit
<1>2. Idle \in Service /\ Idle.at = "off"
  BY DEF Idle, Service, Code
<1>3. Idle = [Idle EXCEPT !.at = "off"]
  <2>1. \A s \in Service : s = [s EXCEPT !.at = s.at]
    BY DEF Service
  <2>2. QED
    BY <1>2, <2>1
<1>4. \A t \in Thread : th[t] = Idle /\ ~Serves(t)
  BY <1>2 DEF Init, Serves, Serving
<1>5. \A n \in Fd : fds[n] \notin Client
  BY Numbers DEF Init
<1>6. 1..Len(backlog) = {} /\ 1..Len(queue) = {}
  BY DEF Init
<1>7. MainOK
  BY <1>2, <1>4, <1>5 DEF Init, MainOK, Setting, Early
<1>8. Waiting /\ InService /\ OneEach
  <2>1. Waiting /\ InService
    BY <1>4, <1>6 DEF Waiting, InService, Init
  <2>2. OneEach
    BY <1>5, <1>6 DEF OneEach
  <2>3. QED
    BY <2>1, <2>2
<1>9. Others
  <2>1. FileOpen
    BY Numbers DEF FileOpen, Init
  <2>2. QED
    BY <1>5, <2>1, Numbers DEF Others, Init
<1>10. Rested /\ Sending
  BY <1>2, <1>3, <1>4 DEF Rested, Sending
<1>11. QED
  BY <1>1, <1>7, <1>8, <1>9, <1>10 DEF Core

(***************************************************************************)
(* Conversations.                                                          *)
(***************************************************************************)
LEMMA AskTyped ==
  ASSUME NEW R \in Seq(Request), NEW k \in Nat \ {0}, k <= Len(R)
  PROVE  /\ k \in 1..Len(R) /\ R[k] \in Request /\ R[k].length \in BOOLEAN
         /\ R[k].body \in Seq({"ok", "bad", "0", "1"}) /\ Len(R[k].body) \in Nat
         /\ All(R, k) \in Nat /\ All(R, k) = 2 + Len(R[k].body)
<1>1. k \in 1..Len(R) /\ R[k] \in Request
  OBVIOUS
<1>2. R[k].body \in Seq({"ok", "bad", "0", "1"}) /\ R[k].length \in BOOLEAN
  BY <1>1 DEF Request
<1>3. Len(R[k].body) \in Nat
  BY <1>2
<1>4. QED
  BY <1>1, <1>2, <1>3 DEF All

\* What a step leaves alone ...
LEMMA FineKept ==
  ASSUME NEW c \in Client, Fine(c), UNCHANGED scene, cl'[c] = cl[c], ~stops' => ~stops,
         \A u \in Thread : Together(u, c)' <=> Together(u, c),
         \A u \in Thread : Together(u, c) => th'[u] = th[u]
  PROVE  Fine(c)'
BY DEF Fine

\* ... a client and the thread that serves it, the only one ...
LEMMA OneServer ==
  ASSUME Core, NEW c \in Client, NEW t \in Thread, NEW u \in Thread, Together(t, c), Together(u, c)
  PROVE  u = t
<1>1. InService /\ OneEach
  BY DEF Core
<1>2. th[t].fd \in Fd /\ th[u].fd \in Fd /\ fds[th[t].fd] = c /\ fds[th[u].fd] = c
  BY <1>1 DEF Together, InService, Peer
<1>3. th[t].fd = th[u].fd
  BY <1>1, <1>2 DEF OneEach
<1>4. QED
  BY <1>1, <1>3 DEF Together, InService

LEMMA FineServed ==
  ASSUME Core', NEW c \in Client, NEW t \in Thread, Together(t, c)',
         ClientOK(cl'[c], scene'.reqs[c]), Talk(th'[t], cl'[c], scene'.reqs[c]),
         TaskTalk(th'[t], cl'[c], scene'.reqs[c]),
         ~stops' => WholeGot(cl'[c], scene'.reqs[c]) /\ WholeTalk(th'[t], cl'[c], scene'.reqs[c])
  PROVE  Fine(c)'
<1>1. \A u \in Thread : Together(u, c)' => u = t
  <2>1. InService' /\ OneEach'
    BY DEF Core
  <2>2. SUFFICES ASSUME NEW u \in Thread, Together(u, c)' PROVE u = t
    OBVIOUS
  <2>3. th'[t].fd \in Fd /\ th'[u].fd \in Fd /\ fds'[th'[t].fd] = c /\ fds'[th'[u].fd] = c
    BY <2>1, <2>2 DEF Together, InService, Peer
  <2>4. th'[t].fd = th'[u].fd
    BY <2>1, <2>3 DEF OneEach
  <2>5. QED
    BY <2>1, <2>2, <2>4 DEF Together, InService
<1>2. QED
  BY <1>1 DEF Fine

\* The connection of c ends.
LEMMA GoneOK ==
  ASSUME Types, NEW c \in Client, ClientOK(cl[c], scene.reqs[c])
  PROVE  /\ ClientOK(Gone(c), scene.reqs[c]) /\ WholeGot(Gone(c), scene.reqs[c])
         /\ Gone(c).at = "gone"
<1>1. PICK d \in Talker : d = cl[c]
  BY DEF Types
<1>2. PICK g \in Talker : g = Gone(c)
  BY GoneTyped
<1>3. /\ g.at = "gone" /\ g.k = d.k /\ g.sent = 0 /\ g.net = 0 /\ g.end = d.end
      /\ g.got = <<>> /\ ~g.cut
  BY <1>1, <1>2 DEF Gone, Talker
<1>4. PICK R \in Seq(Request) : R = scene.reqs[c]
  BY RequestTyped
<1>5. g.k \in Nat \ {0} /\ Len(R) \in Nat
  BY DEF Talker
<1>6. g.k <= Len(R) => All(R, g.k) \in Nat
  BY <1>5, AskTyped
<1>7. 1..Len(<<>>) = {}
  OBVIOUS
<1>8. ClientOK(g, R)
  BY <1>1, <1>3, <1>4, <1>5, <1>6, <1>7 DEF ClientOK, GotOK
<1>9. WholeGot(g, R)
  BY <1>3 DEF WholeGot
<1>10. QED
  BY <1>2, <1>3, <1>4, <1>8, <1>9

LEMMA FineMoved ==
  ASSUME Types, NEW c \in Client, Fine(c), UNCHANGED scene, ~stops' => ~stops,
         \A u \in Thread : Together(u, c)' <=> Together(u, c),
         \A u \in Thread : Together(u, c) => th'[u] = th[u],
         \/ cl'[c] = cl[c]
         \/ cl'[c] = Gone(c) /\ \A u \in Thread : ~Together(u, c)
  PROVE  Fine(c)'
<1>1. CASE cl'[c] = cl[c]
  BY <1>1, FineKept
<1>2. CASE cl'[c] = Gone(c) /\ \A u \in Thread : ~Together(u, c)
  <2>1. ClientOK(cl[c], scene.reqs[c])
    BY DEF Fine
  <2>2. ClientOK(cl'[c], scene'.reqs[c]) /\ WholeGot(cl'[c], scene'.reqs[c]) /\ cl'[c].at = "gone"
    BY <1>2, <2>1, GoneOK
  <2>3. \A u \in Thread : ~Together(u, c)'
    BY <1>2
  <2>4. QED
    BY <2>2, <2>3 DEF Fine
<1>3. QED
  BY <1>1, <1>2

\* Connections are opened, closed and handed over; those in service go on.
LEMMA TalksMoved ==
  ASSUME Core, Talks, UNCHANGED scene, ~stops' => ~stops, Stopped',
         \A u \in Thread : Serves(u)' <=> Serves(u),
         \A u \in Thread : Serves(u) => th'[u] = th[u] /\ Peer(u)' = Peer(u),
         \A c \in Client : \/ cl'[c] = cl[c]
                           \/ cl'[c] = Gone(c) /\ \A u \in Thread : ~Together(u, c)
  PROVE  Talks'
<1>1. SUFFICES ASSUME NEW c \in Client PROVE Fine(c)'
  BY DEF Talks
<1>2. Fine(c) /\ Types
  BY DEF Talks, Core
<1>3. \A u \in Thread : Together(u, c)' <=> Together(u, c)
  BY DEF Together
<1>4. \A u \in Thread : Together(u, c) => th'[u] = th[u]
  BY DEF Together
<1>5. QED
  BY <1>2, <1>3, <1>4, FineMoved

LEMMA TypesStopped ==
  ASSUME Core, Stopped, UNCHANGED <<dead, engineVars>>
  PROVE  Stopped' /\ (~stops' => ~stops)
BY DEF Stopped, engineVars

\* A client in the backlog, and one whose connection main has just accepted.
LEMMA NotServed ==
  ASSUME Core, NEW c \in Client,
         \/ \E j \in 1..Len(backlog) : backlog[j] = c
         \/ fd # NoFd /\ fds[fd] = c
         \/ Open(cl[c])
  PROVE  \A u \in Thread : ~Together(u, c)
<1>1. SUFFICES ASSUME NEW u \in Thread, Together(u, c) PROVE FALSE
  OBVIOUS
<1>2. th[u].fd \in Fd /\ fds[th[u].fd] = c /\ fd # th[u].fd /\ InService /\ OneEach /\ Types
  BY <1>1 DEF Core, Together, InService, Peer
<1>3. ~\E j \in 1..Len(backlog) : backlog[j] = c
  BY <1>2 DEF OneEach
<1>4. ~Open(cl[c])
  BY <1>2 DEF OneEach, Open
<1>5. ~(fd # NoFd /\ fds[fd] = c)
  BY <1>2 DEF OneEach, Types
<1>6. QED
  BY <1>3, <1>4, <1>5

LEMMA PeerKept ==
  ASSUME Core, \A n \in Fd : fds[n] \in Client => fds'[n] = fds[n] \/ n = fd, UNCHANGED th
  PROVE  /\ \A u \in Thread : Serves(u)' <=> Serves(u)
         /\ \A u \in Thread : Serves(u) => th'[u] = th[u] /\ Peer(u)' = Peer(u)
<1>1. InService
  BY DEF Core
<1>2. \A u \in Thread : Serves(u) => th[u].fd \in Fd /\ fds[th[u].fd] \in Client /\ fd # th[u].fd
  BY <1>1 DEF InService, Peer
<1>3. \A u \in Thread : Serves(u) => fds'[th[u].fd] = fds[th[u].fd]
  BY <1>2
<1>4. QED
  BY <1>3 DEF Serves, Peer

LEMMA PlainTalks == ASSUME Core, Talks, PlainStep PROVE Talks'
<1>1. UNCHANGED <<scene, dead, fds, th, cl>>
  BY DEF PlainStep, Start, Prepare, SetupFails, Loop, AcceptFails, AcceptedLate, JoinThreads,
     StopEngines, StopJoin, Finish
<1>2. Stopped' /\ (~stops' => ~stops)
  <2>1. UNCHANGED <<engine, stops>> \/ stops' = TRUE
    BY DEF PlainStep, Start, Prepare, SetupFails, Loop, AcceptFails, AcceptedLate, JoinThreads,
       StopEngines, StopJoin, Finish, StopEngine, engineVars
  <2>2. QED
    BY <1>1, <2>1 DEF Talks, Stopped
<1>3. /\ \A u \in Thread : Serves(u)' <=> Serves(u)
      /\ \A u \in Thread : Serves(u) => th'[u] = th[u] /\ Peer(u)' = Peer(u)
  BY <1>1, PeerKept
<1>4. QED
  BY <1>1, <1>2, <1>3, TalksMoved

LEMMA SocketTalks ==
  ASSUME Core, Talks, \/ OpenSocket \/ OpenFile \/ CloseFile \/ Accept \/ AcceptedRefused
                      \/ AcceptedPut \/ StopQueue
  PROVE  Talks'
<1>1. Types /\ Others
  BY DEF Core
<1>2. UNCHANGED <<scene, dead, th, engineVars>>
  BY DEF OpenSocket, OpenFile, CloseFile, Accept, AcceptedRefused, AcceptedPut, StopQueue
<1>3. Stopped' /\ (~stops' => ~stops)
  BY <1>2, TypesStopped DEF Talks
<1>4. \A n \in Fd : fds[n] \in Client => fds'[n] = fds[n] \/ n = fd
  <2>1. CASE OpenSocket \/ OpenFile \/ Accept
    <3>1. PICK n \in Fd : n = FirstFree /\ fds[n] = "free"
      BY <1>1, <2>1, FreeTaken DEF OpenSocket, OpenFile, Accept
    <3>2. \E x : fds' = [fds EXCEPT ![n] = x]
      BY <2>1, <3>1 DEF OpenSocket, OpenFile, Accept
    <3>3. QED
      BY <1>1, <3>1, <3>2, Numbers DEF Types
  <2>2. CASE CloseFile
    BY <1>1, <2>2 DEF CloseFile, Others, Types
  <2>3. CASE AcceptedRefused
    BY <1>1, <2>3 DEF AcceptedRefused, Types
  <2>4. CASE AcceptedPut \/ StopQueue
    BY <2>4 DEF AcceptedPut, StopQueue
  <2>5. QED
    BY <2>1, <2>2, <2>3, <2>4
<1>5. /\ \A u \in Thread : Serves(u)' <=> Serves(u)
      /\ \A u \in Thread : Serves(u) => th'[u] = th[u] /\ Peer(u)' = Peer(u)
  BY <1>2, <1>4, PeerKept
<1>6. \A c \in Client : \/ cl'[c] = cl[c]
                        \/ cl'[c] = Gone(c) /\ \A u \in Thread : ~Together(u, c)
  <2>1. CASE AcceptedRefused
    <3>1. fd # NoFd /\ cl' = [cl EXCEPT ![fds[fd]] = Gone(fds[fd])]
      BY <2>1 DEF AcceptedRefused
    <3>2. \A c \in Client : cl'[c] = cl[c] \/ (cl'[c] = Gone(c) /\ fds[fd] = c)
      BY <1>1, <3>1 DEF Types
    <3>3. QED
      BY <3>1, <3>2, NotServed
  <2>2. CASE UNCHANGED cl
    BY <2>2
  <2>3. QED
    BY <2>1, <2>2 DEF OpenSocket, OpenFile, CloseFile, Accept, AcceptedPut, StopQueue
<1>7. QED
  BY <1>2, <1>3, <1>5, <1>6, TalksMoved

LEMMA CloseTalks == ASSUME Core, Talks, CloseMain \/ StopServer PROVE Talks'
<1>1. Types /\ Others
  BY DEF Core
<1>2. UNCHANGED <<scene, dead, th, engineVars>>
  BY DEF CloseMain, StopServer
<1>3. Stopped' /\ (~stops' => ~stops)
  BY <1>2, TypesStopped DEF Talks
<1>4. Closes(main_socket) \/ UNCHANGED <<fds, cl>>
  BY <1>1, CloseFdCloses DEF CloseMain, StopServer
<1>5. \A n \in Fd : fds[n] \in Client => fds'[n] = fds[n] \/ n = fd
  BY <1>1, <1>4 DEF Closes, Others
<1>6. /\ \A u \in Thread : Serves(u)' <=> Serves(u)
      /\ \A u \in Thread : Serves(u) => th'[u] = th[u] /\ Peer(u)' = Peer(u)
  BY <1>2, <1>5, PeerKept
<1>7. \A c \in Client : \/ cl'[c] = cl[c]
                        \/ cl'[c] = Gone(c) /\ \A u \in Thread : ~Together(u, c)
  BY <1>4, NotServed DEF Closes
<1>8. QED
  BY <1>2, <1>3, <1>6, <1>7, TalksMoved

LEMMA RestServes ==
  ASSUME Core, CreateThreads \/ \E t \in Thread : Top(t) \/ Cancelled(t)
  PROVE  \A u \in Thread : (Serves(u)' <=> Serves(u)) /\ (Serves(u) => th'[u] = th[u])
<1>1. Types /\ MainOK
  BY DEF Core
<1>2. CASE CreateThreads
  <2>1. \A u \in Thread : th'[u].at \in {"off", "top"}
    <3>1. Idle.at = "off" /\ [Idle EXCEPT !.at = "top"].at = "top"
      BY DEF Idle
    <3>2. QED
      BY <1>2, <3>1 DEF CreateThreads
  <2>2. \A u \in Thread : ~Serves(u)
    BY <1>1, <1>2 DEF CreateThreads, MainOK, Setting, Early
  <2>3. QED
    BY <2>1, <2>2 DEF Serves, Serving
<1>3. CASE \E t \in Thread : Top(t) \/ Cancelled(t)
  <2>1. PICK t \in Thread : th[t].at \in {"top", "get"} /\ \E a \in {"get", "done"} : th' = Goto(t, a)
    BY <1>3 DEF Top, Cancelled, At
  <2>2. th'[t].at \in {"get", "done"} /\ \A u \in Thread \ {t} : th'[u] = th[u]
    BY <1>1, <2>1 DEF Goto, Types, Service
  <2>3. QED
    BY <2>1, <2>2 DEF Serves, Serving
<1>4. QED
  BY <1>2, <1>3

LEMMA RestTalks ==
  ASSUME Core, Talks, CreateThreads \/ \E t \in Thread : Top(t) \/ Cancelled(t)
  PROVE  Talks'
<1>1. UNCHANGED <<scene, dead, fds, cl, engineVars>>
  BY DEF CreateThreads, Top, Cancelled
<1>2. Stopped' /\ (~stops' => ~stops)
  BY <1>1, TypesStopped DEF Talks
<1>3. \A u \in Thread : (Serves(u)' <=> Serves(u)) /\ (Serves(u) => th'[u] = th[u])
  BY RestServes
<1>4. \A u \in Thread : Serves(u) => Peer(u)' = Peer(u)
  BY <1>1, <1>3 DEF Peer
<1>5. QED
  BY <1>1, <1>2, <1>3, <1>4, TalksMoved

LEMMA EndTalks == ASSUME Core, Talks, Exit \/ Die PROVE Talks'
<1>1. Types
  BY DEF Core
<1>2. /\ cl' = [c \in Client |-> Gone(c)] /\ UNCHANGED <<scene, stops>>
      /\ \E a \in {"off", "done"} : \A u \in Thread : th'[u].at = a
  <2>1. Idle.at = "off" /\ [Idle EXCEPT !.at = "done"].at = "done"
    BY DEF Idle
  <2>2. CASE Exit
    BY <2>1, <2>2 DEF Exit, engineVars
  <2>3. CASE Die
    BY <2>1, <2>3 DEF Die
  <2>4. QED
    BY <2>2, <2>3
<1>3. \A u \in Thread : ~Serves(u)'
  BY <1>2 DEF Serves, Serving
<1>4. Stopped'
  BY DEF Talks, Stopped, Exit, Die, engineVars
<1>5. SUFFICES ASSUME NEW c \in Client PROVE Fine(c)'
  BY <1>4 DEF Talks
<1>6. ClientOK(cl[c], scene.reqs[c])
  BY DEF Talks, Fine
<1>7. ClientOK(cl'[c], scene'.reqs[c]) /\ WholeGot(cl'[c], scene'.reqs[c]) /\ cl'[c].at = "gone"
  BY <1>1, <1>2, <1>6, GoneOK
<1>8. \A u \in Thread : ~Together(u, c)'
  BY <1>3 DEF Together
<1>9. QED
  BY <1>7, <1>8 DEF Fine

LEMMA ConnectTalks == ASSUME Core, Talks, NEW c \in Client, Connect(c) PROVE Talks'
<1>1. Types /\ cl \in [Client -> Talker]
  BY DEF Core, Types
<1>2. PICK d \in Talker : d = cl[c] /\ d.at = "new"
  BY <1>1 DEF Connect
<1>3. PICK e \in Talker : e = [d EXCEPT !.at = "open"]
  <2>1. [d EXCEPT !.at = "open"] \in Talker
    BY DEF Talker
  <2>2. QED
    BY <2>1
<1>4. /\ e.at = "open" /\ e.k = d.k /\ e.sent = d.sent /\ e.net = d.net /\ e.end = d.end
      /\ e.got = d.got /\ e.cut = d.cut
  BY <1>3 DEF Talker
<1>5. Alters(c, e) /\ UNCHANGED <<scene, dead, fds, th, engineVars>>
  BY <1>1, <1>2, <1>3 DEF Connect, Alters
<1>6. cl' \in [Client -> Talker] /\ cl'[c] = e /\ \A f \in Client \ {c} : cl'[f] = cl[f]
  BY <1>1, <1>5, Altered
<1>7. Stopped' /\ (~stops' => ~stops)
  BY <1>5, TypesStopped DEF Talks
<1>8. \A u \in Thread, f \in Client : (Together(u, f)' <=> Together(u, f)) /\ th'[u] = th[u]
  BY <1>5 DEF Together, Serves, Peer
<1>9. Fine(c) /\ \A u \in Thread : ~Together(u, c)
  BY <1>2, NotServed DEF Talks, Open
<1>10. ClientOK(d, scene.reqs[c])
  BY <1>2, <1>9 DEF Fine
<1>11. ClientOK(e, scene.reqs[c]) /\ Untaken(e)
  BY <1>2, <1>4, <1>10 DEF ClientOK, GotOK, Untaken
<1>12. WholeGot(e, scene.reqs[c])
  BY <1>11 DEF Untaken, WholeGot
<1>13. Fine(c)'
  BY <1>5, <1>6, <1>8, <1>9, <1>11, <1>12 DEF Fine
<1>14. \A f \in Client \ {c} : Fine(f)'
  BY <1>5, <1>6, <1>7, <1>8, FineKept DEF Talks
<1>15. QED
  BY <1>7, <1>13, <1>14 DEF Talks

LEMMA CloseConnTalks == ASSUME Core, Talks, NEW t \in Thread, CloseConn(t) PROVE Talks'
<1>1. Types /\ InService /\ OneEach /\ Serves(t)
  BY DEF Core, CloseConn, Serves, Serving, At
<1>2. PICK n \in Fd : n = th[t].fd /\ fds[n] = Peer(t) /\ fds[n] \in Client
  BY <1>1 DEF InService, Peer
<1>3. PICK c \in Client : c = fds[n]
  BY <1>2
<1>4. PICK x \in Service : x = [Idle EXCEPT !.at = "top"] /\ x.at = "top"
  BY IdleTyped
<1>5. /\ fds' = [fds EXCEPT ![n] = "free"] /\ cl' = [cl EXCEPT ![c] = Gone(c)]
      /\ Turns(t, x) /\ UNCHANGED <<scene, dead, engineVars>>
  BY <1>2, <1>3, <1>4 DEF CloseConn, Turns
<1>6. \A m \in Fd \ {n} : fds'[m] = fds[m]
  BY <1>1, <1>5 DEF Types
<1>7. cl'[c] = Gone(c) /\ \A f \in Client \ {c} : cl'[f] = cl[f]
  BY <1>1, <1>5 DEF Types
<1>8. th'[t] = x /\ \A u \in Thread \ {t} : th'[u] = th[u]
  <2>1. th \in [Thread -> Service]
    BY <1>1 DEF Types
  <2>2. QED
    BY <1>5, <2>1, Turned
<1>9. ~Serves(t)' /\ \A u \in Thread \ {t} : Serves(u)' <=> Serves(u)
  BY <1>4, <1>8 DEF Serves, Serving
<1>10. \A u \in Thread \ {t} : Serves(u) => th[u].fd \in Fd /\ th[u].fd # n /\ Peer(u)' = Peer(u)
  BY <1>1, <1>2, <1>6, <1>8 DEF InService, Peer
<1>11. Stopped' /\ (~stops' => ~stops)
  BY <1>5, TypesStopped DEF Talks
<1>12. \A u \in Thread : ~Together(u, c)'
  <2>1. \A u \in Thread \ {t} : Serves(u) => Peer(u) # c
    BY <1>1, <1>2, <1>3, <1>10 DEF OneEach, Peer
  <2>2. QED
    BY <1>9, <1>10, <2>1 DEF Together
<1>13. Fine(c)'
  <2>1. ClientOK(cl[c], scene.reqs[c])
    BY DEF Talks, Fine
  <2>2. ClientOK(cl'[c], scene'.reqs[c]) /\ WholeGot(cl'[c], scene'.reqs[c]) /\ cl'[c].at = "gone"
    BY <1>1, <1>5, <1>7, <2>1, GoneOK
  <2>3. QED
    BY <1>12, <2>2 DEF Fine
<1>14. ASSUME NEW f \in Client \ {c} PROVE Fine(f)'
  <2>1. \A u \in Thread : Together(u, f)' <=> Together(u, f)
    BY <1>2, <1>3, <1>9, <1>10 DEF Together
  <2>2. \A u \in Thread : Together(u, f) => th'[u] = th[u]
    BY <1>2, <1>3, <1>8, <1>14 DEF Together
  <2>3. QED
    BY <1>5, <1>7, <1>11, <2>1, <2>2, FineKept DEF Talks
<1>15. QED
  BY <1>11, <1>13, <1>14 DEF Talks

LEMMA GetItemTalks == ASSUME Core, Talks, NEW t \in Thread, GetItem(t) PROVE Talks'
<1>1. Types /\ InService /\ OneEach /\ Core'
  BY GetItemCore DEF Core
<1>2. PICK n \in Fd, x \in Service :
        /\ n = queue[1] /\ 1 \in 1..Len(queue) /\ fds[n] \in Client
        /\ x = [Idle EXCEPT !.at = "read", !.fd = n] /\ Turns(t, x)
  BY GetItemTurns
<1>3. At(t, "get") /\ UNCHANGED <<scene, dead, fds, cl, engineVars>>
  BY GetItemTurns
<1>4. /\ x.at = "read" /\ x.fd = n /\ x.have = 0 /\ x.send = 0 /\ ~x.keep_alive /\ x.body = <<>>
      /\ x.ids = <<>> /\ x.result = <<>>
  BY <1>2 DEF Idle
<1>5. th'[t] = x /\ \A u \in Thread \ {t} : th'[u] = th[u]
  <2>1. th \in [Thread -> Service]
    BY <1>1 DEF Types
  <2>2. QED
    BY <1>2, <2>1, Turned
<1>6. PICK c \in Client : c = fds[n]
  BY <1>2
<1>7. \A u \in Thread : ~Together(u, c)
  <2>1. SUFFICES ASSUME NEW u \in Thread, Together(u, c) PROVE FALSE
    OBVIOUS
  <2>2. th[u].fd \in Fd /\ fds[th[u].fd] = fds[n] /\ th[u].fd # n
    BY <1>1, <1>2, <1>6, <2>1 DEF Together, InService, Peer
  <2>3. QED
    BY <1>1, <1>2, <2>2 DEF OneEach
<1>8. PICK d \in Talker : d = cl[c]
  BY <1>1 DEF Types
<1>9. PICK R \in Seq(Request) : R = scene.reqs[c]
  BY <1>1, RequestTyped
<1>10. /\ ClientOK(d, R) /\ (d.at = "open" => Untaken(d)) /\ (~stops => WholeGot(d, R))
  BY <1>7, <1>8, <1>9 DEF Talks, Fine
<1>11. d.at # "new"
  BY <1>1, <1>2, <1>6, <1>8 DEF OneEach
<1>12. d.k \in Nat \ {0} /\ Len(R) \in Nat /\ d.net \in Nat /\ d.sent \in Nat
  BY DEF Talker
<1>13. Talk(x, d, R)
  <2>1. d.k > Len(R) => d.net = 0
    BY <1>10, <1>12 DEF ClientOK
  <2>2. d.k <= Len(R) => 0 + d.net <= All(R, d.k)
    BY <1>10, <1>12 DEF ClientOK
  <2>3. d.at = "open" => Fresh(x, d)
    BY <1>4, <1>10, <1>12 DEF Untaken, Fresh
  <2>4. QED
    BY <1>4, <1>11, <2>1, <2>2, <2>3 DEF Talk, Answering, Blank
<1>14. TaskTalk(x, d, R) /\ WholeTalk(x, d, R)
  BY <1>4 DEF TaskTalk, WholeTalk
<1>15. Together(t, c)'
  BY <1>3, <1>4, <1>5, <1>6 DEF Together, Serves, Serving, Peer
<1>16. Stopped' /\ (~stops' => ~stops)
  BY <1>3, TypesStopped DEF Talks
<1>17. Fine(c)'
  <2>1. cl'[c] = d /\ scene'.reqs[c] = R /\ th'[t] = x
    BY <1>3, <1>5, <1>8, <1>9
  <2>2. QED
    BY <1>1, <1>10, <1>13, <1>14, <1>15, <1>16, <2>1, FineServed
<1>18. ASSUME NEW f \in Client \ {c} PROVE Fine(f)'
  <2>1. ~Together(t, f) /\ ~Together(t, f)'
    BY <1>3, <1>4, <1>5, <1>6, <1>18 DEF Together, Serves, Serving, Peer, At
  <2>2. \A u \in Thread \ {t} : Together(u, f)' <=> Together(u, f)
    BY <1>3, <1>5 DEF Together, Serves, Peer
  <2>3. QED
    BY <1>3, <1>5, <1>16, <2>1, <2>2, FineKept DEF Talks
<1>19. QED
  BY <1>16, <1>17, <1>18 DEF Talks

\* A step of a service thread: only it and its client change.
LEMMA ServedTalks ==
  ASSUME Core, Talks, NEW t \in Thread, Goes(t), NEW c \in Client, c = Peer(t),
         \A f \in Client \ {c} : cl'[f] = cl[f], Stopped', ~stops' => ~stops,
         ClientOK(cl'[c], scene.reqs[c]), Talk(th'[t], cl'[c], scene.reqs[c]),
         TaskTalk(th'[t], cl'[c], scene.reqs[c]),
         ~stops' => WholeGot(cl'[c], scene.reqs[c]) /\ WholeTalk(th'[t], cl'[c], scene.reqs[c])
  PROVE  Talks'
<1>1. Core'
  BY GoesCore
<1>2. /\ UNCHANGED <<scene, fds>> /\ Serves(t) /\ Serves(t)' /\ th'[t].fd = th[t].fd
      /\ \A u \in Thread \ {t} : th'[u] = th[u]
  BY DEF Goes, Joined, Steady, Serves
<1>3. Together(t, c)' /\ Together(t, c)
  BY <1>2 DEF Together, Peer
<1>4. Fine(c)'
  BY <1>1, <1>2, <1>3, FineServed
<1>5. ASSUME NEW f \in Client \ {c} PROVE Fine(f)'
  <2>1. ~Together(t, f) /\ ~Together(t, f)'
    BY <1>3, <1>5 DEF Together
  <2>2. \A u \in Thread \ {t} : Together(u, f)' <=> Together(u, f)
    BY <1>2 DEF Together, Serves, Peer
  <2>3. QED
    BY <1>2, <2>1, <2>2, FineKept DEF Talks
<1>6. QED
  BY <1>4, <1>5 DEF Talks

\* A thread t, its record s, its client c, the record d of the client, its requests R.
Pair(t, c, s, d, R) ==
  /\ c = Peer(t) /\ s = th[t] /\ d = cl[c] /\ R = scene.reqs[c]
  /\ ClientOK(d, R) /\ Talk(s, d, R) /\ TaskTalk(s, d, R)
  /\ ~stops => WholeGot(d, R) /\ WholeTalk(s, d, R)
  /\ ~Open(d) /\ Stopped /\ ~dead
  /\ d.k <= Len(R) => Ask(t) = R[d.k] /\ R[d.k] \in Request /\ All(R, d.k) = 2 + Len(R[d.k].body)
                      /\ Len(R[d.k].body) \in Nat
                      /\ R[d.k].body \in Seq({"ok", "bad", "0", "1"})

LEMMA Paired ==
  ASSUME Core, Talks, NEW t \in Thread, Serves(t)
  PROVE  \E c \in Client, s \in Service, d \in Talker, R \in Seq(Request) : Pair(t, c, s, d, R)
<1>1. Types /\ MainOK /\ Joined(t)
  BY CoreJoined DEF Core
<1>2. PICK c \in Client : c = Peer(t)
  BY <1>1 DEF Joined
<1>3. PICK s \in Service : s = th[t]
  BY <1>1 DEF Types
<1>4. PICK d \in Talker : d = cl[c]
  BY <1>1 DEF Types
<1>5. PICK R \in Seq(Request) : R = scene.reqs[c]
  BY <1>1, RequestTyped
<1>6. Fine(c) /\ Stopped /\ Together(t, c)
  BY <1>2 DEF Talks, Together
<1>7. ~Open(d)
  BY <1>4, <1>6, NotServed
<1>8. ~dead
  BY <1>1 DEF MainOK, Setting, Early
<1>9. /\ ClientOK(d, R) /\ Talk(s, d, R) /\ TaskTalk(s, d, R)
      /\ ~stops => WholeGot(d, R) /\ WholeTalk(s, d, R)
  BY <1>3, <1>4, <1>5, <1>6 DEF Fine
<1>10. d.k \in Nat \ {0}
  BY DEF Talker
<1>11. d.k <= Len(R) => R[d.k] \in Request /\ All(R, d.k) = 2 + Len(R[d.k].body)
                        /\ Len(R[d.k].body) \in Nat
                        /\ R[d.k].body \in Seq({"ok", "bad", "0", "1"})
  BY <1>10, AskTyped
<1>12. Ask(t) = R[d.k]
  BY <1>2, <1>4, <1>5 DEF Ask, RequestOf
<1>13. Pair(t, c, s, d, R)
  BY <1>2, <1>3, <1>4, <1>5, <1>6, <1>7, <1>8, <1>9, <1>11, <1>12 DEF Pair
<1>14. QED
  BY <1>13

\* A response of one line or none.
LEMMA AnswerTalk ==
  ASSUME NEW s \in Service, NEW d \in Talker, NEW R \in Seq(Request), Talk(s, d, R),
         s.at \in {"handle", "submit"}, NEW x \in Service, x.at = "send", x.have = s.have,
         x.keep_alive = s.keep_alive, x.send = 0,
         x.body \in {<<>>, <<[k |-> d.k, u |-> 1]>>}
  PROVE  Talk(x, d, R) /\ TaskTalk(x, d, R)
<1>1. d.k <= Len(R) /\ s.have + d.net <= All(R, d.k) /\ d.at # "new"
  <2>1. d.k <= Len(R)
    BY DEF Talk, Answering
  <2>2. QED
    BY <2>1 DEF Talk
<1>2. d.at = "open" => Fresh(s, d)
  BY DEF Talk
<1>3. \A j \in 1..Len(x.body) : x.body[j] = [k |-> d.k, u |-> j]
  <2>1. CASE x.body = <<>>
    <3>1. 1..Len(x.body) = {}
      BY <2>1
    <3>2. QED
      BY <3>1
  <2>2. CASE x.body = <<[k |-> d.k, u |-> 1]>>
    <3>1. PICK p : p = [k |-> d.k, u |-> 1]
      OBVIOUS
    <3>2. Len(x.body) = 1 /\ x.body[1] = p
      BY <2>2, <3>1
    <3>3. \A j \in 1..Len(x.body) : j = 1
      BY <3>2
    <3>4. QED
      BY <3>1, <3>2, <3>3
  <2>3. QED
    BY <2>1, <2>2
<1>4. /\ d.k <= Len(R) /\ s.have >= 2
      /\ R[d.k].length => s.have = All(R, d.k)
      /\ s.keep_alive => R[d.k].length
  BY DEF Talk, Answering
<1>5. d.at = "open" =>
        /\ d.sent = x.have + d.net /\ Len(d.got) = x.send /\ (~d.cut => d.got = <<>>)
        /\ d.got # <<>> => d.got[1].n = Len(x.body) /\ (d.got[1].keep => x.keep_alive)
  <2>1. Len(<<>>) = 0
    OBVIOUS
  <2>2. QED
    BY <1>2, <2>1 DEF Fresh
<1>6. ~(d.k > Len(R))
  <2>1. d.k \in Nat /\ Len(R) \in Nat
    BY DEF Talker
  <2>2. QED
    BY <1>1, <2>1
<1>7. Talk(x, d, R)
  BY <1>1, <1>3, <1>4, <1>5, <1>6 DEF Talk, Answering
<1>8. TaskTalk(x, d, R)
  BY DEF TaskTalk
<1>9. QED
  BY <1>7, <1>8

LEMMA AnswerTalks ==
  ASSUME Core, Talks, NEW t \in Thread, th[t].at \in {"handle", "submit"}, NEW code \in Code,
         Answers(t, code), Steady, UNCHANGED cl, EngineTyped, Stopped', ~stops' => ~stops,
         Ask(t).m # "PROCESS" \/ code # 200
  PROVE  Talks'
<1>1. Serves(t) /\ Types
  BY DEF Serves, Serving, Core
<1>2. Joined(t) /\ th[t].send = 0
  BY <1>1, CoreJoined
<1>3. Goes(t)
  BY <1>1, <1>2, AnswersGoes
<1>4. PICK c \in Client, s \in Service, d \in Talker, R \in Seq(Request) : Pair(t, c, s, d, R)
  BY <1>1, Paired
<1>5. c = Peer(t) /\ s = th[t] /\ d = cl[c] /\ R = scene.reqs[c]
  BY <1>4 DEF Pair
<1>6. PICK b \in Seq(Piece) : /\ b \in {s.body, Append(s.body, Unit(t, 1)), <<Unit(t, 1)>>}
                              /\ th'[t] = [s EXCEPT !.at = "send", !.code = code, !.body = b]
  <2>1. \E b \in Seq(Piece) : /\ b \in {th[t].body, Append(th[t].body, Unit(t, 1)), <<Unit(t, 1)>>}
                              /\ th'[t] = [th[t] EXCEPT !.at = "send", !.code = code, !.body = b]
    <3>1. Types /\ Joined(t)
      BY <1>1, <1>2
    <3>2. QED
      BY <3>1, AnswersTyped, ZenonT(60)
  <2>2. QED
    BY <1>5, <2>1
<1>7. PICK x \in Service : x = th'[t]
  BY <1>3 DEF Goes
<1>8. /\ x.at = "send" /\ x.have = s.have /\ x.keep_alive = s.keep_alive /\ x.send = s.send
      /\ x.body = b /\ x.code = code
  BY <1>6, <1>7 DEF Service
<1>9. s.body = <<>>
  BY <1>4, <1>5 DEF Pair, Talk, Blank
<1>10. b \in {<<>>, <<[k |-> d.k, u |-> 1]>>}
  <2>1. Unit(t, 1) = [k |-> d.k, u |-> 1]
    BY <1>5 DEF Unit
  <2>2. \A p : Append(<<>>, p) = <<p>>
    OBVIOUS
  <2>3. QED
    BY <1>6, <1>9, <2>1, <2>2
<1>11. Talk(x, d, R) /\ TaskTalk(x, d, R)
  BY <1>2, <1>4, <1>5, <1>8, <1>10, AnswerTalk DEF Pair
<1>12. d.k <= Len(R)
  BY <1>4, <1>5 DEF Pair, Talk, Answering
<1>13. WholeTalk(x, d, R)
  BY <1>4, <1>8, <1>12 DEF Pair, WholeTalk
<1>14. QED
  BY <1>3, <1>4, <1>5, <1>7, <1>11, <1>13, ServedTalks DEF Pair

LEMMA HandleTalks == ASSUME Core, Talks, NEW t \in Thread, HandlesNow(t) PROVE Talks'
<1>1. /\ At(t, "handle") /\ Ask(t).m \notin {"PROCESS", "PASS"} /\ Steady /\ UNCHANGED cl /\ EngineTyped
      /\ UNCHANGED engineVars \/ \E v : SetRun(v)
  BY HandleTurns DEF Core
<1>2. PICK code \in Code : Answers(t, code)
  BY HandleTurns DEF Core
<1>3. Stopped' /\ (~stops' => ~stops)
  <2>1. \/ UNCHANGED <<engine, stops>> \/ stops' = TRUE
        \/ UNCHANGED stops /\ engine' = [engine EXCEPT !["out"] = "run"]
    BY <1>1 DEF SetRun, StopEngine, StartEngine, engineVars
  <2>2. engine \in [{"out", "sink"} -> {"new", "run", "off"}]
    BY DEF Core, Types
  <2>3. QED
    BY <1>1, <2>1, <2>2 DEF Talks, Stopped, Steady
<1>4. QED
  BY <1>1, <1>2, <1>3, AnswerTalks DEF At

LEMMA ResourcesTalks == ASSUME Core, Talks, NEW t \in Thread, HandleResources(t) PROVE Talks'
<1>1. /\ At(t, "handle") /\ Ask(t).m \in {"PROCESS", "PASS"}
      /\ Steady /\ UNCHANGED cl /\ UNCHANGED engineVars /\ Types /\ Goes(t)
  BY ResourceTurns, ResourcesGoes DEF Core
<1>2. Stopped' /\ (~stops' => ~stops) /\ EngineTyped
  BY <1>1, TypesStopped, EngineSame DEF Talks, Steady
<1>3. CASE Answers(t, 500)
  BY <1>1, <1>2, <1>3, AnswerTalks DEF At, Code
<1>4. CASE /\ Ask(t).arg = IF Ask(t).m = "PROCESS" THEN "out" ELSE "sink"
           /\ Turns(t, [th[t] EXCEPT !.at = "submit", !.i = 1])
  <2>1. Serves(t)
    BY <1>1 DEF Serves, Serving, At
  <2>2. PICK c \in Client, s \in Service, d \in Talker, R \in Seq(Request) : Pair(t, c, s, d, R)
    BY <2>1, Paired
  <2>3. /\ c = Peer(t) /\ s = th[t] /\ d = cl[c] /\ R = scene.reqs[c] /\ Talk(s, d, R)
        /\ s.at = "handle"
    BY <1>1, <2>2 DEF Pair, At
  <2>4. th'[t] = [s EXCEPT !.at = "submit", !.i = 1]
    BY <1>1, <1>4, <2>3 DEF Turns, Types
  <2>5. PICK x \in Service : x = th'[t]
    BY <1>1 DEF Goes
  <2>6. /\ x.at = "submit" /\ x.i = 1 /\ x.have = s.have /\ x.keep_alive = s.keep_alive
        /\ x.body = s.body /\ x.send = s.send /\ x.ids = s.ids /\ x.result = s.result
    BY <2>4, <2>5 DEF Service
  <2>7. Talk(x, d, R)
    BY <2>3, <2>6 DEF Talk, Answering, Blank, Fresh
  <2>8. s.ids = <<>> /\ s.have >= 2 /\ d.k <= Len(R) /\ s.have \in Nat
    BY <2>3 DEF Talk, Answering, Service
  <2>9. Ask(t) = R[d.k]
    BY <2>2, <2>8 DEF Pair
  <2>10. TaskTalk(x, d, R)
    <3>1. Len(<<>>) = 0 /\ 1..Len(<<>>) = {}
      OBVIOUS
    <3>2. \A j \in 1..Len(x.ids) : x.ids[j] = j
      BY <2>6, <2>8, <3>1
    <3>3. x.i = Len(x.ids) + 1 /\ x.i <= x.have - 1
      BY <2>6, <2>8, <3>1
    <3>4. QED
      BY <1>1, <1>4, <2>6, <2>9, <3>2, <3>3 DEF TaskTalk
  <2>11. WholeTalk(x, d, R)
    BY <2>6 DEF WholeTalk
  <2>12. QED
    BY <1>1, <1>2, <2>2, <2>3, <2>5, <2>7, <2>10, <2>11, ServedTalks DEF Pair
<1>5. QED
  BY <1>1, <1>3, <1>4, ResourceTurns

\* The body that has been read.
LEMMA BodyIs ==
  ASSUME NEW t \in Thread, NEW c \in Client, NEW s \in Service, NEW d \in Talker,
         NEW R \in Seq(Request), Pair(t, c, s, d, R), s.at \in {"submit", "collect"}
  PROVE  /\ d.k <= Len(R) /\ d.k \in Nat \ {0} /\ s.have - 2 \in Nat /\ s.have \in Nat
         /\ s.have - 2 <= Len(R[d.k].body)
         /\ Len(Body(t)) = s.have - 2
         /\ \A j \in 1..s.have - 2 : Body(t)[j] = R[d.k].body[j] /\ j \in 1..Len(R[d.k].body)
<1>1. d.k <= Len(R) /\ s.have >= 2 /\ s.have + d.net <= All(R, d.k)
  BY DEF Pair, Talk, Answering
<1>2. /\ Ask(t) = R[d.k] /\ All(R, d.k) = 2 + Len(R[d.k].body) /\ Len(R[d.k].body) \in Nat
      /\ R[d.k].body \in Seq({"ok", "bad", "0", "1"}) /\ s = th[t]
  BY <1>1 DEF Pair
<1>3. s.have \in Nat /\ d.net \in Nat /\ d.k \in Nat \ {0}
  BY DEF Service, Talker
<1>4. PICK w \in Nat : w = s.have - 2
  BY <1>1, <1>3
<1>5. w <= Len(R[d.k].body)
  <2>1. PICK n \in Nat : n = Len(R[d.k].body) /\ All(R, d.k) = 2 + n
    BY <1>2
  <2>2. s.have + d.net <= 2 + n
    BY <1>1, <2>1
  <2>3. w <= n
    BY <1>3, <1>4, <2>2
  <2>4. QED
    BY <2>1, <2>3
<1>6. PICK q \in Seq({"ok", "bad", "0", "1"}) : q = R[d.k].body
  BY <1>2
<1>7. Len(SubSeq(q, 1, w)) = w /\ \A j \in 1..w : SubSeq(q, 1, w)[j] = q[j] /\ j \in 1..Len(q)
  <2>1. \A j \in 1..w : q[j] \in {"ok", "bad", "0", "1"}
    BY <1>5, <1>6
  <2>2. Len(q) \in Nat /\ w <= Len(q)
    BY <1>5, <1>6
  <2>3. \A j \in 1..w : j \in 1..Len(q)
    BY <2>2
  <2>4. Len(SubSeq(q, 1, w)) = w
    BY <2>1, <2>2
  <2>5. ASSUME NEW j \in 1..w PROVE SubSeq(q, 1, w)[j] = q[j]
    <3>1. w \in 1..Len(q)
      BY <2>2
    <3>2. QED
      BY <3>1, Prefix
  <2>6. QED
    BY <2>3, <2>4, <2>5
<1>8. Body(t) = SubSeq(q, 1, w)
  BY <1>2, <1>4, <1>6 DEF Body
<1>9. QED
  BY <1>1, <1>3, <1>4, <1>5, <1>6, <1>7, <1>8

LEMMA SubmitTalks == ASSUME Core, Talks, NEW t \in Thread, Submit(t) PROVE Talks'
<1>1. Serves(t) /\ Types /\ Goes(t)
  BY SubmitGoes DEF Serves, Serving, At, Submit, Core
<1>2. Joined(t)
  BY <1>1, CoreJoined
<1>3. PICK c \in Client, s \in Service, d \in Talker, R \in Seq(Request) : Pair(t, c, s, d, R)
  BY <1>1, Paired
<1>4. /\ c = Peer(t) /\ s = th[t] /\ d = cl[c] /\ R = scene.reqs[c] /\ Talk(s, d, R)
      /\ TaskTalk(s, d, R) /\ s.at = "submit" /\ s.i <= Len(Body(t))
  BY <1>3 DEF Pair, At, Submit
<1>5. Steady /\ UNCHANGED cl /\ UNCHANGED <<engine, stops>>
  BY DEF Submit, Steady
<1>6. Stopped' /\ (~stops' => ~stops)
  BY <1>5 DEF Talks, Stopped, Steady
<1>7. th'[t] = [s EXCEPT !.i = s.i + 1, !.ids = Append(s.ids, s.i)]
  BY <1>1, <1>4 DEF Submit, Types
<1>8. PICK x \in Service : x = th'[t]
  BY <1>1 DEF Goes
<1>9. /\ x.at = s.at /\ x.i = s.i + 1 /\ x.have = s.have /\ x.keep_alive = s.keep_alive
      /\ x.body = s.body /\ x.send = s.send /\ x.ids = Append(s.ids, s.i) /\ x.result = s.result
  BY <1>7, <1>8 DEF Service
<1>10. Talk(x, d, R)
  BY <1>4, <1>9 DEF Talk, Answering, Blank, Fresh
<1>11. TaskTalk(x, d, R)
  <2>1. /\ Len(Body(t)) = s.have - 2 /\ s.have \in Nat
    BY <1>3, <1>4, BodyIs
  <2>2. s.ids \in Seq(Nat) /\ s.i \in Nat /\ Len(s.ids) \in Nat
    BY DEF Service
  <2>3. s.i = Len(s.ids) + 1 /\ \A j \in 1..Len(s.ids) : s.ids[j] = j
    BY <1>4 DEF TaskTalk
  <2>4. /\ Len(x.ids) = Len(s.ids) + 1
        /\ \A j \in 1..Len(s.ids) : x.ids[j] = s.ids[j]
        /\ x.ids[Len(s.ids) + 1] = s.i
    BY <1>9, <2>2
  <2>5. ASSUME NEW j \in 1..Len(x.ids) PROVE x.ids[j] = j
    <3>1. j \in 1..Len(s.ids) \/ j = Len(s.ids) + 1
      BY <2>2, <2>4
    <3>2. QED
      BY <2>3, <2>4, <3>1
  <2>6. x.i = Len(x.ids) + 1 /\ x.i <= x.have - 1
    <3>1. s.i <= s.have - 2
      BY <1>4, <2>1
    <3>2. x.i = s.i + 1 /\ x.have = s.have /\ Len(x.ids) = s.i
      BY <1>9, <2>3, <2>4
    <3>3. QED
      BY <2>1, <2>2, <3>1, <3>2
  <2>7. QED
    BY <1>4, <1>9, <2>5, <2>6 DEF TaskTalk
<1>12. WholeTalk(x, d, R)
  BY <1>4, <1>9 DEF WholeTalk
<1>13. QED
  BY <1>1, <1>3, <1>4, <1>5, <1>6, <1>8, <1>10, <1>11, <1>12, ServedTalks DEF Pair

\* The resources have been passed to the engine, or the rest was refused.
LEMMA PassedTalks ==
  ASSUME Core, Talks, NEW t \in Thread, SubmitBad(t) \/ SubmitRefused(t) \/ SubmitEnd(t)
  PROVE  Talks'
<1>1. /\ At(t, "submit") /\ (th' = Passed(t) \/ th' = Respond(t, 500)) /\ Steady
      /\ UNCHANGED cl /\ UNCHANGED engineVars /\ Types
  BY DEF SubmitBad, SubmitRefused, SubmitEnd, Steady, Core
<1>2. Goes(t)
  BY <1>1, PassedGoes
<1>3. Stopped' /\ (~stops' => ~stops) /\ EngineTyped
  BY <1>1, TypesStopped, EngineSame DEF Talks, Steady
<1>4. CASE Answers(t, 500)
  BY <1>1, <1>3, <1>4, AnswerTalks DEF At, Code
<1>5. CASE Ask(t).m # "PROCESS" /\ Answers(t, 200)
  BY <1>1, <1>3, <1>5, AnswerTalks DEF At, Code
<1>6. CASE /\ Ask(t).m = "PROCESS" /\ Turns(t, [th[t] EXCEPT !.at = "collect"])
           /\ SubmitRefused(t) \/ SubmitEnd(t)
  <2>1. Serves(t)
    BY <1>1 DEF Serves, Serving, At
  <2>2. PICK c \in Client, s \in Service, d \in Talker, R \in Seq(Request) : Pair(t, c, s, d, R)
    BY <2>1, Paired
  <2>3. /\ c = Peer(t) /\ s = th[t] /\ d = cl[c] /\ R = scene.reqs[c] /\ Talk(s, d, R)
        /\ TaskTalk(s, d, R) /\ s.at = "submit" /\ Stopped /\ ~dead
    BY <1>1, <2>2 DEF Pair, At
  <2>4. th'[t] = [s EXCEPT !.at = "collect"]
    BY <1>1, <1>6, <2>3 DEF Turns, Types
  <2>5. PICK x \in Service : x = th'[t]
    BY <1>2 DEF Goes
  <2>6. /\ x.at = "collect" /\ x.have = s.have /\ x.keep_alive = s.keep_alive
        /\ x.body = s.body /\ x.send = s.send /\ x.ids = s.ids /\ x.result = s.result
    BY <2>4, <2>5 DEF Service
  <2>7. Talk(x, d, R)
    BY <2>3, <2>6 DEF Talk, Answering, Blank, Fresh
  <2>8. /\ Len(Body(t)) = s.have - 2 /\ s.have \in Nat /\ Ask(t) = R[d.k]
    BY <2>2, <2>3, BodyIs, ZenonT(60) DEF Pair
  <2>9. TaskTalk(x, d, R) /\ R[d.k].arg = "out"
    BY <1>6, <2>3, <2>6, <2>8 DEF TaskTalk
  <2>10. ~stops => WholeTalk(x, d, R)
    <3>1. SUFFICES ASSUME ~stops PROVE Len(x.ids) = x.have - 2
      BY <2>6 DEF WholeTalk
    <3>2. engine["out"] # "off"
      BY <2>3, <3>1 DEF Stopped
    <3>3. SubmitEnd(t)
      BY <1>6, <2>8, <2>9, <3>2 DEF SubmitRefused
    <3>4. s.i > Len(Body(t)) /\ s.i = Len(s.ids) + 1 /\ s.i <= s.have - 1
      BY <2>3, <3>3 DEF SubmitEnd, TaskTalk
    <3>5. s.i \in Nat /\ Len(s.ids) \in Nat
      BY DEF Service
    <3>6. QED
      BY <2>6, <2>8, <3>4, <3>5
  <2>11. QED
    BY <1>1, <1>2, <1>3, <2>2, <2>3, <2>5, <2>7, <2>9, <2>10, ServedTalks DEF Pair
<1>7. CASE th' = Respond(t, 500)
  BY <1>1, <1>4, <1>7, RespondAnswers DEF Code
<1>8. CASE th' = Passed(t) /\ ~SubmitBad(t)
  BY <1>1, <1>5, <1>6, <1>8, PassedTurns
<1>9. QED
  BY <1>1, <1>7, <1>8 DEF SubmitBad

LEMMA CollectOneTalks == ASSUME Core, Talks, NEW t \in Thread, CollectOne(t) PROVE Talks'
<1>1. Serves(t) /\ Types /\ Goes(t)
  BY CollectOneGoes DEF Serves, Serving, At, CollectOne, Core
<1>2. PICK c \in Client, s \in Service, d \in Talker, R \in Seq(Request) : Pair(t, c, s, d, R)
  BY <1>1, Paired
<1>3. /\ c = Peer(t) /\ s = th[t] /\ d = cl[c] /\ R = scene.reqs[c] /\ Talk(s, d, R)
      /\ TaskTalk(s, d, R) /\ s.at = "collect"
  BY <1>2 DEF Pair, At, CollectOne
<1>4. Steady /\ UNCHANGED cl /\ UNCHANGED <<engine, stops>>
  BY DEF CollectOne, Steady
<1>5. Stopped' /\ (~stops' => ~stops)
  BY <1>4 DEF Talks, Stopped, Steady
<1>6. PICK r : th'[t] = [s EXCEPT !.result = r]
  BY <1>1, <1>3 DEF CollectOne, Types
<1>7. PICK x \in Service : x = th'[t]
  BY <1>1 DEF Goes
<1>8. /\ x.at = s.at /\ x.i = s.i /\ x.have = s.have /\ x.keep_alive = s.keep_alive
      /\ x.body = s.body /\ x.send = s.send /\ x.ids = s.ids
  BY <1>6, <1>7 DEF Service
<1>9. Talk(x, d, R)
  BY <1>3, <1>8 DEF Talk, Answering, Blank, Fresh
<1>10. TaskTalk(x, d, R)
  BY <1>3, <1>8 DEF TaskTalk
<1>11. ~stops => WholeTalk(x, d, R)
  BY <1>2, <1>3, <1>8 DEF WholeTalk, Pair
<1>12. QED
  BY <1>1, <1>2, <1>3, <1>4, <1>5, <1>7, <1>9, <1>10, <1>11, ServedTalks DEF Pair

LEMMA CollectAllTalks == ASSUME Core, Talks, NEW t \in Thread, CollectAll(t) PROVE Talks'
<1>1. Serves(t) /\ Types /\ Goes(t)
  BY CollectAllGoes DEF Serves, Serving, At, CollectAll, Core
<1>2. PICK c \in Client, s \in Service, d \in Talker, R \in Seq(Request) : Pair(t, c, s, d, R)
  BY <1>1, Paired
<1>3. /\ c = Peer(t) /\ s = th[t] /\ d = cl[c] /\ R = scene.reqs[c] /\ Talk(s, d, R)
      /\ TaskTalk(s, d, R) /\ s.at = "collect"
  BY <1>2 DEF Pair, At, CollectAll
<1>4. Steady /\ UNCHANGED cl /\ UNCHANGED engineVars
  BY DEF CollectAll, Steady
<1>5. Stopped' /\ (~stops' => ~stops)
  BY <1>4, TypesStopped DEF Talks, Steady
<1>6. th'[t] = [s EXCEPT !.at = "send", !.code = 200, !.body = s.body \o InOrder(t)]
  BY <1>1, <1>3 DEF CollectAll, Types
<1>7. PICK x \in Service : x = th'[t]
  BY <1>1 DEF Goes
<1>8. /\ x.at = "send" /\ x.have = s.have /\ x.keep_alive = s.keep_alive
      /\ x.body = s.body \o InOrder(t) /\ x.send = s.send
  BY <1>6, <1>7, ZenonT(60) DEF Service
<1>9. s.body = <<>> /\ s.send = 0
  BY <1>3 DEF Talk, Blank
<1>10. PICK n \in Nat : n = Len(s.ids)
  BY DEF Service
<1>11. Len(x.body) = n /\ \A j \in 1..n : x.body[j] = [k |-> d.k, u |-> j]
  <2>1. \A j \in 1..n : s.ids[j] = j
    BY <1>3, <1>10 DEF TaskTalk
  <2>2. InOrder(t) = [j \in 1..n |-> [k |-> d.k, u |-> j]]
    BY <1>3, <1>10, <2>1 DEF InOrder, Unit
  <2>3. PICK f \in [1..n -> Piece] : f = [j \in 1..n |-> [k |-> d.k, u |-> j]]
    <3>1. \A j \in 1..n : [k |-> d.k, u |-> j] \in Piece
      BY DEF Piece, Talker
    <3>2. QED
      BY <3>1
  <2>4. f \in Seq(Piece) /\ Len(f) = n
    <3>1. \A S : \A g \in [1..n -> S] : g \in Seq(S) /\ Len(g) = n
      OBVIOUS
    <3>2. QED
      BY <3>1
  <2>5. \A S : \A q \in Seq(S) : <<>> \o q = q
    OBVIOUS
  <2>6. x.body = f
    BY <1>8, <1>9, <2>2, <2>3, <2>4, <2>5
  <2>7. QED
    BY <2>3, <2>4, <2>6
<1>12. /\ d.k <= Len(R) /\ s.have >= 2 /\ s.have + d.net <= All(R, d.k) /\ d.at # "new"
       /\ R[d.k].length => s.have = All(R, d.k)
       /\ s.keep_alive => R[d.k].length
       /\ d.at = "open" => Fresh(s, d)
  BY <1>3 DEF Talk, Answering
<1>13. Talk(x, d, R)
  <2>1. ~(d.k > Len(R))
    <3>1. d.k \in Nat /\ Len(R) \in Nat
      BY DEF Talker
    <3>2. QED
      BY <1>12, <3>1
  <2>2. Len(<<>>) = 0
    OBVIOUS
  <2>3. d.at = "open" =>
          /\ d.sent = x.have + d.net /\ Len(d.got) = x.send /\ (~d.cut => d.got = <<>>)
          /\ d.got # <<>> => d.got[1].n = Len(x.body) /\ (d.got[1].keep => x.keep_alive)
    BY <1>8, <1>9, <1>12, <2>2 DEF Fresh
  <2>4. QED
    BY <1>8, <1>11, <1>12, <2>1, <2>3 DEF Talk, Answering
<1>14. TaskTalk(x, d, R)
  BY <1>8 DEF TaskTalk
<1>15. ~stops => WholeTalk(x, d, R)
  <2>1. SUFFICES ASSUME ~stops, R[d.k].length PROVE Len(x.body) = Len(R[d.k].body)
    BY <1>8 DEF WholeTalk
  <2>2. n = s.have - 2
    BY <1>2, <1>3, <1>10, <2>1 DEF Pair, WholeTalk
  <2>3. s.have = 2 + Len(R[d.k].body) /\ Len(R[d.k].body) \in Nat
    BY <1>2, <1>12, <2>1 DEF Pair
  <2>4. QED
    BY <1>11, <2>2, <2>3
<1>16. QED
  BY <1>1, <1>2, <1>3, <1>4, <1>5, <1>7, <1>13, <1>14, <1>15, ServedTalks DEF Pair

LEMMA ReadTalks == ASSUME Core, Talks, NEW t \in Thread, Read(t) PROVE Talks'
<1>1. Serves(t) /\ Types /\ Goes(t)
  BY ReadGoes DEF Serves, Serving, At, Read, Core
<1>2. PICK c \in Client, s \in Service, d \in Talker, R \in Seq(Request) : Pair(t, c, s, d, R)
  BY <1>1, Paired
<1>3. Joined(t)
  BY <1>1, CoreJoined, SMTT(30)
<1>4. /\ c = Peer(t) /\ s = th[t] /\ d = cl[c] /\ R = scene.reqs[c] /\ Talk(s, d, R)
      /\ s.at = "read" /\ d.net > 0 /\ Steady /\ UNCHANGED engineVars
      /\ Alters(c, [d EXCEPT !.net = 0])
  BY <1>1, <1>2, <1>3, ReadTurns DEF Pair, At
<1>5. PICK e \in Talker : e = [d EXCEPT !.net = 0]
  BY <1>1, <1>3, <1>4, ReadTurns
<1>6. /\ e.at = d.at /\ e.k = d.k /\ e.sent = d.sent /\ e.net = 0 /\ e.end = d.end
      /\ e.got = d.got /\ e.cut = d.cut
  BY <1>5 DEF Talker
<1>7. cl'[c] = e /\ \A f \in Client \ {c} : cl'[f] = cl[f]
  <2>1. cl \in [Client -> Talker]
    BY <1>1 DEF Types
  <2>2. QED
    BY <1>4, <1>5, <2>1, Altered
<1>8. PICK x \in Service : x = th'[t]
  BY <1>1 DEF Goes
<1>9. PICK h \in Nat, a \in {"read", "handle"}, b \in BOOLEAN :
        /\ h = s.have + d.net /\ (a = "handle" <=> Ready(t, h)) /\ (b <=> KeepAlive(t, h))
        /\ x = [s EXCEPT !.have = h, !.keep_alive = b, !.at = a]
  <2>1. PICK h \in Nat, a \in {"read", "handle"}, b \in BOOLEAN :
              /\ h = th[t].have + cl[Peer(t)].net
              /\ a = "handle" <=> Ready(t, h)
              /\ b <=> KeepAlive(t, h)
              /\ [th[t] EXCEPT !.have = h, !.keep_alive = b, !.at = a] \in Service
              /\ Turns(t, [th[t] EXCEPT !.have = h, !.keep_alive = b, !.at = a])
    BY <1>1, <1>3, ReadTurns
  <2>2. th'[t] = [s EXCEPT !.have = h, !.keep_alive = b, !.at = a]
    BY <1>1, <1>4, <2>1 DEF Turns, Types
  <2>3. QED
    BY <1>4, <1>8, <2>1, <2>2
<1>10. /\ x.at = a /\ x.have = h /\ x.keep_alive = b /\ x.body = s.body /\ x.send = s.send
       /\ x.ids = s.ids /\ x.result = s.result
  BY <1>9 DEF Service
<1>11. d.k \in Nat /\ Len(R) \in Nat /\ s.have \in Nat /\ d.net \in Nat /\ d.sent \in Nat
  BY DEF Talker, Service
<1>12. d.k <= Len(R) /\ h <= All(R, d.k)
  BY <1>4, <1>9, <1>11 DEF Talk
<1>13. /\ Ask(t) = R[d.k] /\ All(R, d.k) = 2 + Len(R[d.k].body) /\ Len(R[d.k].body) \in Nat
  BY <1>2, <1>12 DEF Pair
<1>14. a = "handle" => h >= 2 /\ (R[d.k].length => h = All(R, d.k)) /\ (b => R[d.k].length)
  <2>1. a = "handle" => h >= 2 /\ (R[d.k].length => h - 2 >= Len(R[d.k].body))
    BY <1>9, <1>13 DEF Ready
  <2>2. b => R[d.k].length
    BY <1>9, <1>13 DEF KeepAlive
  <2>3. QED
    BY <1>12, <1>13, <2>1, <2>2
<1>15. d.at = "open" => Fresh(x, e)
  <2>1. SUFFICES ASSUME d.at = "open" PROVE Fresh(x, e)
    OBVIOUS
  <2>2. Fresh(s, d)
    BY <1>4, <1>11, <2>1 DEF Talk, Limbo
  <2>3. e.sent = x.have + 0
    BY <1>6, <1>9, <1>10, <1>11, <2>2 DEF Fresh
  <2>4. QED
    BY <1>6, <2>2, <2>3 DEF Fresh
<1>16. d.at # "new" /\ Blank(s) /\ s.ids = <<>> /\ s.result = <<>>
  BY <1>4 DEF Talk
<1>17. Talk(x, e, R)
  <2>1. e.k <= Len(R) /\ ~(e.k > Len(R)) /\ x.have + e.net <= All(R, e.k)
    BY <1>6, <1>10, <1>11, <1>12
  <2>2. Blank(x) /\ x.ids = <<>> /\ x.result = <<>> /\ x.at \in {"read", "handle"} /\ e.at # "new"
    BY <1>6, <1>10, <1>16 DEF Blank
  <2>3. x.at = "handle" =>
          /\ x.have >= 2 /\ (R[e.k].length => x.have = All(R, e.k)) /\ (x.keep_alive => R[e.k].length)
    BY <1>6, <1>10, <1>14
  <2>4. e.at = "open" => Fresh(x, e)
    BY <1>6, <1>15
  <2>5. QED
    BY <2>1, <2>2, <2>3, <2>4 DEF Talk, Answering
<1>18. TaskTalk(x, e, R) /\ WholeTalk(x, e, R)
  BY <1>10 DEF TaskTalk, WholeTalk
<1>19. ClientOK(e, R) /\ (~stops => WholeGot(e, R))
  <2>1. ClientOK(d, R) /\ (~stops => WholeGot(d, R))
    BY <1>2 DEF Pair
  <2>2. GotOK(e)
    BY <1>6, <2>1 DEF ClientOK, GotOK
  <2>3. WholeGot(d, R) => WholeGot(e, R)
    BY <1>6 DEF WholeGot
  <2>4. 0 <= All(R, d.k)
    BY <1>13
  <2>5. QED
    BY <1>6, <1>12, <2>1, <2>2, <2>3, <2>4 DEF ClientOK
<1>20. Stopped' /\ (~stops' => ~stops)
  BY <1>4, TypesStopped DEF Talks, Steady
<1>21. QED
  BY <1>1, <1>4, <1>7, <1>8, <1>17, <1>18, <1>19, <1>20, ServedTalks

\* ReadRequest returns false, and the connection is closed next.
LEMMA ReadFailsTalks == ASSUME Core, Talks, NEW t \in Thread, ReadFails(t) PROVE Talks'
<1>1. Serves(t) /\ Types /\ Goes(t)
  BY ReadFailsGoes DEF Serves, Serving, At, ReadFails, Core
<1>2. PICK c \in Client, s \in Service, d \in Talker, R \in Seq(Request) : Pair(t, c, s, d, R)
  BY <1>1, Paired
<1>3. /\ c = Peer(t) /\ s = th[t] /\ d = cl[c] /\ R = scene.reqs[c] /\ Talk(s, d, R)
      /\ s.at = "read" /\ Steady /\ UNCHANGED engineVars /\ UNCHANGED cl
  BY <1>2 DEF Pair, At, ReadFails, Steady
<1>4. PICK x \in Service : x = th'[t]
  BY <1>1 DEF Goes
<1>5. x = [s EXCEPT !.at = "close"]
  BY <1>1, <1>3, <1>4 DEF ReadFails, Goto, Types
<1>6. x.at = "close" /\ x.have = s.have
  BY <1>5 DEF Service
<1>7. d.k \in Nat /\ Len(R) \in Nat
  BY DEF Talker
<1>8. Talk(x, d, R)
  <2>1. d.at # "new" /\ (d.k > Len(R) => s.have = 0 /\ d.net = 0)
        /\ (d.k <= Len(R) => s.have + d.net <= All(R, d.k))
    BY <1>3 DEF Talk
  <2>2. ASSUME d.at = "open"
        PROVE  \/ x.have = 0 /\ Fresh(x, d)
               \/ Limbo(x, d, R)
               \/ /\ d.sent = x.have + d.net /\ d.k <= Len(R)
                  /\ d.got # <<>> => ~d.got[1].keep \/ Len(d.got) <= d.got[1].n
    <3>1. Fresh(s, d) \/ Limbo(s, d, R)
      BY <1>3, <2>2 DEF Talk
    <3>2. CASE Limbo(s, d, R)
      BY <1>6, <3>2 DEF Limbo
    <3>3. CASE Fresh(s, d)
      BY <1>6, <1>7, <2>1, <3>3 DEF Fresh
    <3>4. QED
      BY <3>1, <3>2, <3>3
  <2>3. QED
    BY <1>6, <2>1, <2>2 DEF Talk, Answering
<1>9. TaskTalk(x, d, R) /\ WholeTalk(x, d, R)
  BY <1>6 DEF TaskTalk, WholeTalk
<1>10. Stopped' /\ (~stops' => ~stops)
  BY <1>3, TypesStopped DEF Talks, Steady
<1>11. QED
  BY <1>1, <1>2, <1>3, <1>4, <1>8, <1>9, <1>10, ServedTalks DEF Pair

\* The response is over: the thread reads the next request ...
LEMMA ResetTalk ==
  ASSUME NEW s \in Service, NEW d \in Talker, NEW R \in Seq(Request), Talk(s, d, R), s.at = "send",
         s.keep_alive, d.at = "open", NEW e \in Talker, e.at = d.at, e.k = d.k, e.net = d.net,
         e.sent = d.sent, NEW x \in Service, x = [Idle EXCEPT !.at = "read", !.fd = s.fd]
  PROVE  Talk(x, e, R) /\ TaskTalk(x, e, R) /\ WholeTalk(x, e, R)
<1>1. /\ x.at = "read" /\ x.have = 0 /\ x.body = <<>> /\ x.send = 0 /\ x.ids = <<>>
      /\ x.result = <<>>
  BY DEF Idle
<1>2. /\ d.k <= Len(R) /\ s.have + d.net <= All(R, d.k) /\ s.have = All(R, d.k)
      /\ d.sent = s.have + d.net
  <2>1. d.k <= Len(R) /\ (s.keep_alive => R[d.k].length) /\ (R[d.k].length => s.have = All(R, d.k))
    BY DEF Talk, Answering
  <2>2. QED
    BY <2>1 DEF Talk
<1>3. d.net \in Nat /\ s.have \in Nat /\ d.k \in Nat /\ Len(R) \in Nat
  BY DEF Talker, Service
<1>4. e.net = 0 /\ e.sent = All(R, e.k) /\ ~(e.k > Len(R)) /\ e.k <= Len(R) /\ 0 + e.net <= All(R, e.k)
  BY <1>2, <1>3
<1>5. Limbo(x, e, R)
  BY <1>1, <1>4 DEF Limbo
<1>6. Talk(x, e, R)
  BY <1>1, <1>4, <1>5 DEF Talk, Answering, Blank
<1>7. QED
  BY <1>1, <1>6 DEF TaskTalk, WholeTalk

\* ... or closes the connection.
LEMMA ClosingTalk ==
  ASSUME NEW s \in Service, NEW d \in Talker, NEW R \in Seq(Request), Talk(s, d, R), s.at = "send",
         NEW e \in Talker, e.at = d.at, e.k = d.k, e.net = d.net, e.sent = d.sent,
         d.at = "open" => (e.got # <<>> => ~e.got[1].keep \/ Len(e.got) <= e.got[1].n),
         NEW x \in Service, x = [s EXCEPT !.at = "close"]
  PROVE  Talk(x, e, R) /\ TaskTalk(x, e, R) /\ WholeTalk(x, e, R)
<1>1. x.at = "close" /\ x.have = s.have
  BY DEF Service
<1>2. d.k \in Nat /\ Len(R) \in Nat
  BY DEF Talker
<1>3. /\ d.k <= Len(R) /\ d.at # "new"
      /\ d.at = "open" => d.sent = s.have + d.net
  BY DEF Talk, Answering
<1>4. s.have + d.net <= All(R, d.k) /\ ~(d.k > Len(R))
  BY <1>2, <1>3 DEF Talk
<1>5. Talk(x, e, R)
  BY <1>1, <1>3, <1>4 DEF Talk, Answering
<1>6. QED
  BY <1>1, <1>5 DEF TaskTalk, WholeTalk

\* What a client has got after some units p more.
LEMMA SentGot ==
  ASSUME NEW S, NEW g \in Seq(S), NEW p \in Seq(S), Len(p) > 0
  PROVE  /\ Len(g \o p) = Len(g) + Len(p) /\ g \o p # <<>>
         /\ g = <<>> => g \o p = p
         /\ g # <<>> => (g \o p)[1] = g[1]
<1>1. Len(g \o p) = Len(g) + Len(p) /\ Len(g) \in Nat /\ Len(p) \in Nat
  OBVIOUS
<1>2. g \o p # <<>>
  <2>1. Len(g \o p) # 0
    BY <1>1
  <2>2. QED
    BY <2>1
<1>3. g = <<>> => g \o p = p
  OBVIOUS
<1>4. g # <<>> => (g \o p)[1] = g[1]
  OBVIOUS
<1>5. QED
  BY <1>1, <1>2, <1>3, <1>4

LEMMA WriteTalks == ASSUME Core, Talks, NEW t \in Thread, Write(t) PROVE Talks'
<1>1. Serves(t) /\ Types /\ Goes(t) /\ At(t, "send")
  BY WriteGoes DEF Serves, Serving, At, Write, Core
<1>2. PICK c \in Client, s \in Service, d \in Talker, R \in Seq(Request) : Pair(t, c, s, d, R)
  BY <1>1, Paired
<1>3. Joined(t) /\ th[t].send <= Len(th[t].body)
  BY <1>1, CoreJoined DEF At
<1>4. PICK w \in Nat, b \in BOOLEAN : Sends(t, w, b)
  BY <1>1, <1>3, WriteTurns
<1>5. /\ c = Peer(t) /\ s = th[t] /\ d = cl[c] /\ R = scene.reqs[c] /\ Talk(s, d, R)
      /\ s.at = "send" /\ d.end = "no" /\ Steady /\ UNCHANGED engineVars
  BY <1>1, <1>2, <1>3, WriteTurns DEF Pair, At
<1>6. d.at = "open"
  BY <1>2, <1>5 DEF Pair, Open, Talker
<1>7. /\ d.k <= Len(R) /\ s.have >= 2 /\ (R[d.k].length => s.have = All(R, d.k))
      /\ (s.keep_alive => R[d.k].length)
      /\ d.sent = s.have + d.net /\ Len(d.got) = s.send
      /\ (~d.cut => d.got = <<>>)
      /\ (d.got # <<>> => d.got[1].n = Len(s.body) /\ (d.got[1].keep => s.keep_alive))
      /\ \A j \in 1..Len(s.body) : s.body[j] = [k |-> d.k, u |-> j]
  BY <1>5, <1>6 DEF Talk, Answering
<1>8. PICK q \in Seq(Piece \cup Header) :
        /\ q = Response(t) /\ Len(q) = Len(s.body) + 1
        /\ q[1] = [k |-> d.k, u |-> 0, code |-> s.code, n |-> Len(s.body), keep |-> s.keep_alive]
        /\ q[1] \in Header /\ \A j \in 1..Len(s.body) : q[j + 1] = s.body[j]
  BY <1>1, <1>3, <1>5, ResponseTyped
<1>9. /\ d.k \in Nat /\ Len(R) \in Nat /\ s.have \in Nat /\ d.net \in Nat /\ d.sent \in Nat
      /\ s.send \in Nat /\ s.body \in Seq(Piece) /\ d.got \in Seq(Piece \cup Header)
  BY DEF Talker, Service
<1>10. PICK n \in Nat : n = Len(s.body)
  BY <1>9
<1>11. w \in 1..n + 1 - s.send /\ w \in 1..Len(q) /\ s.send <= n
  <2>1. w \in 1..n + 1 - s.send /\ s.send <= n
    BY <1>3, <1>4, <1>5, <1>10 DEF Sends
  <2>2. QED
    BY <1>8, <1>9, <1>10, <2>1
<1>12. PICK e \in Talker : e = [d EXCEPT !.got = d.got \o SubSeq(q, 1, w), !.cut = b]
  BY <1>4, <1>5, <1>8 DEF Sends
<1>13. /\ e.at = d.at /\ e.k = d.k /\ e.sent = d.sent /\ e.net = d.net /\ e.end = d.end
       /\ e.got = d.got \o SubSeq(q, 1, w) /\ e.cut = b
  BY <1>12 DEF Talker
<1>14. cl'[c] = e /\ \A f \in Client \ {c} : cl'[f] = cl[f]
  <2>1. cl \in [Client -> Talker]
    BY <1>1 DEF Types
  <2>2. Alters(c, e)
    BY <1>4, <1>5, <1>8, <1>12 DEF Sends
  <2>3. QED
    BY <2>1, <2>2, Altered
<1>15. /\ Len(e.got) = s.send + w /\ e.got # <<>>
       /\ d.got = <<>> => \A j \in 1..w : e.got[j] = q[j]
       /\ d.got # <<>> => e.got[1] = d.got[1]
  <2>1. PICK g \in Seq(Piece \cup Header) : g = d.got
    BY <1>9
  <2>2. PICK p \in Seq(Piece \cup Header) :
          p = SubSeq(q, 1, w) /\ Len(p) = w /\ \A j \in 1..w : p[j] = q[j]
    BY <1>11, Prefix, ZenonT(60)
  <2>3. e.got = g \o p /\ Len(p) > 0
    BY <1>11, <1>13, <2>1, <2>2
  <2>4. /\ Len(g \o p) = Len(g) + Len(p) /\ g \o p # <<>>
        /\ g = <<>> => g \o p = p
        /\ g # <<>> => (g \o p)[1] = g[1]
    BY <2>3, SentGot
  <2>5. PICK z : z = g \o p
    OBVIOUS
  <2>6. Len(z) = Len(g) + w /\ z # <<>> /\ (g = <<>> => z = p) /\ (g # <<>> => z[1] = g[1])
    BY <2>2, <2>4, <2>5
  <2>7. e.got = z /\ Len(g) = s.send
    BY <1>7, <2>1, <2>3, <2>5
  <2>8. QED
    BY <2>1, <2>2, <2>6, <2>7
<1>16. b <=> d.cut \/ w < n + 1 - s.send
  BY <1>4, <1>5, <1>10 DEF Sends
<1>17. /\ e.got[1] \in Header /\ e.got[1].n = n /\ (e.got[1].keep => s.keep_alive)
  <2>1. CASE d.got = <<>>
    <3>1. e.got[1] = q[1]
      BY <1>11, <1>15, <2>1
    <3>2. q[1].n = n /\ q[1].keep = s.keep_alive
      BY <1>8, <1>10
    <3>3. QED
      BY <1>8, <3>1, <3>2
  <2>2. CASE d.got # <<>>
    BY <1>2, <1>7, <1>10, <1>15, <2>2 DEF Pair, ClientOK, GotOK
  <2>3. QED
    BY <2>1, <2>2
<1>18. GotOK(e)
  <2>1. SUFFICES ASSUME ~e.cut, NEW j \in 1..Len(e.got)
                 PROVE  e.got[j].k = e.k /\ e.got[j].u = j - 1 /\ j <= e.got[1].n + 1
    BY <1>17 DEF GotOK
  <2>2. ~d.cut /\ ~(w < n + 1 - s.send)
    BY <1>13, <1>16, <2>1
  <2>3. d.got = <<>>
    BY <1>7, <2>2
  <2>4. s.send = 0
    BY <1>7, <2>3
  <2>5. w = n + 1 /\ j \in 1..n + 1 /\ Len(e.got) = n + 1
    BY <1>9, <1>11, <1>15, <2>1, <2>2, <2>4
  <2>6. e.got[j] = q[j] /\ j <= n + 1
    BY <1>15, <2>3, <2>5
  <2>7. CASE j = 1
    <3>1. PICK h \in Header : h = q[1] /\ h.k = d.k /\ h.u = 0
      <4>1. PICK h \in Header : h = q[1]
        BY <1>8
      <4>2. h = [k |-> d.k, u |-> 0, code |-> s.code, n |-> Len(s.body), keep |-> s.keep_alive]
        BY <1>8, <4>1
      <4>3. h.k = d.k /\ h.u = 0
        BY <4>2
      <4>4. QED
        BY <4>1, <4>3
    <3>2. e.got[j] = h /\ e.got[1].n = n
      BY <1>17, <2>6, <2>7, <3>1
    <3>3. e.got[j].k = e.k /\ e.got[j].u = 0
      BY <1>13, <3>1, <3>2
    <3>4. j - 1 = 0 /\ j <= n + 1
      BY <2>6, <2>7
    <3>5. QED
      BY <3>2, <3>3, <3>4
  <2>8. CASE j # 1
    <3>1. PICK m \in 1..n : j = m + 1
      BY <2>5, <2>8
    <3>2. e.got[j] = [k |-> d.k, u |-> m]
      BY <1>7, <1>8, <1>10, <2>6, <3>1
    <3>3. e.got[j].k = d.k /\ e.got[j].u = m
      BY <3>2
    <3>4. QED
      <4>1. e.got[j].k = e.k /\ e.got[j].u = m /\ e.got[1].n = n
        BY <1>13, <1>17, <3>3
      <4>2. m = j - 1
        BY <3>1
      <4>3. QED
        BY <2>6, <4>1, <4>2
  <2>9. QED
    BY <2>7, <2>8
<1>19. ClientOK(e, R)
  <2>1. ClientOK(d, R)
    BY <1>2 DEF Pair
  <2>2. e.k <= Len(R) + 1 /\ e.k <= Len(R)
    BY <1>7, <1>9, <1>13
  <2>3. QED
    BY <1>6, <1>13, <1>18, <2>1, <2>2 DEF ClientOK
<1>20. ~stops => WholeGot(e, R)
  <2>1. SUFFICES ASSUME ~stops, R[d.k].m = "PROCESS", R[d.k].length, e.got[1].code = 200
                 PROVE  e.got[1].n = Len(R[d.k].body)
    BY <1>13 DEF WholeGot
  <2>2. CASE d.got = <<>>
    <3>1. e.got[1] = q[1]
      BY <1>11, <1>15, <2>2
    <3>2. q[1].n = n /\ q[1].code = s.code
      BY <1>8, <1>10
    <3>3. Len(s.body) = Len(R[d.k].body)
      BY <1>2, <1>5, <2>1, <3>1, <3>2 DEF Pair, WholeTalk
    <3>4. QED
      BY <1>10, <3>1, <3>2, <3>3
  <2>3. CASE d.got # <<>>
    BY <1>2, <1>7, <1>15, <2>1, <2>3, SMTT(30) DEF Pair, WholeGot
  <2>4. QED
    BY <2>2, <2>3
<1>21. PICK x \in Service : x = th'[t]
  BY <1>1 DEF Goes
<1>22. Stopped' /\ (~stops' => ~stops)
  BY <1>5, TypesStopped DEF Talks, Steady
<1>23. SUFFICES Talk(x, e, R) /\ TaskTalk(x, e, R) /\ (~stops => WholeTalk(x, e, R))
  BY <1>1, <1>5, <1>14, <1>19, <1>20, <1>21, <1>22, ServedTalks
<1>24. /\ e.at = "open" /\ e.k <= Len(R) /\ ~(e.k > Len(R)) /\ s.have + e.net <= All(R, e.k)
  BY <1>5, <1>6, <1>7, <1>9, <1>13 DEF Talk
<1>25. CASE w < Len(s.body) + 1 - s.send /\ Turns(t, [s EXCEPT !.send = s.send + w])
  <2>1. x = [s EXCEPT !.send = s.send + w]
    BY <1>1, <1>5, <1>21, <1>25 DEF Turns, Types
  <2>2. /\ x.at = "send" /\ x.have = s.have /\ x.keep_alive = s.keep_alive /\ x.body = s.body
        /\ x.send = s.send + w /\ x.code = s.code
    BY <1>5, <2>1 DEF Service
  <2>3. e.cut
    BY <1>10, <1>13, <1>16, <1>25
  <2>4. /\ e.sent = x.have + e.net /\ Len(e.got) = x.send
        /\ e.got[1].n = Len(x.body) /\ (e.got[1].keep => x.keep_alive)
    BY <1>7, <1>10, <1>13, <1>15, <1>17, <2>2
  <2>5. /\ x.have >= 2 /\ (R[e.k].length => x.have = All(R, e.k)) /\ (x.keep_alive => R[e.k].length)
        /\ \A j \in 1..Len(x.body) : x.body[j] = [k |-> e.k, u |-> j]
    BY <1>7, <1>13, <2>2
  <2>6. Talk(x, e, R)
    BY <1>24, <2>2, <2>3, <2>4, <2>5, SMTT(30) DEF Talk, Answering
  <2>7. TaskTalk(x, e, R) /\ (~stops => WholeTalk(x, e, R))
    BY <1>2, <1>5, <1>13, <2>2, SMTT(30) DEF TaskTalk, WholeTalk, Pair
  <2>8. QED
    BY <2>6, <2>7
<1>26. CASE w = Len(s.body) + 1 - s.send /\ s.keep_alive
            /\ Turns(t, [Idle EXCEPT !.at = "read", !.fd = s.fd])
  <2>1. x = [Idle EXCEPT !.at = "read", !.fd = s.fd]
    BY <1>1, <1>5, <1>21, <1>26 DEF Turns, Types
  <2>2. QED
    BY <1>2, <1>5, <1>6, <1>13, <1>24, <2>1, <1>26, ResetTalk
<1>27. CASE w = Len(s.body) + 1 - s.send /\ ~s.keep_alive /\ Turns(t, [s EXCEPT !.at = "close"])
  <2>1. x = [s EXCEPT !.at = "close"]
    BY <1>1, <1>5, <1>21, <1>27 DEF Turns, Types
  <2>2. ~e.got[1].keep
    BY <1>17, <1>27
  <2>3. QED
    BY <1>5, <1>7, <1>13, <1>24, <2>1, <2>2, ClosingTalk, ZenonT(60)
<1>28. QED
  BY <1>4, <1>5, <1>25, <1>26, <1>27 DEF Sends, Over

\* Likewise if the client has hung up.
LEMMA GoneTalk ==
  ASSUME NEW s \in Service, NEW d \in Talker, NEW R \in Seq(Request), Talk(s, d, R), s.at = "send",
         d.at # "open", NEW x \in Service, x = [Idle EXCEPT !.at = "read", !.fd = s.fd]
  PROVE  Talk(x, d, R) /\ TaskTalk(x, d, R) /\ WholeTalk(x, d, R)
<1>1. /\ x.at = "read" /\ x.have = 0 /\ x.body = <<>> /\ x.send = 0 /\ x.ids = <<>>
      /\ x.result = <<>>
  BY DEF Idle
<1>2. d.net \in Nat /\ s.have \in Nat /\ d.k \in Nat /\ Len(R) \in Nat /\ d.k \in Nat \ {0}
  BY DEF Talker, Service
<1>3. d.k <= Len(R) /\ d.at # "new"
  BY DEF Talk, Answering
<1>4. s.have + d.net <= All(R, d.k) /\ All(R, d.k) \in Nat /\ ~(d.k > Len(R))
  BY <1>2, <1>3, AskTyped DEF Talk
<1>5. 0 + d.net <= All(R, d.k)
  BY <1>2, <1>4
<1>6. Talk(x, d, R)
  BY <1>1, <1>3, <1>4, <1>5 DEF Talk, Answering, Blank
<1>7. QED
  BY <1>1, <1>6 DEF TaskTalk, WholeTalk

\* SendResponse gives up, or what it sends is lost.
LEMMA WriteEndsTalks ==
  ASSUME Core, Talks, NEW t \in Thread, WriteTimesOut(t) \/ LostQuietly(t)
  PROVE  Talks'
<1>1. Serves(t) /\ Types /\ Goes(t) /\ At(t, "send")
  BY WriteEndsGoes DEF Serves, Serving, At, WriteTimesOut, LostQuietly, Core
<1>2. PICK c \in Client, s \in Service, d \in Talker, R \in Seq(Request) : Pair(t, c, s, d, R)
  BY <1>1, Paired
<1>3. Joined(t) /\ th[t].send <= Len(th[t].body)
  BY <1>1, CoreJoined DEF At
<1>4. /\ c = Peer(t) /\ s = th[t] /\ d = cl[c] /\ R = scene.reqs[c] /\ Talk(s, d, R) /\ s.at = "send"
      /\ ClientOK(d, R) /\ (~stops => WholeGot(d, R)) /\ s.send <= Len(s.body)
  BY <1>1, <1>2, <1>3 DEF Pair, At
<1>5. Over(t) /\ Steady /\ UNCHANGED engineVars
  BY <1>1, <1>3, TimesOutTurns, AfterTurns DEF LostQuietly, Steady
<1>6. PICK e \in Talker :
        /\ e = cl'[c] /\ \A f \in Client \ {c} : cl'[f] = cl[f]
        /\ e.at = d.at /\ e.k = d.k /\ e.sent = d.sent /\ e.net = d.net /\ e.end = d.end
        /\ e.got = d.got /\ (~e.cut => ~d.cut)
        /\ d.at = "open" => WriteTimesOut(t)
        /\ d.at # "open" => e = d
  <2>1. CASE WriteTimesOut(t)
    <3>1. PICK e \in Talker : e = [d EXCEPT !.cut = TRUE] /\ Alters(c, e) /\ d.end = "no"
      BY <1>1, <1>3, <1>4, <2>1, TimesOutTurns
    <3>2. cl'[c] = e /\ \A f \in Client \ {c} : cl'[f] = cl[f]
      <4>1. cl \in [Client -> Talker]
        BY <1>1 DEF Types
      <4>2. QED
        BY <3>1, <4>1, Altered
    <3>3. /\ e.at = d.at /\ e.k = d.k /\ e.sent = d.sent /\ e.net = d.net /\ e.end = d.end
          /\ e.got = d.got /\ e.cut
      BY <3>1 DEF Talker
    <3>4. d.at = "open"
      BY <1>2, <3>1 DEF Pair, Open, Talker
    <3>5. QED
      BY <2>1, <3>2, <3>3, <3>4
  <2>2. CASE LostQuietly(t)
    <3>1. UNCHANGED cl /\ d.end # "no"
      BY <1>4, <2>2 DEF LostQuietly
    <3>2. d.at # "open"
      BY <1>4, <3>1 DEF ClientOK
    <3>3. QED
      BY <1>4, <3>1, <3>2
  <2>3. QED
    BY <2>1, <2>2
<1>7. ClientOK(e, R) /\ (~stops => WholeGot(e, R))
  <2>1. GotOK(e)
    BY <1>4, <1>6 DEF ClientOK, GotOK
  <2>2. d.at # "open" => e.cut = d.cut
    BY <1>6
  <2>3. d.at \in {"new", "open", "gone"} /\ e.cut \in BOOLEAN /\ d.cut \in BOOLEAN
    BY DEF Talker
  <2>4. ClientOK(e, R)
    BY <1>4, <1>6, <2>1, <2>2, <2>3 DEF ClientOK
  <2>5. ~stops => WholeGot(e, R)
    BY <1>4, <1>6 DEF WholeGot
  <2>6. QED
    BY <2>4, <2>5
<1>8. Stopped' /\ (~stops' => ~stops)
  BY <1>5, TypesStopped DEF Talks, Steady
<1>9. PICK x \in Service : x = th'[t]
  BY <1>1 DEF Goes
<1>10. Talk(x, e, R) /\ TaskTalk(x, e, R) /\ WholeTalk(x, e, R)
  <2>1. CASE s.keep_alive /\ Turns(t, [Idle EXCEPT !.at = "read", !.fd = s.fd])
    <3>1. x = [Idle EXCEPT !.at = "read", !.fd = s.fd]
      BY <1>1, <1>4, <1>9, <2>1 DEF Turns, Types
    <3>2. CASE d.at = "open"
      BY <1>4, <1>6, <2>1, <3>1, <3>2, ResetTalk
    <3>3. CASE d.at # "open"
      BY <1>4, <1>6, <3>1, <3>3, GoneTalk
    <3>4. QED
      BY <3>2, <3>3
  <2>2. CASE ~s.keep_alive /\ Turns(t, [s EXCEPT !.at = "close"])
    <3>1. x = [s EXCEPT !.at = "close"]
      BY <1>1, <1>4, <1>9, <2>2 DEF Turns, Types
    <3>2. d.at = "open" => (e.got # <<>> => ~e.got[1].keep \/ Len(e.got) <= e.got[1].n)
      BY <1>4, <1>6 DEF Talk
    <3>3. QED
      BY <1>4, <1>6, <3>1, <3>2, ClosingTalk
  <2>3. QED
    BY <1>4, <1>5, <2>1, <2>2 DEF Over
<1>11. QED
  BY <1>1, <1>4, <1>6, <1>7, <1>8, <1>9, <1>10, ServedTalks

\* A request that is handled is one its client has made.
LEMMA Asked ==
  ASSUME Core, Talks, NEW t \in Thread, th[t].at \in Answering
  PROVE  cl[Peer(t)].k \in 1..Len(scene.reqs[Peer(t)])
<1>1. Serves(t)
  BY DEF Serves, Serving, Answering
<1>2. PICK c \in Client, s \in Service, d \in Talker, R \in Seq(Request) : Pair(t, c, s, d, R)
  BY <1>1, Paired
<1>3. d.k <= Len(R) /\ c = Peer(t) /\ d = cl[c] /\ R = scene.reqs[c]
  BY <1>2 DEF Pair, Talk
<1>4. d.k \in Nat \ {0} /\ Len(R) \in Nat
  BY DEF Talker
<1>5. d.k \in 1..Len(R)
  BY <1>3, <1>4
<1>6. QED
  BY <1>3, <1>5

LEMMA ShutdownTalks == ASSUME Core, Talks, NEW t \in Thread, HandleShutdown(t) PROVE Talks'
<1>1. /\ Types /\ Others /\ InService /\ OneEach /\ Closes(main_socket) /\ At(t, "handle")
      /\ UNCHANGED <<scene, dead, engineVars>> /\ Ask(t).m = "SHUTDOWN"
  BY CloseFdCloses DEF Core, HandleShutdown, Handles
<1>2. Serves(t)
  BY <1>1 DEF Serves, Serving, At
<1>3. Joined(t) /\ th[t].send = 0
  BY <1>1, <1>2, CoreJoined DEF At
<1>4. Core' /\ \E code \in Code : Answers(t, code)
  BY <1>1, Asked, ShutdownCore DEF At, Answering
<1>5. PICK code \in Code : Answers(t, code)
  BY <1>4
<1>6. PICK c \in Client, s \in Service, d \in Talker, R \in Seq(Request) : Pair(t, c, s, d, R)
  BY <1>2, Paired
<1>7. c = Peer(t) /\ s = th[t] /\ d = cl[c] /\ R = scene.reqs[c] /\ Talk(s, d, R) /\ s.at = "handle"
  BY <1>1, <1>6 DEF Pair, At
<1>8. th' \in [Thread -> Service] /\ \A u \in Thread \ {t} : th'[u] = th[u]
  BY <1>1, <1>3, <1>5, AnswersTyped
<1>9. PICK b \in Seq(Piece) : /\ b \in {s.body, Append(s.body, Unit(t, 1)), <<Unit(t, 1)>>}
                              /\ th'[t] = [s EXCEPT !.at = "send", !.code = code, !.body = b]
  <2>1. \E b \in Seq(Piece) : /\ b \in {th[t].body, Append(th[t].body, Unit(t, 1)), <<Unit(t, 1)>>}
                              /\ th'[t] = [th[t] EXCEPT !.at = "send", !.code = code, !.body = b]
    <3>1. Types /\ Joined(t) /\ Answers(t, code)
      BY <1>1, <1>3, <1>5
    <3>2. QED
      BY <3>1, AnswersTyped, Zenon
  <2>2. QED
    BY <1>7, <2>1
<1>10. PICK x \in Service : x = th'[t]
  BY <1>8
<1>11. /\ x.at = "send" /\ x.have = s.have /\ x.keep_alive = s.keep_alive /\ x.send = s.send
       /\ x.body = b /\ x.code = code /\ x.fd = s.fd
  BY <1>9, <1>10 DEF Service
<1>12. b \in {<<>>, <<[k |-> d.k, u |-> 1]>>}
  <2>1. Unit(t, 1) = [k |-> d.k, u |-> 1]
    BY <1>7 DEF Unit
  <2>2. \A p : Append(<<>>, p) = <<p>>
    OBVIOUS
  <2>3. s.body = <<>>
    BY <1>7 DEF Talk, Blank
  <2>4. QED
    BY <1>9, <2>1, <2>2, <2>3
<1>13. Talk(x, d, R) /\ TaskTalk(x, d, R)
  BY <1>3, <1>7, <1>11, <1>12, AnswerTalk
<1>14. WholeTalk(x, d, R)
  <2>1. d.k <= Len(R)
    BY <1>7 DEF Talk, Answering
  <2>2. R[d.k].m = "SHUTDOWN"
    BY <1>1, <1>6, <2>1 DEF Pair
  <2>3. QED
    BY <1>11, <2>2 DEF WholeTalk
<1>15. Stopped' /\ (~stops' => ~stops)
  BY <1>1, TypesStopped DEF Talks
<1>16. \A u \in Thread : /\ Serves(u)' <=> Serves(u)
                         /\ Serves(u) => Peer(u)' = Peer(u)
  <2>1. \A u \in Thread : (Serves(u)' <=> Serves(u)) /\ th'[u].fd = th[u].fd
    BY <1>2, <1>7, <1>8, <1>10, <1>11 DEF Serves, Serving
  <2>2. \A u \in Thread : Serves(u) => th[u].fd \in Fd /\ fds[th[u].fd] \in Client
    BY <1>1 DEF InService, Peer
  <2>3. \A n \in Fd : fds[n] \in Client => fds'[n] = fds[n]
    BY <1>1 DEF Others, Closes
  <2>4. QED
    BY <2>1, <2>2, <2>3 DEF Peer
<1>17. \A f \in Client, u \in Thread : Together(u, f)' <=> Together(u, f)
  BY <1>16 DEF Together
<1>18. Together(t, c)
  BY <1>2, <1>7 DEF Together
<1>19. \A f \in Client : \/ cl'[f] = cl[f]
                         \/ cl'[f] = Gone(f) /\ \A u \in Thread : ~Together(u, f)
  BY <1>1, NotServed DEF Closes
<1>20. Fine(c)'
  <2>1. cl'[c] = d /\ scene'.reqs[c] = R /\ Together(t, c)'
    BY <1>1, <1>7, <1>17, <1>18, <1>19
  <2>2. ClientOK(d, R) /\ (~stops' => WholeGot(d, R))
    BY <1>6, <1>15 DEF Pair
  <2>3. QED
    BY <1>4, <1>10, <1>13, <1>14, <2>1, <2>2, FineServed
<1>21. ASSUME NEW f \in Client \ {c} PROVE Fine(f)'
  <2>1. \A u \in Thread : Together(u, f) => th'[u] = th[u]
    BY <1>7, <1>8, <1>21 DEF Together
  <2>2. QED
    BY <1>1, <1>15, <1>17, <1>19, <2>1, FineMoved DEF Talks
<1>22. QED
  BY <1>15, <1>20, <1>21 DEF Talks

\* A step of a client: only its record changes, from d to e.
LEMMA ClientTalks ==
  ASSUME Core, Talks, NEW c \in Client, Steady, UNCHANGED <<th, engineVars>>, NEW e \in Talker,
         Alters(c, e), ClientOK(e, scene.reqs[c]), ~stops => WholeGot(e, scene.reqs[c]),
         \A t \in Thread : Together(t, c) =>
           /\ Talk(th[t], e, scene.reqs[c]) /\ TaskTalk(th[t], e, scene.reqs[c])
           /\ ~stops => WholeTalk(th[t], e, scene.reqs[c]),
         e.at = "open" => (\E t \in Thread : Together(t, c)) \/ Untaken(e)
  PROVE  Talks'
<1>1. cl' \in [Client -> Talker] /\ cl'[c] = e /\ \A f \in Client \ {c} : cl'[f] = cl[f]
  <2>1. cl \in [Client -> Talker]
    BY DEF Core, Types
  <2>2. QED
    BY <2>1, Altered
<1>2. UNCHANGED <<scene, dead, fds>> /\ UNCHANGED <<stops, engine>>
  BY DEF Steady, engineVars
<1>3. Stopped' /\ (~stops' => ~stops)
  BY <1>2, TypesStopped DEF Talks
<1>4. \A u \in Thread, f \in Client : (Together(u, f)' <=> Together(u, f)) /\ th'[u] = th[u]
  BY <1>2 DEF Together, Serves, Peer
<1>5. Fine(c)'
  BY <1>1, <1>2, <1>4 DEF Fine
<1>6. \A f \in Client \ {c} : Fine(f)'
  BY <1>1, <1>2, <1>3, <1>4, FineKept DEF Talks
<1>7. QED
  BY <1>3, <1>5, <1>6 DEF Talks

LEMMA TogetherPair ==
  ASSUME Core, Talks, NEW t \in Thread, NEW c \in Client, Together(t, c)
  PROVE  \E s \in Service : s = th[t] /\ s.at \in Serving /\ Pair(t, c, s, cl[c], scene.reqs[c])
<1>1. Serves(t) /\ Peer(t) = c
  BY DEF Together
<1>2. PICK f \in Client, s \in Service, d \in Talker, R \in Seq(Request) : Pair(t, f, s, d, R)
  BY <1>1, Paired
<1>3. f = c /\ s = th[t] /\ d = cl[c] /\ R = scene.reqs[c]
  BY <1>1, <1>2 DEF Pair
<1>4. QED
  BY <1>1, <1>2, <1>3 DEF Serves

LEMMA SendTalks == ASSUME Core, Talks, NEW c \in Client, Send(c) PROVE Talks'
<1>1. Types /\ Fine(c)
  BY DEF Core, Talks
<1>2. PICK d \in Talker, R \in Seq(Request) : d = cl[c] /\ R = scene.reqs[c]
  BY <1>1, RequestTyped DEF Types
<1>3. /\ Steady /\ UNCHANGED <<th, engineVars>> /\ d.at = "open" /\ d.k \in 1..Len(R)
  BY <1>1, <1>2, SendAlters
<1>4. PICK n \in Nat \ {0}, e \in Talker :
        /\ d.sent + n <= All(R, d.k) /\ Alters(c, e)
        /\ e = [d EXCEPT !.sent = d.sent + n, !.net = d.net + n]
  BY <1>1, <1>2, SendAlters
<1>5. /\ e.at = d.at /\ e.k = d.k /\ e.sent = d.sent + n /\ e.net = d.net + n /\ e.end = d.end
      /\ e.got = d.got /\ e.cut = d.cut
  BY <1>4 DEF Talker
<1>6. /\ d.k \in Nat \ {0} /\ d.sent \in Nat /\ d.net \in Nat /\ Len(R) \in Nat /\ d.k <= Len(R)
      /\ All(R, d.k) \in Nat
  <2>1. d.k \in Nat \ {0} /\ d.sent \in Nat /\ d.net \in Nat /\ Len(R) \in Nat /\ d.k <= Len(R)
    BY <1>3 DEF Talker
  <2>2. QED
    BY <2>1, AskTyped
<1>7. ClientOK(d, R) /\ (~stops => WholeGot(d, R))
  BY <1>1, <1>2 DEF Fine
<1>8. ASSUME NEW t \in Thread, Together(t, c)
      PROVE  /\ d.net <= d.sent
             /\ Talk(th[t], e, R) /\ TaskTalk(th[t], e, R) /\ (~stops => WholeTalk(th[t], e, R))
  <2>1. PICK s \in Service : s = th[t] /\ s.at \in Serving /\ Pair(t, c, s, d, R)
    BY <1>2, <1>8, TogetherPair
  <2>2. /\ Talk(s, d, R) /\ TaskTalk(s, d, R) /\ (~stops => WholeTalk(s, d, R))
    BY <2>1 DEF Pair
  <2>3. s.have \in Nat
    BY DEF Service
  <2>4. ~Limbo(s, d, R)
    BY <1>4, <1>6 DEF Limbo
  <2>5. d.sent = s.have + d.net
    BY <1>3, <1>6, <2>1, <2>2, <2>4 DEF Talk, Fresh, Serving
  <2>6. /\ e.sent = s.have + e.net /\ s.have + e.net <= All(R, e.k) /\ d.net <= d.sent
        /\ e.k <= Len(R) /\ ~(e.k > Len(R))
    BY <1>4, <1>5, <1>6, <2>3, <2>5
  <2>7. Fresh(s, d) => Fresh(s, e)
    BY <1>5, <2>6 DEF Fresh
  <2>8. Talk(s, e, R)
    BY <1>3, <1>5, <2>2, <2>4, <2>6, <2>7 DEF Talk
  <2>9. TaskTalk(s, e, R) /\ (~stops => WholeTalk(s, e, R))
    BY <1>5, <2>2 DEF TaskTalk, WholeTalk
  <2>10. QED
    BY <2>1, <2>6, <2>8, <2>9
<1>9. (\E t \in Thread : Together(t, c)) \/ Untaken(d)
  BY <1>1, <1>2, <1>3 DEF Fine
<1>10. Untaken(d) => Untaken(e)
  BY <1>5 DEF Untaken
<1>11. d.net <= d.sent
  BY <1>6, <1>8, <1>9 DEF Untaken
<1>12. ClientOK(e, R)
  <2>1. GotOK(e)
    BY <1>5, <1>7 DEF ClientOK, GotOK
  <2>2. e.k <= Len(R) + 1 /\ e.k <= Len(R) /\ e.sent <= All(R, e.k) /\ e.net <= All(R, e.k)
    BY <1>4, <1>5, <1>6, <1>11
  <2>3. QED
    BY <1>3, <1>5, <1>7, <2>1, <2>2 DEF ClientOK
<1>13. ~stops => WholeGot(e, R)
  BY <1>5, <1>7 DEF WholeGot
<1>14. QED
  BY <1>2, <1>3, <1>4, <1>8, <1>9, <1>10, <1>12, <1>13, ClientTalks

\* A client that has its response, and may go on, is one whose thread reads again.
LEMMA NextLimbo ==
  ASSUME Core, Talks, NEW c \in Client, NextRequest(c), NEW t \in Thread, Together(t, c)
  PROVE  Limbo(th[t], cl[c], scene.reqs[c]) /\ th[t].at \in {"read", "close"}
<1>1. Types /\ Fine(c)
  BY DEF Core, Talks
<1>2. PICK d \in Talker, R \in Seq(Request) : d = cl[c] /\ R = scene.reqs[c]
  BY <1>1, RequestTyped, SMTT(30) DEF Types
<1>3. d.at = "open" /\ d.got # <<>> /\ Len(d.got) > d.got[1].n /\ d.got[1].keep
  BY <1>1, <1>2, NextAlters DEF Answered
<1>4. d.got \in Seq(Piece \cup Header) /\ Len(d.got) \in Nat /\ d.got[1].n \in Nat
  <2>1. d.got \in Seq(Piece \cup Header)
    BY DEF Talker
  <2>2. d.got[1] \in Header
    BY <1>1, <1>2, <1>3 DEF Fine, ClientOK, GotOK
  <2>3. QED
    BY <2>1, <2>2 DEF Header
<1>5. ~(Len(d.got) <= d.got[1].n)
  BY <1>3, <1>4
<1>6. PICK s \in Service : s = th[t] /\ s.at \in Serving /\ Pair(t, c, s, d, R)
  BY <1>2, TogetherPair
<1>7. Talk(s, d, R)
  BY <1>6 DEF Pair
<1>8. s.at # "send"
  <2>1. SUFFICES ASSUME s.at = "send" PROVE FALSE
    OBVIOUS
  <2>2. Len(d.got) = s.send /\ d.got[1].n = Len(s.body)
    BY <1>3, <1>7, <2>1 DEF Talk
  <2>3. s.send <= Len(s.body)
    BY <1>6, <2>1, CoreJoined DEF Together
  <2>4. QED
    BY <1>5, <2>2, <2>3
<1>9. ~Fresh(s, d)
  BY <1>3 DEF Fresh
<1>10. QED
  BY <1>2, <1>3, <1>5, <1>6, <1>7, <1>8, <1>9 DEF Talk, Serving

LEMMA NextTalks == ASSUME Core, Talks, NEW c \in Client, NextRequest(c) PROVE Talks'
<1>1. Types /\ Fine(c)
  BY DEF Core, Talks
<1>2. PICK d \in Talker, R \in Seq(Request) : d = cl[c] /\ R = scene.reqs[c]
  BY <1>1, RequestTyped DEF Types
<1>3. /\ Steady /\ UNCHANGED <<th, engineVars>> /\ d.at = "open" /\ d.got # <<>>
      /\ Len(d.got) > d.got[1].n /\ d.got[1].keep
  BY <1>1, <1>2, NextAlters DEF Answered
<1>4. PICK e \in Talker :
        /\ Alters(c, e) /\ e = [d EXCEPT !.k = d.k + 1, !.sent = 0, !.got = <<>>, !.cut = FALSE]
  BY <1>1, <1>2, NextAlters
<1>5. /\ e.at = d.at /\ e.k = d.k + 1 /\ e.sent = 0 /\ e.net = d.net /\ e.end = d.end
      /\ e.got = <<>> /\ ~e.cut
  BY <1>4 DEF Talker
<1>6. d.k \in Nat \ {0} /\ d.sent \in Nat /\ d.net \in Nat /\ Len(R) \in Nat /\ e.k \in Nat \ {0}
  BY DEF Talker
<1>7. ClientOK(d, R) /\ (~stops => WholeGot(d, R))
  BY <1>1, <1>2 DEF Fine
<1>10. e.k <= Len(R) => All(R, e.k) \in Nat
  BY <1>6, AskTyped
<1>11. ASSUME NEW t \in Thread, Together(t, c)
       PROVE  /\ d.net = 0
              /\ Talk(th[t], e, R) /\ TaskTalk(th[t], e, R) /\ (~stops => WholeTalk(th[t], e, R))
  <2>1. PICK s \in Service : s = th[t] /\ s.at \in Serving /\ Pair(t, c, s, d, R)
    BY <1>2, <1>11, TogetherPair
  <2>2. Talk(s, d, R)
    BY <2>1 DEF Pair
  <2>5. Limbo(s, d, R) /\ s.at \in {"read", "close"}
    BY <1>2, <1>11, <2>1, NextLimbo
  <2>6. s.have = 0 /\ d.net = 0
    BY <2>5 DEF Limbo
  <2>7. Fresh(s, e)
    BY <1>5, <2>6 DEF Fresh
  <2>8. s.at = "read" => Blank(s) /\ s.ids = <<>> /\ s.result = <<>>
    BY <2>2 DEF Talk
  <2>9. e.k <= Len(R) => s.have + e.net <= All(R, e.k)
    BY <1>5, <1>10, <2>6
  <2>10. Talk(s, e, R)
    BY <1>3, <1>5, <2>5, <2>6, <2>7, <2>8, <2>9 DEF Talk, Answering
  <2>11. TaskTalk(s, e, R) /\ WholeTalk(s, e, R)
    BY <2>5 DEF TaskTalk, WholeTalk
  <2>12. QED
    BY <2>1, <2>6, <2>10, <2>11
<1>12. \E t \in Thread : Together(t, c)
  BY <1>1, <1>2, <1>3 DEF Fine, Untaken
<1>13. ClientOK(e, R)
  <2>1. GotOK(e)
    <3>1. 1..Len(<<>>) = {}
      OBVIOUS
    <3>2. QED
      BY <1>5, <3>1 DEF GotOK
  <2>2. d.net = 0
    BY <1>11, <1>12
  <2>3. e.k <= Len(R) + 1
    <3>1. d.k <= Len(R)
      BY <1>3, <1>7 DEF ClientOK
    <3>2. QED
      BY <1>5, <1>6, <3>1
  <2>4. QED
    BY <1>3, <1>5, <1>7, <1>10, <2>1, <2>2, <2>3 DEF ClientOK
<1>14. WholeGot(e, R)
  BY <1>5 DEF WholeGot
<1>15. QED
  BY <1>2, <1>3, <1>4, <1>11, <1>12, <1>13, <1>14, ClientTalks, SMTT(30)

LEMMA HangUpTalks == ASSUME Core, Talks, NEW c \in Client, HangUp(c) PROVE Talks'
<1>1. Types /\ Fine(c)
  BY DEF Core, Talks
<1>2. PICK d \in Talker, R \in Seq(Request) : d = cl[c] /\ R = scene.reqs[c]
  BY <1>1, RequestTyped DEF Types
<1>3. Steady /\ UNCHANGED <<th, engineVars>> /\ d.at = "open"
  BY <1>1, <1>2, HangUpAlters
<1>4. PICK e \in Talker :
        /\ e.at = "gone" /\ e.k = d.k /\ e.sent = 0 /\ e.net = d.net
        /\ e.end # "no" /\ e.got = <<>> /\ ~e.cut /\ Alters(c, e)
  BY <1>1, <1>2, HangUpAlters
<1>5. ClientOK(d, R)
  BY <1>1, <1>2 DEF Fine
<1>6. ClientOK(e, R) /\ WholeGot(e, R)
  <2>1. 1..Len(<<>>) = {}
    OBVIOUS
  <2>2. GotOK(e)
    BY <1>4, <2>1 DEF GotOK
  <2>3. d.k \in Nat \ {0} /\ (d.k <= Len(R) => 0 <= All(R, d.k))
    <3>1. d.k \in Nat \ {0}
      BY DEF Talker
    <3>2. QED
      BY <3>1, AskTyped
  <2>4. QED
    BY <1>4, <1>5, <2>2, <2>3 DEF ClientOK, WholeGot
<1>7. ASSUME NEW t \in Thread, Together(t, c)
      PROVE  Talk(th[t], e, R) /\ TaskTalk(th[t], e, R) /\ (~stops => WholeTalk(th[t], e, R))
  <2>1. PICK s \in Service : s = th[t] /\ s.at \in Serving /\ Pair(t, c, s, d, R)
    BY <1>2, <1>7, TogetherPair
  <2>2. Talk(s, d, R) /\ TaskTalk(s, d, R) /\ (~stops => WholeTalk(s, d, R))
    BY <2>1 DEF Pair
  <2>3. Talk(s, e, R)
    BY <1>4, <2>2 DEF Talk
  <2>4. TaskTalk(s, e, R) /\ (~stops => WholeTalk(s, e, R))
    BY <1>4, <2>2 DEF TaskTalk, WholeTalk
  <2>5. QED
    BY <2>1, <2>3, <2>4
<1>8. QED
  BY <1>2, <1>3, <1>4, <1>6, <1>7, ClientTalks

LEMMA TalksInit == Init => Talks
<1> SUFFICES ASSUME Init PROVE Talks
  OBVIOUS
<1>1. Types /\ \A t \in Thread : ~Serves(t)
  <2>1. Idle.at = "off"
    BY DEF Idle
  <2>2. QED
    BY <2>1, TypesInit DEF Init, Serves, Serving
<1>2. Stopped
  BY <1>1, HttpAssumption DEF Stopped, Init
<1>3. SUFFICES ASSUME NEW c \in Client PROVE Fine(c)
  BY <1>2 DEF Talks
<1>4. PICK d \in Talker, R \in Seq(Request) : d = cl[c] /\ R = scene.reqs[c]
  BY <1>1, RequestTyped DEF Types
<1>5. d.at = "new" /\ d.k = 1 /\ d.sent = 0 /\ d.net = 0 /\ d.end = "no" /\ d.got = <<>> /\ ~d.cut
  BY <1>4 DEF Init
<1>6. 1..Len(<<>>) = {} /\ Len(R) \in Nat
  OBVIOUS
<1>7. d.k <= Len(R) => All(R, d.k) \in Nat
  BY <1>5, AskTyped
<1>8. ClientOK(d, R) /\ WholeGot(d, R)
  BY <1>5, <1>6, <1>7 DEF ClientOK, GotOK, WholeGot
<1>9. QED
  BY <1>1, <1>4, <1>5, <1>8 DEF Fine, Together

LEMMA ServiceTalks == ASSUME Core, Talks, NEW t \in Thread, Service1(t) PROVE Talks'
<1>1. ASSUME SubmitBad(t) \/ SubmitRefused(t) \/ SubmitEnd(t) PROVE Talks'
  BY <1>1, PassedTalks
<1>2. QED
  BY <1>1, ReadTalks, ReadFailsTalks, WriteTalks, WriteEndsTalks, HandleTalks, ResourcesTalks,
     SubmitTalks, CollectOneTalks, CollectAllTalks DEF Service1

Told == Core /\ Talks

LEMMA ToldStep == Told /\ [Next]_vars => Told'
<1>1. SUFFICES ASSUME Told, [Next]_vars PROVE Told'
  OBVIOUS
<1>2. Core /\ Talks
  BY <1>1 DEF Told
<1>3. CASE MainOrOther
  <2>1. \/ PlainStep \/ OpenSocket \/ Accept \/ AcceptedRefused \/ AcceptedPut \/ CloseMain \/ StopQueue
        \/ StopServer \/ Exit \/ CreateThreads \/ OpenFile \/ CloseFile
    BY <1>3 DEF MainOrOther, MainStep, ControlStep, PlainStep
  <2>2. Talks'
    BY <1>2, <2>1, PlainTalks, SocketTalks, CloseTalks, RestTalks, EndTalks
  <2>3. QED
    BY <1>2, <1>3, <2>2, OtherCore DEF Told
<1>4. ASSUME NEW t \in Thread, ThreadStep(t) PROVE Told'
  <2>1. \/ Service1(t) \/ Top(t) \/ Cancelled(t) \/ GetItem(t) \/ CloseConn(t) \/ HandleShutdown(t)
        \/ Die
    BY <1>4 DEF ThreadStep, Service1, WriteLost, LostQuietly, CollectSome, HandlesNow
  <2>2. HandleShutdown(t) => cl[Peer(t)].k \in 1..Len(scene.reqs[Peer(t)])
    BY <1>2, Asked DEF HandleShutdown, Handles, At, Answering
  <2>3. Core'
    BY <1>2, <1>4, <2>2, ThreadCore
  <2>4. Talks'
    BY <1>2, <2>1, ServiceTalks, RestTalks, GetItemTalks, CloseConnTalks, ShutdownTalks, EndTalks
  <2>5. QED
    BY <2>3, <2>4 DEF Told
<1>5. ASSUME NEW c \in Client, Connect(c) \/ Send(c) \/ NextRequest(c) \/ HangUp(c) PROVE Told'
  BY <1>2, <1>5, ConnectCore, ClientCore, ConnectTalks, SendTalks, NextTalks, HangUpTalks DEF Told
<1>6. CASE UNCHANGED vars
  <2>1. Core'
    BY <1>2, <1>6 DEF Core, Types, MainOK, Waiting, InService, Others, OneEach, Rested, Sending, Peer,
       Serves, Listening, FileOpen, NoShutdown, vars
  <2>2. Talks'
    BY <1>2, <1>6 DEF Talks, Stopped, Fine, Together, Serves, Peer, vars
  <2>3. QED
    BY <2>1, <2>2 DEF Told
<1>7. QED
  BY <1>1, <1>3, <1>4, <1>5, <1>6 DEF Next, MainOrOther

LEMMA ToldApart == Told => DescriptorsApart
<1>1. SUFFICES ASSUME Core, Talks PROVE DescriptorsApart
  BY DEF Told
<1>2. Types /\ Waiting /\ InService /\ Others
  BY <1>1 DEF Core
<1>3. \A t \in Thread :
        /\ th[t].at \in Serving \cup {"off", "top", "get", "done"} /\ th[t].fd \in Fd \cup {NoFd}
        /\ th[t].code \in Code /\ th[t].have \in Nat /\ th[t].send \in Nat
  BY <1>2 DEF Types, Service
<1>4. ASSUME NEW c \in Client
      PROVE  /\ cl[c].at \in {"new", "open", "gone"} /\ cl[c].k \in 1..Len(scene.reqs[c]) + 1
             /\ cl[c].net \in Nat /\ cl[c].end \in {"no", "fin", "reset"}
  <2>1. PICK d \in Talker, R \in Seq(Request) : d = cl[c] /\ R = scene.reqs[c]
    BY <1>2, RequestTyped DEF Types
  <2>2. d.k <= Len(R) + 1
    BY <1>1, <2>1 DEF Talks, Fine, ClientOK
  <2>3. /\ d.at \in {"new", "open", "gone"} /\ d.k \in Nat \ {0} /\ Len(R) \in Nat
        /\ d.net \in Nat /\ d.end \in {"no", "fin", "reset"}
    BY DEF Talker
  <2>4. d.k \in 1..Len(R) + 1
    BY <2>2, <2>3
  <2>5. QED
    BY <2>1, <2>3, <2>4
<1>5. TypeOK
  BY <1>2, <1>3, <1>4 DEF Types, TypeOK, MainAt, Setting, Early, Serving, Code
<1>6. \A t \in Thread : Busy(t) <=> Serves(t)
  BY <1>3 DEF Busy, Serves, Serving
<1>7. ConnectionsApart
  BY <1>2, <1>6 DEF ConnectionsApart, Waiting, InService
<1>8. FilesKept
  BY <1>2 DEF FilesKept, Others, NoShutdown, FileOpen
<1>9. QED
  BY <1>5, <1>7, <1>8 DEF DescriptorsApart

LEMMA ToldInit == Init => Told
BY CoreInit, TalksInit DEF Told

(***************************************************************************)
(* The descriptor a service thread works with, or that waits in the queue, *)
(* is an open connection of a client, no two of them are the same and      *)
(* nobody else closes it: however many clients, threads and descriptors    *)
(* there are, whatever is asked for, whoever hangs up and however the      *)
(* server ends.  A server that is never asked to shut down by a client     *)
(* closes no file that a module has open.                                  *)
(***************************************************************************)
THEOREM Descriptors == Spec => []DescriptorsApart
<1>1. Init => Told
  BY ToldInit
<1>2. Told /\ [Next]_vars => Told'
  BY ToldStep
<1>3. Told => DescriptorsApart
  BY ToldApart
<1>4. QED
  BY <1>1, <1>2, <1>3, PTL DEF Spec

(***************************************************************************)
(* The resources in the engine.                                            *)
(***************************************************************************)
Known == inside \cup finished
Quiet(c) == \A r \in Known : r.c # c
\* Nothing new comes in, and nothing is left in an engine that has stopped.
Emptied ==
  /\ inside' \cap finished' = {}
  /\ engine'["out"] = "off" => inside' = {} /\ finished' = {}

LEMMA KnownTyped ==
  ASSUME Core
  PROVE  Known \subseteq Task /\ \A r \in Task : r.c \in Client /\ r.k \in Nat /\ r.i \in Nat
BY DEF Core, Types, Known, Task

LEMMA TaskKept ==
  ASSUME NEW r, TaskOK(r), UNCHANGED scene, cl'[r.c] = cl[r.c],
         \A j \in 1..Len(backlog') : backlog'[j] # r.c,
         \A n \in Fd : fds'[n] = r.c => fds[n] = r.c,
         \A u \in Thread : Together(u, r.c)' <=> Together(u, r.c),
         \A u \in Thread : Together(u, r.c) => th'[u] = th[u]
  PROVE  TaskOK(r)'
<1>1. Bad(r)' <=> Bad(r)
  BY DEF Bad
<1>2. Sent1(r)'
  <2>1. SUFFICES ASSUME NEW n \in Fd, fds'[n] = r.c
                 PROVE  \E t \in Thread : Serves(t)' /\ th'[t].fd = n
    BY DEF TaskOK, Sent1
  <2>2. PICK t \in Thread : Serves(t) /\ th[t].fd = n
    BY <2>1 DEF TaskOK, Sent1
  <2>3. Together(t, r.c)
    BY <2>1, <2>2 DEF Together, Peer
  <2>4. QED
    BY <2>2, <2>3 DEF Together
<1>3. QED
  BY <1>1, <1>2 DEF TaskOK, Own

LEMMA NoTask ==
  ASSUME Tasks, NEW c \in Client,
         \/ \E j \in 1..Len(backlog) : backlog[j] = c
         \/ cl[c].at = "new"
         \/ \E n \in Fd : fds[n] = c /\ \A t \in Thread : Serves(t) => th[t].fd # n
  PROVE  Quiet(c)
BY DEF Tasks, TaskOK, Sent1, Quiet, Known

LEMMA TasksMoved ==
  ASSUME Core, Tasks, UNCHANGED scene, Emptied, Known' \subseteq Known,
         \A u \in Thread : Serves(u)' <=> Serves(u),
         \A u \in Thread : Serves(u) => th'[u] = th[u] /\ Peer(u)' = Peer(u),
         \A c \in Client : \/ Quiet(c)
                           \/ /\ cl'[c] = cl[c]
                              /\ \A j \in 1..Len(backlog') : backlog'[j] # c
                              /\ \A n \in Fd : fds'[n] = c => fds[n] = c
  PROVE  Tasks'
<1>1. ASSUME NEW r \in Known' PROVE TaskOK(r)'
  <2>1. r \in Known /\ r.c \in Client /\ TaskOK(r)
    BY <1>1, KnownTyped DEF Tasks, Known
  <2>2. ~Quiet(r.c)
    BY <2>1 DEF Quiet
  <2>3. \A u \in Thread : (Together(u, r.c)' <=> Together(u, r.c)) /\ (Together(u, r.c) => th'[u] = th[u])
    BY DEF Together
  <2>4. QED
    BY <2>1, <2>2, <2>3, TaskKept
<1>2. \A t \in Thread : ResultOK(th'[t])
  <2>1. SUFFICES ASSUME NEW t \in Thread, th'[t].at = "collect" PROVE ResultOK(th'[t])
    BY DEF ResultOK
  <2>2. Serves(t)'
    BY <2>1 DEF Serves, Serving
  <2>3. th'[t] = th[t]
    BY <2>2
  <2>4. QED
    BY <2>3 DEF Tasks
<1>3. QED
  BY <1>1, <1>2 DEF Tasks, Emptied, Known

\* A step of a service thread.
LEMMA ServedTasks ==
  ASSUME Core, Tasks, NEW t \in Thread, Goes(t), NEW c \in Client, c = Peer(t),
         \A f \in Client \ {c} : cl'[f] = cl[f], cl'[c].k = cl[c].k, Emptied, ResultOK(th'[t]),
         \A r \in Known' :
           /\ r \in Task
           /\ r.c = c => r.k <= cl[c].k /\ Own(th'[t], cl'[c], scene.reqs[c], r)
           /\ r.c # c => r \in Known
  PROVE  Tasks'
<1>1. /\ UNCHANGED <<scene, fds, backlog>> /\ Serves(t) /\ Serves(t)' /\ th'[t].fd = th[t].fd
      /\ \A u \in Thread \ {t} : th'[u] = th[u]
      /\ cl'[c].at = cl[c].at
  BY DEF Goes, Joined, Steady, Serves, serverVars
<1>2. Together(t, c)' /\ Together(t, c)
  BY <1>1 DEF Together, Peer
<1>3. \A u \in Thread, f \in Client : Together(u, f)' <=> Together(u, f)
  BY <1>1 DEF Together, Peer, Serves
<1>4. \A u \in Thread : Together(u, c) => u = t
  BY <1>2, OneServer
<1>5. ASSUME NEW r \in Known', r.c # c PROVE TaskOK(r)'
  <2>1. r \in Known /\ r.c \in Client /\ TaskOK(r)
    BY <1>5, KnownTyped DEF Tasks, Known
  <2>2. \A u \in Thread : Together(u, r.c) => th'[u] = th[u]
    BY <1>1, <1>2, <1>5 DEF Together
  <2>3. \A j \in 1..Len(backlog') : backlog'[j] # r.c
    BY <1>1, <2>1, SMTT(30) DEF TaskOK, Sent1
  <2>4. QED
    BY <1>1, <1>3, <1>5, <2>1, <2>2, <2>3, TaskKept
<1>6. ASSUME NEW r \in Known', r.c = c PROVE TaskOK(r)'
  <2>1. Own(th'[t], cl'[c], scene.reqs[c], r) /\ r.k <= cl'[c].k
    BY <1>6
  <2>3. OneEach /\ th[t].fd \in Fd /\ fds[th[t].fd] = c
    BY <1>1 DEF Core, InService, Peer
  <2>4. cl[c].at # "new" /\ \A j \in 1..Len(backlog) : backlog[j] # c
    BY <2>3 DEF OneEach
  <2>5. \A n \in Fd : fds[n] = c => n = th[t].fd
    BY <2>3 DEF OneEach
  <2>6. Sent1(r)'
    BY <1>1, <1>6, <2>1, <2>4, <2>5 DEF Sent1
  <2>7. \A u \in Thread : Together(u, c)' => u = t
    BY <1>3, <1>4
  <2>8. QED
    BY <1>1, <1>2, <1>6, <2>1, <2>6, <2>7, ZenonT(60) DEF TaskOK, Own, Bad
<1>7. \A u \in Thread : ResultOK(th'[u])
  BY <1>1 DEF Tasks
<1>8. QED
  BY <1>5, <1>6, <1>7 DEF Tasks, Emptied, Known

LEMMA EngineKept ==
  ASSUME Tasks, UNCHANGED engineVars
  PROVE  Emptied /\ Known' = Known
BY DEF Tasks, Emptied, Known, engineVars

LEMMA StillServed ==
  ASSUME Core, Tasks, NEW c \in Client, ~Quiet(c)
  PROVE  \A j \in 1..Len(backlog) : backlog[j] # c
BY NoTask

LEMMA PlainTasks == ASSUME Core, Tasks, PlainStep PROVE Tasks'
<1>1. UNCHANGED <<scene, dead, fds, th, cl, backlog>>
  BY DEF PlainStep, Start, Prepare, SetupFails, Loop, AcceptFails, AcceptedLate, JoinThreads,
     StopEngines, StopJoin, Finish, serverVars
<1>2. Emptied /\ Known' \subseteq Known
  <2>1. CASE UNCHANGED engineVars
    BY <2>1, EngineKept
  <2>2. CASE StopEngines
    BY <2>2 DEF StopEngines, StopEngine, Emptied, Known
  <2>3. CASE Finish
    <3>1. PICK r \in inside : inside' = inside \ {r} /\ finished' = finished \cup {r}
      BY <2>3 DEF Finish
    <3>2. engine' = engine /\ engine["out"] = "run"
      BY <2>3 DEF Finish
    <3>3. QED
      BY <3>1, <3>2 DEF Emptied, Known, Tasks
  <2>4. QED
    BY <2>1, <2>2, <2>3 DEF PlainStep, Start, Prepare, SetupFails, Loop, AcceptFails, AcceptedLate,
       JoinThreads, StopJoin
<1>3. /\ \A u \in Thread : Serves(u)' <=> Serves(u)
      /\ \A u \in Thread : Serves(u) => th'[u] = th[u] /\ Peer(u)' = Peer(u)
  BY <1>1, PeerKept
<1>4. QED
  BY <1>1, <1>2, <1>3, StillServed, TasksMoved

LEMMA SocketTasks ==
  ASSUME Core, Tasks, \/ OpenSocket \/ OpenFile \/ CloseFile \/ AcceptedRefused
                      \/ AcceptedPut \/ StopQueue
  PROVE  Tasks'
<1>1. Types /\ Others /\ InService
  BY DEF Core
<1>2. UNCHANGED <<scene, dead, th, engineVars, backlog>>
  BY DEF OpenSocket, OpenFile, CloseFile, AcceptedRefused, AcceptedPut, StopQueue, serverVars
<1>3. Emptied /\ Known' \subseteq Known
  BY <1>2, EngineKept
<1>4. \A n \in Fd : /\ fds[n] \in Client => fds'[n] = fds[n] \/ n = fd
                    /\ fds'[n] \in Client => fds'[n] = fds[n]
  <2>1. CASE OpenSocket \/ OpenFile
    <3>1. PICK n \in Fd : n = FirstFree /\ fds[n] = "free"
      BY <1>1, <2>1, FreeTaken DEF OpenSocket, OpenFile
    <3>2. \E x \in {"listen", "file"} : fds' = [fds EXCEPT ![n] = x]
      BY <2>1, <3>1 DEF OpenSocket, OpenFile
    <3>3. QED
      BY <1>1, <3>1, <3>2, Numbers DEF Types
  <2>2. CASE CloseFile
    BY <1>1, <2>2, Numbers DEF CloseFile, Others, Types
  <2>3. CASE AcceptedRefused
    BY <1>1, <2>3, Numbers DEF AcceptedRefused, Types
  <2>4. CASE AcceptedPut \/ StopQueue
    BY <2>4 DEF AcceptedPut, StopQueue
  <2>5. QED
    BY <2>1, <2>2, <2>3, <2>4
<1>5. /\ \A u \in Thread : Serves(u)' <=> Serves(u)
      /\ \A u \in Thread : Serves(u) => th'[u] = th[u] /\ Peer(u)' = Peer(u)
  BY <1>2, <1>4, PeerKept
<1>6. \A c \in Client : Quiet(c) \/ cl'[c] = cl[c]
  <2>1. CASE AcceptedRefused
    <3>1. fd # NoFd /\ fd \in Fd /\ cl' = [cl EXCEPT ![fds[fd]] = Gone(fds[fd])]
      BY <1>1, <2>1 DEF AcceptedRefused, Types
    <3>2. \A c \in Client : cl'[c] = cl[c] \/ fds[fd] = c
      BY <1>1, <3>1 DEF Types
    <3>3. \A t \in Thread : Serves(t) => th[t].fd # fd
      BY <1>1 DEF InService
    <3>4. QED
      BY <3>1, <3>2, <3>3, NoTask
  <2>2. CASE UNCHANGED cl
    BY <2>2
  <2>3. QED
    BY <2>1, <2>2 DEF OpenSocket, OpenFile, CloseFile, AcceptedPut, StopQueue
<1>7. QED
  BY <1>2, <1>3, <1>4, <1>5, <1>6, StillServed, TasksMoved

LEMMA AcceptTasks == ASSUME Core, Tasks, Accept PROVE Tasks'
<1>1. Types
  BY DEF Core
<1>2. UNCHANGED <<scene, dead, th, cl, engineVars>> /\ backlog # <<>> /\ backlog' = Tail(backlog)
  BY DEF Accept
<1>3. Emptied /\ Known' \subseteq Known
  BY <1>2, EngineKept
<1>4. PICK n \in Fd : fds[n] = "free" /\ fds' = [fds EXCEPT ![n] = Head(backlog)]
  BY <1>1, FreeTaken DEF Accept
<1>5. \A m \in Fd : fds[m] \in Client => fds'[m] = fds[m]
  BY <1>1, <1>4, Numbers DEF Types
<1>6. /\ \A u \in Thread : Serves(u)' <=> Serves(u)
      /\ \A u \in Thread : Serves(u) => th'[u] = th[u] /\ Peer(u)' = Peer(u)
  BY <1>2, <1>5, PeerKept
<1>7. PICK b \in Seq(Client) : b = backlog /\ b # <<>>
  BY <1>1, <1>2 DEF Types
<1>8. 1 \in 1..Len(b) /\ Head(b) = b[1] /\ \A j \in 1..Len(Tail(b)) : j + 1 \in 1..Len(b) /\ Tail(b)[j] = b[j + 1]
  BY <1>7
<1>9. ASSUME NEW c \in Client, ~Quiet(c)
      PROVE  /\ \A j \in 1..Len(backlog') : backlog'[j] # c
             /\ \A m \in Fd : fds'[m] = c => fds[m] = c
  <2>1. \A j \in 1..Len(b) : b[j] # c
    BY <1>7, <1>9, StillServed
  <2>2. \A j \in 1..Len(backlog') : backlog'[j] # c
    BY <1>2, <1>7, <1>8, <2>1
  <2>3. Head(backlog) # c
    BY <1>7, <1>8, <2>1
  <2>4. QED
    BY <1>1, <1>4, <2>2, <2>3 DEF Types
<1>10. QED
  BY <1>2, <1>3, <1>6, <1>9, TasksMoved

\* The listening socket is closed: clients that wait for it have sent nothing.
LEMMA ClosedKept ==
  ASSUME Core, Tasks, NEW c \in Client, ~Quiet(c),
         Closes(main_socket) \/ UNCHANGED <<fds, cl, backlog>>
  PROVE  /\ cl'[c] = cl[c] /\ \A j \in 1..Len(backlog') : backlog'[j] # c
         /\ \A n \in Fd : fds'[n] = c => fds[n] = c
<1>1. \A j \in 1..Len(backlog) : backlog[j] # c
  BY StillServed
<1>2. CASE Closes(main_socket)
  <2>1. cl'[c] = cl[c]
    BY <1>1, <1>2 DEF Closes
  <2>2. \A j \in 1..Len(backlog') : backlog'[j] # c
    <3>1. 1..Len(<<>>) = {}
      OBVIOUS
    <3>2. QED
      BY <1>1, <1>2, <3>1 DEF Closes
  <2>3. \A n \in Fd : fds'[n] = c => fds[n] = c
    BY <1>2, Numbers DEF Closes
  <2>4. QED
    BY <2>1, <2>2, <2>3
<1>3. QED
  BY <1>1, <1>2

LEMMA CloseTasks == ASSUME Core, Tasks, CloseMain \/ StopServer PROVE Tasks'
<1>1. Types /\ Others
  BY DEF Core
<1>2. UNCHANGED <<scene, dead, th, engineVars>>
  BY DEF CloseMain, StopServer
<1>3. Emptied /\ Known' \subseteq Known
  BY <1>2, EngineKept
<1>4. Closes(main_socket) \/ UNCHANGED <<fds, cl, backlog>>
  BY <1>1, CloseFdCloses DEF CloseMain, StopServer
<1>5. \A n \in Fd : fds[n] \in Client => fds'[n] = fds[n]
  BY <1>1, <1>4 DEF Closes, Others
<1>6. /\ \A u \in Thread : Serves(u)' <=> Serves(u)
      /\ \A u \in Thread : Serves(u) => th'[u] = th[u] /\ Peer(u)' = Peer(u)
  BY <1>2, <1>5, PeerKept
<1>7. ASSUME NEW c \in Client, ~Quiet(c)
      PROVE  /\ cl'[c] = cl[c] /\ \A j \in 1..Len(backlog') : backlog'[j] # c
             /\ \A n \in Fd : fds'[n] = c => fds[n] = c
  BY <1>4, <1>7, ClosedKept, StillServed
<1>8. QED
  BY <1>2, <1>3, <1>6, <1>7, TasksMoved

LEMMA RestTasks ==
  ASSUME Core, Tasks, CreateThreads \/ \E t \in Thread : Top(t) \/ Cancelled(t)
  PROVE  Tasks'
<1>1. UNCHANGED <<scene, dead, fds, cl, engineVars, backlog>>
  BY DEF CreateThreads, Top, Cancelled, serverVars
<1>2. Emptied /\ Known' \subseteq Known
  BY <1>1, EngineKept
<1>3. \A u \in Thread : (Serves(u)' <=> Serves(u)) /\ (Serves(u) => th'[u] = th[u])
  BY RestServes
<1>4. \A u \in Thread : Serves(u) => Peer(u)' = Peer(u)
  BY <1>1, <1>3 DEF Peer
<1>5. QED
  BY <1>1, <1>2, <1>3, <1>4, StillServed, TasksMoved

LEMMA ConnectTasks == ASSUME Core, Tasks, NEW c \in Client, Connect(c) PROVE Tasks'
<1>1. Types
  BY DEF Core
<1>2. /\ UNCHANGED <<scene, dead, fds, th, engineVars>> /\ backlog' = Append(backlog, c)
      /\ cl[c].at = "new" /\ \A f \in Client \ {c} : cl'[f] = cl[f]
  BY <1>1 DEF Connect, Types
<1>3. Emptied /\ Known' \subseteq Known
  BY <1>2, EngineKept
<1>4. /\ \A u \in Thread : Serves(u)' <=> Serves(u)
      /\ \A u \in Thread : Serves(u) => th'[u] = th[u] /\ Peer(u)' = Peer(u)
  BY <1>2, PeerKept
<1>5. Quiet(c)
  BY <1>2, NoTask
<1>6. ASSUME NEW f \in Client, ~Quiet(f)
      PROVE  cl'[f] = cl[f] /\ \A j \in 1..Len(backlog') : backlog'[j] # f
  <2>1. f # c /\ \A j \in 1..Len(backlog) : backlog[j] # f
    BY <1>5, <1>6, StillServed
  <2>2. PICK b \in Seq(Client) : b = backlog
    BY <1>1 DEF Types
  <2>3. \A j \in 1..Len(Append(b, c)) : Append(b, c)[j] = c \/ (j \in 1..Len(b) /\ Append(b, c)[j] = b[j])
    OBVIOUS
  <2>4. QED
    BY <1>2, <2>1, <2>2, <2>3
<1>7. QED
  BY <1>2, <1>3, <1>4, <1>6, TasksMoved

LEMMA GoneStays ==
  ASSUME Types, NEW c \in Client
  PROVE  Gone(c).k = cl[c].k /\ Gone(c).at = "gone"
<1>1. PICK d \in Talker : d = cl[c]
  BY DEF Types
<1>2. QED
  BY <1>1 DEF Gone, Talker

LEMMA ExitTasks == ASSUME Core, Tasks, Exit PROVE Tasks'
<1>1. Types /\ MainOK
  BY DEF Core
<1>2. /\ cl' = [c \in Client |-> Gone(c)] /\ UNCHANGED <<scene, engineVars>> /\ backlog' = <<>>
      /\ fds' = [n \in Fd |-> "free"] /\ \A u \in Thread : th'[u].at = "done"
  <2>1. [Idle EXCEPT !.at = "done"].at = "done"
    BY DEF Idle
  <2>2. QED
    BY <2>1 DEF Exit
<1>3. \A u \in Thread : ~Serves(u) /\ ~Serves(u)'
  <2>1. main \in {"done", "failed"}
    BY <1>1 DEF MainOK, Exit
  <2>2. \A u \in Thread : ~Serves(u)
    BY <1>1, <2>1 DEF MainOK, Setting, Serves, Serving
  <2>3. QED
    BY <1>2, <2>2 DEF Serves, Serving
<1>4. Emptied /\ Known' = Known
  BY <1>2, EngineKept
<1>5. ASSUME NEW r \in Known' PROVE TaskOK(r)'
  <2>1. r \in Known /\ r.c \in Client /\ TaskOK(r)
    BY <1>4, <1>5, KnownTyped DEF Tasks, Known
  <2>2. Bad(r)
    BY <1>3, <2>1 DEF TaskOK, Together
  <2>3. Bad(r)'
    BY <1>2, <2>2 DEF Bad
  <2>4. cl'[r.c].k = cl[r.c].k /\ cl'[r.c].at = "gone"
    BY <1>1, <1>2, <2>1, GoneStays
  <2>5. 1..Len(<<>>) = {}
    OBVIOUS
  <2>6. Sent1(r)'
    BY <1>2, <2>1, <2>4, <2>5, Numbers DEF TaskOK, Sent1
  <2>7. QED
    BY <1>3, <2>3, <2>6 DEF TaskOK, Together
<1>6. \A u \in Thread : ResultOK(th'[u])
  BY <1>2 DEF ResultOK
<1>7. QED
  BY <1>4, <1>5, <1>6 DEF Tasks, Emptied, Known

LEMMA DieTasks == ASSUME Die PROVE Tasks'
<1>1. inside' = {} /\ finished' = {} /\ \A u \in Thread : th'[u].at = "off"
  BY DEF Die, Idle
<1>2. QED
  BY <1>1 DEF Tasks, ResultOK

LEMMA CloseConnTasks == ASSUME Core, Tasks, NEW t \in Thread, CloseConn(t) PROVE Tasks'
<1>1. Types /\ InService /\ OneEach /\ Serves(t) /\ th[t].at = "close"
  BY DEF Core, CloseConn, Serves, Serving, At
<1>2. PICK n \in Fd : n = th[t].fd /\ fds[n] = Peer(t) /\ fds[n] \in Client
  BY <1>1 DEF InService, Peer
<1>3. PICK c \in Client : c = fds[n]
  BY <1>2
<1>4. PICK x \in Service : x = [Idle EXCEPT !.at = "top"] /\ x.at = "top"
  BY IdleTyped
<1>5. /\ fds' = [fds EXCEPT ![n] = "free"] /\ cl' = [cl EXCEPT ![c] = Gone(c)]
      /\ Turns(t, x) /\ UNCHANGED <<scene, dead, engineVars, backlog>>
  BY <1>2, <1>3, <1>4 DEF CloseConn, Turns, serverVars
<1>6. fds'[n] = "free" /\ \A m \in Fd \ {n} : fds'[m] = fds[m]
  BY <1>1, <1>5 DEF Types
<1>7. cl'[c] = Gone(c) /\ \A f \in Client \ {c} : cl'[f] = cl[f]
  BY <1>1, <1>5 DEF Types
<1>8. th'[t] = x /\ \A u \in Thread \ {t} : th'[u] = th[u]
  <2>1. th \in [Thread -> Service]
    BY <1>1 DEF Types
  <2>2. QED
    BY <1>5, <2>1, Turned
<1>9. ~Serves(t)' /\ \A u \in Thread \ {t} : Serves(u)' <=> Serves(u)
  BY <1>4, <1>8 DEF Serves, Serving
<1>10. \A u \in Thread \ {t} : Serves(u) => th[u].fd \in Fd /\ th[u].fd # n /\ Peer(u)' = Peer(u)
  BY <1>1, <1>2, <1>6, <1>8 DEF InService, Peer
<1>11. Emptied /\ Known' = Known
  BY <1>5, EngineKept
<1>12. ASSUME NEW r \in Known', r.c # c PROVE TaskOK(r)'
  <2>1. r \in Known /\ r.c \in Client /\ TaskOK(r)
    BY <1>11, <1>12, KnownTyped DEF Tasks, Known
  <2>2. \A u \in Thread : Together(u, r.c)' <=> Together(u, r.c)
    BY <1>2, <1>3, <1>9, <1>10, <1>12 DEF Together
  <2>3. \A u \in Thread : Together(u, r.c) => th'[u] = th[u]
    BY <1>2, <1>3, <1>8, <1>12 DEF Together
  <2>4. \A m \in Fd : fds'[m] = r.c => fds[m] = r.c
    BY <1>6, <2>1, Numbers
  <2>5. \A j \in 1..Len(backlog') : backlog'[j] # r.c
    BY <1>5, <2>1 DEF TaskOK, Sent1
  <2>6. QED
    BY <1>5, <1>7, <1>12, <2>1, <2>2, <2>3, <2>4, <2>5, TaskKept
<1>13. ASSUME NEW r \in Known', r.c = c PROVE TaskOK(r)'
  <2>1. TaskOK(r) /\ Together(t, r.c)
    BY <1>1, <1>2, <1>3, <1>11, <1>13 DEF Tasks, Known, Together
  <2>2. Bad(r)
    BY <1>1, <2>1 DEF TaskOK, Own
  <2>3. Bad(r)'
    BY <1>5, <2>2 DEF Bad
  <2>4. cl'[c].k = cl[c].k /\ cl'[c].at = "gone"
    BY <1>1, <1>7, GoneStays
  <2>5. \A m \in Fd : fds'[m] # c
    BY <1>1, <1>2, <1>3, <1>6, Numbers DEF OneEach
  <2>6. Sent1(r)'
    BY <1>5, <1>13, <2>1, <2>4, <2>5 DEF TaskOK, Sent1
  <2>7. \A u \in Thread : ~Together(u, c)'
    <3>1. \A u \in Thread \ {t} : Serves(u) => Peer(u) # c
      BY <1>1, <1>2, <1>3, <1>10 DEF OneEach, Peer
    <3>2. QED
      BY <1>9, <1>10, <3>1 DEF Together
  <2>8. QED
    BY <1>13, <2>3, <2>6, <2>7 DEF TaskOK
<1>14. \A u \in Thread : ResultOK(th'[u])
  BY <1>4, <1>8 DEF Tasks, ResultOK
<1>15. QED
  BY <1>11, <1>12, <1>13, <1>14 DEF Tasks, Emptied, Known

LEMMA GetItemTasks == ASSUME Core, Tasks, NEW t \in Thread, GetItem(t) PROVE Tasks'
<1>1. Types /\ InService /\ OneEach
  BY DEF Core
<1>2. PICK n \in Fd, x \in Service :
        /\ n = queue[1] /\ 1 \in 1..Len(queue) /\ fds[n] \in Client
        /\ x = [Idle EXCEPT !.at = "read", !.fd = n] /\ Turns(t, x)
  BY GetItemTurns
<1>3. At(t, "get") /\ UNCHANGED <<scene, dead, fds, cl, engineVars, backlog>>
  BY GetItemTurns DEF GetItem
<1>4. x.at = "read" /\ x.fd = n
  BY <1>2 DEF Idle
<1>5. th'[t] = x /\ \A u \in Thread \ {t} : th'[u] = th[u]
  <2>1. th \in [Thread -> Service]
    BY <1>1 DEF Types
  <2>2. QED
    BY <1>2, <2>1, Turned
<1>6. PICK c \in Client : c = fds[n]
  BY <1>2
<1>7. Quiet(c)
  <2>1. \A u \in Thread : Serves(u) => th[u].fd # n
    BY <1>1, <1>2 DEF InService
  <2>2. QED
    BY <1>6, <2>1, NoTask
<1>8. Emptied /\ Known' = Known
  BY <1>3, EngineKept
<1>9. ASSUME NEW r \in Known' PROVE TaskOK(r)'
  <2>1. r \in Known /\ r.c \in Client /\ TaskOK(r) /\ r.c # c
    BY <1>7, <1>8, <1>9, KnownTyped DEF Tasks, Known, Quiet
  <2>2. ~Together(t, r.c) /\ ~Together(t, r.c)'
    BY <1>3, <1>4, <1>5, <1>6, <2>1 DEF Together, Serves, Serving, Peer, At
  <2>3. \A u \in Thread \ {t} : Together(u, r.c)' <=> Together(u, r.c)
    BY <1>3, <1>5 DEF Together, Serves, Peer
  <2>4. \A u \in Thread : Together(u, r.c) => th'[u] = th[u]
    BY <1>5, <2>2
  <2>5. \A j \in 1..Len(backlog') : backlog'[j] # r.c
    BY <1>3, <2>1 DEF TaskOK, Sent1
  <2>6. QED
    BY <1>3, <2>1, <2>2, <2>3, <2>4, <2>5, TaskKept
<1>10. \A u \in Thread : ResultOK(th'[u])
  BY <1>4, <1>5 DEF Tasks, ResultOK
<1>11. QED
  BY <1>8, <1>9, <1>10 DEF Tasks, Emptied, Known

\* A step of a service thread that brings nothing into the engine.
LEMMA StepTasks ==
  ASSUME Core, Tasks, NEW t \in Thread, Goes(t), NEW c \in Client, c = Peer(t),
         \A f \in Client \ {c} : cl'[f] = cl[f], cl'[c].k = cl[c].k,
         Emptied, Known' \subseteq Known, ResultOK(th'[t]),
         \A r \in Known' : r.c = c /\ Own(th[t], cl[c], scene.reqs[c], r) =>
                             Own(th'[t], cl'[c], scene.reqs[c], r)
  PROVE  Tasks'
<1>1. Together(t, c)
  BY DEF Goes, Joined, Together
<1>2. ASSUME NEW r \in Known'
      PROVE  /\ r \in Task
             /\ r.c = c => r.k <= cl[c].k /\ Own(th'[t], cl'[c], scene.reqs[c], r)
             /\ r.c # c => r \in Known
  <2>1. r \in Known /\ r \in Task /\ TaskOK(r)
    BY <1>2, KnownTyped DEF Tasks, Known
  <2>2. ASSUME r.c = c PROVE r.k <= cl[c].k /\ Own(th'[t], cl'[c], scene.reqs[c], r)
    BY <1>1, <1>2, <2>1, <2>2 DEF TaskOK, Sent1
  <2>3. QED
    BY <2>1, <2>2
<1>3. QED
  BY <1>2, ServedTasks

\* ... and ends a response, or a request that was not being worked on.
LEMMA EndingTasks ==
  ASSUME Core, Tasks, NEW t \in Thread, Goes(t), NEW c \in Client, c = Peer(t),
         \A f \in Client \ {c} : cl'[f] = cl[f], cl'[c].k = cl[c].k,
         Emptied, Known' \subseteq Known,
         th[t].at \notin {"submit", "collect"}, th'[t].at \in {"send", "close"}
  PROVE  Tasks'
<1>1. ResultOK(th'[t])
  BY DEF ResultOK
<1>2. \A r : Own(th[t], cl[c], scene.reqs[c], r) => Own(th'[t], cl'[c], scene.reqs[c], r)
  BY DEF Own
<1>3. QED
  BY <1>1, <1>2, StepTasks

\* ... and begins to work on a request.
LEMMA BeginningTasks ==
  ASSUME Core, Tasks, NEW t \in Thread, Goes(t), NEW c \in Client, c = Peer(t),
         \A f \in Client \ {c} : cl'[f] = cl[f], cl'[c].k = cl[c].k,
         Emptied, Known' \subseteq Known,
         th[t].at = "handle" \/ (th[t].at = "read" /\ cl[c].net > 0), th'[t].at # "collect"
  PROVE  Tasks'
<1>1. ResultOK(th'[t])
  BY DEF ResultOK
<1>2. \A r : Own(th[t], cl[c], scene.reqs[c], r) => Own(th'[t], cl'[c], scene.reqs[c], r)
  BY DEF Own
<1>3. QED
  BY <1>1, <1>2, StepTasks

LEMMA ReadTasks == ASSUME Core, Talks, Tasks, NEW t \in Thread, Read(t) PROVE Tasks'
<1>1. Serves(t) /\ Types /\ Goes(t)
  BY ReadGoes DEF Serves, Serving, At, Read, Core
<1>2. Joined(t)
  BY <1>1, CoreJoined
<1>3. PICK c \in Client, d \in Talker : c = Peer(t) /\ d = cl[c]
  BY <1>1, <1>2 DEF Joined, Types
<1>4. /\ At(t, "read") /\ UNCHANGED engineVars /\ d.net > 0 /\ Alters(c, [d EXCEPT !.net = 0])
  BY <1>1, <1>2, <1>3, ReadTurns
<1>5. PICK e \in Talker : e = [d EXCEPT !.net = 0]
  BY <1>1, <1>2, <1>3, ReadTurns
<1>6. cl'[c] = e /\ e.k = d.k /\ \A f \in Client \ {c} : cl'[f] = cl[f]
  <2>1. cl \in [Client -> Talker]
    BY <1>1 DEF Types
  <2>2. e.k = d.k
    BY <1>5 DEF Talker
  <2>3. QED
    BY <1>4, <1>5, <2>1, <2>2, Altered
<1>7. th'[t].at # "collect"
  <2>1. PICK x \in Service, h \in Nat, a \in {"read", "handle"}, b \in BOOLEAN :
          x = th'[t] /\ x = [th[t] EXCEPT !.have = h, !.keep_alive = b, !.at = a]
    BY <1>1, <1>2, ReadTurns, Turned DEF Types
  <2>2. PICK s \in Service : s = th[t]
    BY <1>1 DEF Types
  <2>3. x.at = a
    BY <2>1, <2>2 DEF Service
  <2>4. QED
    BY <2>1, <2>3
<1>8. QED
  BY <1>1, <1>3, <1>4, <1>6, <1>7, EngineKept, BeginningTasks DEF At

LEMMA ReadFailsTasks == ASSUME Core, Tasks, NEW t \in Thread, ReadFails(t) PROVE Tasks'
<1>1. Types /\ Goes(t) /\ UNCHANGED <<cl, engineVars>> /\ th[t].at = "read"
  BY ReadFailsGoes DEF Core, ReadFails, At
<1>2. th'[t].at = "close"
  BY <1>1 DEF ReadFails, Goto, Types, Service
<1>3. PICK c \in Client : c = Peer(t)
  BY <1>1 DEF Goes, Joined
<1>4. QED
  BY <1>1, <1>2, <1>3, EngineKept, EndingTasks

\* The response is over.
LEMMA OverTasks ==
  ASSUME Core, Talks, Tasks, NEW t \in Thread, Goes(t), th[t].at = "send", NEW c \in Client, c = Peer(t),
         \A f \in Client \ {c} : cl'[f] = cl[f],
         NEW d \in Talker, d = cl[c], NEW e \in Talker, e = cl'[c],
         e.at = d.at, e.k = d.k, e.net = d.net, e.sent = d.sent, UNCHANGED engineVars,
         Over(t) \/ th'[t].at = "send"
  PROVE  Tasks'
<1>1. Serves(t) /\ Types
  BY DEF Core, Serves, Serving
<1>2. Emptied /\ Known' = Known
  BY EngineKept
<1>3. PICK s \in Service : s = th[t]
  BY <1>1 DEF Types
<1>4. CASE th'[t].at \in {"send", "close"}
  BY <1>2, <1>4, EndingTasks
<1>5. CASE s.keep_alive /\ Turns(t, [Idle EXCEPT !.at = "read", !.fd = s.fd])
  <2>1. PICK R \in Seq(Request) : R = scene.reqs[c]
    BY <1>1, RequestTyped
  <2>2. Talk(s, d, R)
    BY <1>1, <1>3, <2>1 DEF Talks, Fine, Together
  <2>3. PICK x \in Service : x = th'[t]
    BY DEF Goes
  <2>4. x = [Idle EXCEPT !.at = "read", !.fd = s.fd]
    BY <1>1, <1>5, <2>3 DEF Turns, Types
  <2>5. x.at = "read" /\ x.have = 0
    BY <2>4 DEF Idle
  <2>6. d.k <= Len(R) /\ s.have = All(R, d.k) /\ s.have + d.net <= All(R, d.k)
    <3>1. d.k <= Len(R) /\ (s.keep_alive => R[d.k].length) /\ (R[d.k].length => s.have = All(R, d.k))
      BY <1>3, <2>2 DEF Talk, Answering
    <3>2. QED
      BY <1>5, <2>2, <3>1 DEF Talk
  <2>7. d.net \in Nat /\ s.have \in Nat
    BY DEF Talker, Service
  <2>8. e.net = 0
    BY <2>6, <2>7
  <2>9. e.at = "open" => Limbo(x, e, R)
    <3>1. SUFFICES ASSUME d.at = "open" PROVE Limbo(x, e, R)
      OBVIOUS
    <3>2. d.sent = s.have + d.net
      BY <1>3, <2>2, <3>1 DEF Talk
    <3>3. QED
      <4>1. d.net = 0 /\ d.sent = s.have
        <5>1. d.net = 0
          BY <2>8
        <5>2. \A a \in Nat : a + 0 = a
          OBVIOUS
        <5>3. d.sent = s.have + 0
          BY <3>2, <5>1
        <5>4. QED
          BY <2>7, <5>1, <5>2, <5>3
      <4>2. e.k <= Len(R) /\ e.sent = All(R, e.k)
        BY <2>6, <4>1
      <4>3. QED
        BY <2>5, <2>8, <4>2 DEF Limbo
  <2>10. ResultOK(x)
    BY <2>5 DEF ResultOK
  <2>11. \A r : Own(s, d, R, r) => Own(x, e, R, r)
    <3>1. SUFFICES ASSUME NEW r, Own(s, d, R, r) PROVE Own(x, e, R, r)
      OBVIOUS
    <3>2. Bad(r)
      BY <1>3, <3>1 DEF Own
    <3>3. QED
      BY <2>5, <2>8, <2>9, <3>2 DEF Own
  <2>12. QED
    BY <1>2, <1>3, <2>1, <2>3, <2>10, <2>11, StepTasks
<1>6. CASE Turns(t, [s EXCEPT !.at = "close"])
  <2>1. th'[t] = [s EXCEPT !.at = "close"]
    BY <1>1, <1>6 DEF Turns, Types
  <2>2. th'[t].at = "close"
    BY <2>1 DEF Service
  <2>3. QED
    BY <1>4, <2>2
<1>7. QED
  BY <1>3, <1>4, <1>5, <1>6 DEF Over

LEMMA WriteTasks == ASSUME Core, Talks, Tasks, NEW t \in Thread, Write(t) PROVE Tasks'
<1>1. Serves(t) /\ Types /\ Goes(t) /\ At(t, "send")
  BY WriteGoes DEF Serves, Serving, At, Write, Core
<1>2. Joined(t) /\ th[t].send <= Len(th[t].body)
  BY <1>1, CoreJoined DEF At
<1>3. PICK w \in Nat, b \in BOOLEAN : Sends(t, w, b)
  BY <1>1, <1>2, WriteTurns
<1>4. PICK c \in Client, d \in Talker : c = Peer(t) /\ d = cl[c]
  BY <1>1, <1>2 DEF Joined, Types
<1>5. PICK e \in Talker : e = [d EXCEPT !.got = d.got \o SubSeq(Response(t), 1, w), !.cut = b]
  BY <1>3, <1>4 DEF Sends
<1>6. cl'[c] = e /\ \A f \in Client \ {c} : cl'[f] = cl[f]
  <2>1. cl \in [Client -> Talker]
    BY <1>1 DEF Types
  <2>2. Alters(c, e)
    BY <1>3, <1>4, <1>5 DEF Sends
  <2>3. QED
    BY <2>1, <2>2, Altered
<1>7. e.at = d.at /\ e.k = d.k /\ e.net = d.net /\ e.sent = d.sent
  BY <1>5 DEF Talker
<1>8. Over(t) \/ th'[t].at = "send"
  <2>1. PICK s \in Service : s = th[t]
    BY <1>1 DEF Types
  <2>2. CASE Turns(t, [s EXCEPT !.send = s.send + w])
    <3>1. th'[t] = [s EXCEPT !.send = s.send + w]
      BY <1>1, <2>2 DEF Turns, Types
    <3>2. th'[t].at = "send"
      BY <1>1, <2>1, <3>1 DEF Service, At
    <3>3. QED
      BY <3>2
  <2>3. QED
    BY <1>3, <2>1, <2>2 DEF Sends
<1>9. UNCHANGED engineVars
  BY <1>1, <1>2, WriteTurns
<1>10. QED
  BY <1>1, <1>4, <1>6, <1>7, <1>8, <1>9, OverTasks DEF At

LEMMA WriteEndsTasks ==
  ASSUME Core, Talks, Tasks, NEW t \in Thread, WriteTimesOut(t) \/ LostQuietly(t)
  PROVE  Tasks'
<1>1. Serves(t) /\ Types /\ Goes(t) /\ At(t, "send")
  BY WriteEndsGoes DEF Serves, Serving, At, WriteTimesOut, LostQuietly, Core
<1>2. Joined(t)
  BY <1>1, CoreJoined DEF At
<1>3. PICK c \in Client, d \in Talker : c = Peer(t) /\ d = cl[c]
  BY <1>1, <1>2 DEF Joined, Types
<1>4. Over(t) /\ UNCHANGED engineVars
  BY <1>1, <1>2, TimesOutTurns, AfterTurns DEF LostQuietly
<1>5. PICK e \in Talker :
        /\ e = cl'[c] /\ \A f \in Client \ {c} : cl'[f] = cl[f]
        /\ e.at = d.at /\ e.k = d.k /\ e.net = d.net /\ e.sent = d.sent
  <2>1. CASE WriteTimesOut(t)
    <3>1. PICK e \in Talker : e = [d EXCEPT !.cut = TRUE] /\ Alters(c, e)
      BY <1>1, <1>2, <1>3, <2>1, TimesOutTurns
    <3>2. cl'[c] = e /\ \A f \in Client \ {c} : cl'[f] = cl[f]
      <4>1. cl \in [Client -> Talker]
        BY <1>1 DEF Types
      <4>2. QED
        BY <3>1, <4>1, Altered
    <3>3. e.at = d.at /\ e.k = d.k /\ e.net = d.net /\ e.sent = d.sent
      BY <3>1 DEF Talker
    <3>4. QED
      BY <3>2, <3>3
  <2>2. CASE LostQuietly(t)
    BY <1>3, <2>2 DEF LostQuietly
  <2>3. QED
    BY <2>1, <2>2
<1>6. QED
  BY <1>1, <1>3, <1>4, <1>5, OverTasks DEF At

LEMMA AnswersSend ==
  ASSUME Types, NEW t \in Thread, Joined(t), NEW code \in Code, Answers(t, code)
  PROVE  th'[t].at = "send"
<1>1. PICK s \in Service : s = th[t]
  BY DEF Types
<1>2. PICK b \in Seq(Piece) : th'[t] = [s EXCEPT !.at = "send", !.code = code, !.body = b]
  <2>1. \E b \in Seq(Piece) : th'[t] = [th[t] EXCEPT !.at = "send", !.code = code, !.body = b]
    BY AnswersTyped, ZenonT(60)
  <2>2. QED
    BY <1>1, <2>1
<1>3. QED
  BY <1>2 DEF Service

LEMMA SetRunEmptied == ASSUME Types, Tasks, NEW v, SetRun(v) PROVE Emptied /\ Known' \subseteq Known
<1>1. CASE StopEngine({"out"})
  BY <1>1 DEF StopEngine, Emptied, Known
<1>2. CASE StartEngine
  <2>1. engine'["out"] = "run" /\ UNCHANGED <<inside, finished>>
    BY <1>2 DEF StartEngine, Types
  <2>2. QED
    BY <2>1 DEF Tasks, Emptied, Known
<1>3. CASE UNCHANGED engineVars
  BY <1>3, EngineKept
<1>4. QED
  BY <1>1, <1>2, <1>3 DEF SetRun

LEMMA HandleTasks == ASSUME Core, Tasks, NEW t \in Thread, HandlesNow(t) PROVE Tasks'
<1>1. Types /\ Goes(t) /\ Joined(t)
  BY HandleGoes DEF Core, Goes
<1>2. At(t, "handle") /\ UNCHANGED cl /\ (UNCHANGED engineVars \/ \E v : SetRun(v))
  BY <1>1, HandleTurns
<1>3. PICK code \in Code : Answers(t, code)
  BY <1>1, HandleTurns
<1>4. th'[t].at = "send"
  BY <1>1, <1>3, AnswersSend
<1>5. Emptied /\ Known' \subseteq Known
  BY <1>1, <1>2, SetRunEmptied, EngineKept
<1>6. PICK c \in Client : c = Peer(t)
  BY <1>1 DEF Joined
<1>7. QED
  BY <1>1, <1>2, <1>4, <1>5, <1>6, BeginningTasks DEF At

LEMMA ResourcesTasks == ASSUME Core, Tasks, NEW t \in Thread, HandleResources(t) PROVE Tasks'
<1>1. Types /\ Goes(t) /\ Joined(t)
  BY ResourcesGoes DEF Core, Goes
<1>2. At(t, "handle") /\ UNCHANGED cl /\ UNCHANGED engineVars
  BY <1>1, ResourceTurns
<1>3. th'[t].at # "collect"
  <2>1. CASE Answers(t, 500)
    BY <1>1, <2>1, AnswersSend DEF Code
  <2>2. CASE /\ [th[t] EXCEPT !.at = "submit", !.i = 1] \in Service
             /\ Turns(t, [th[t] EXCEPT !.at = "submit", !.i = 1])
    <3>1. PICK s \in Service : s = th[t]
      BY <1>1 DEF Types
    <3>2. th'[t] = [s EXCEPT !.at = "submit", !.i = 1]
      BY <1>1, <2>2, <3>1, Turned DEF Types
    <3>3. QED
      BY <3>2 DEF Service
  <2>3. QED
    BY <1>1, <2>1, <2>2, ResourceTurns
<1>4. PICK c \in Client : c = Peer(t)
  BY <1>1 DEF Joined
<1>5. QED
  BY <1>1, <1>2, <1>3, <1>4, EngineKept, BeginningTasks DEF At

\* What is known of a resource, for the thread that serves its client.
LEMMA OwnTask ==
  ASSUME Core, Tasks, NEW t \in Thread, NEW c \in Client, Serves(t), c = Peer(t),
         NEW r \in Known, r.c = c
  PROVE  Own(th[t], cl[c], scene.reqs[c], r) /\ r.k <= cl[c].k
BY DEF Tasks, Known, TaskOK, Sent1, Together

LEMMA SubmitTasks == ASSUME Core, Talks, Tasks, NEW t \in Thread, Submit(t) PROVE Tasks'
<1>1. Serves(t) /\ Types /\ Goes(t)
  BY SubmitGoes DEF Serves, Serving, At, Submit, Core
<1>2. Joined(t)
  BY <1>1, CoreJoined
<1>3. PICK c \in Client, s \in Service, d \in Talker, R \in Seq(Request) : Pair(t, c, s, d, R)
  BY <1>1, Paired
<1>4. /\ c = Peer(t) /\ s = th[t] /\ d = cl[c] /\ R = scene.reqs[c] /\ Talk(s, d, R)
      /\ TaskTalk(s, d, R) /\ s.at = "submit"
  BY <1>3 DEF Pair, At, Submit
<1>5. Ask(t) = R[d.k]
  BY <1>3, <1>4 DEF Pair, Talk, Answering
<1>6. PICK r0 \in Task : r0 = Resource(t, s.i)
  BY <1>1, <1>2, <1>4, SubmitTurns
<1>7. r0.c = c /\ r0.k = d.k /\ r0.i = s.i
  BY <1>4, <1>6 DEF Resource
<1>8. /\ UNCHANGED <<cl, engine, finished>> /\ engine[R[d.k].arg] # "off"
      /\ inside' = IF R[d.k].arg = "out" THEN inside \cup {r0} ELSE inside
  BY <1>4, <1>5, <1>6 DEF Submit
<1>9. PICK x \in Service : x = th'[t]
  BY <1>1 DEF Goes
<1>10. x.at = "submit" /\ x.ids = Append(s.ids, s.i) /\ x.result = s.result
  <2>1. th'[t] = [s EXCEPT !.i = s.i + 1, !.ids = Append(s.ids, s.i)]
    BY <1>1, <1>4 DEF Submit, Types
  <2>2. QED
    BY <1>4, <1>9, <2>1 DEF Service
<1>11. PICK n \in Nat : n = Len(s.ids) /\ Len(x.ids) = n + 1 /\ s.i = n + 1
  <2>1. s.ids \in Seq(Nat) /\ s.i \in Nat /\ Len(s.ids) \in Nat
    BY DEF Service
  <2>2. s.i = Len(s.ids) + 1
    BY <1>4 DEF TaskTalk
  <2>3. QED
    BY <1>10, <2>1, <2>2
<1>12. x.result = <<>>
  BY <1>4, <1>10 DEF Talk
<1>13. r0 \notin finished
  <2>1. SUFFICES ASSUME r0 \in finished PROVE FALSE
    OBVIOUS
  <2>2. Own(s, d, R, r0)
    BY <1>1, <1>4, <1>7, <2>1, OwnTask DEF Known
  <2>3. s.i \in 1..n
    BY <1>4, <1>7, <1>11, <2>2 DEF Own
  <2>4. QED
    BY <1>11, <2>3
<1>14. Emptied
  <2>1. inside' \cap finished' = {}
    BY <1>8, <1>13 DEF Tasks
  <2>2. engine'["out"] = "off" => inside' = {} /\ finished' = {}
    BY <1>8 DEF Tasks
  <2>3. QED
    BY <2>1, <2>2 DEF Emptied
<1>15. ResultOK(x)
  BY <1>10 DEF ResultOK
<1>16. ASSUME NEW r \in Known'
       PROVE  /\ r \in Task
              /\ r.c = c => r.k <= d.k /\ Own(x, d, R, r)
              /\ r.c # c => r \in Known
  <2>1. CASE r \in Known
    <3>1. r \in Task /\ r.k \in Nat /\ r.i \in Nat
      BY <2>1, KnownTyped
    <3>2. ASSUME r.c = c PROVE r.k <= d.k /\ Own(x, d, R, r)
      <4>1. Own(s, d, R, r) /\ r.k <= d.k
        BY <1>1, <1>4, <2>1, <3>2, OwnTask
      <4>2. ASSUME d.k = r.k PROVE R[d.k].m = "PROCESS" /\ r.i \in 1..n + 1
        <5>1. R[d.k].m = "PROCESS" /\ r.i \in 1..n
          BY <1>4, <1>11, <4>1, <4>2 DEF Own
        <5>2. QED
          BY <5>1
      <4>3. 1..Len(x.result) = {}
        BY <1>12
      <4>4. Bad(r) \/ d.k = r.k
        BY <4>1 DEF Own
      <4>5. QED
        BY <1>10, <1>11, <4>1, <4>2, <4>3, <4>4 DEF Own
    <3>3. QED
      BY <2>1, <3>1, <3>2
  <2>2. CASE r = r0 /\ R[d.k].arg = "out"
    <3>1. R[d.k].m = "PROCESS"
      BY <1>4, <2>2 DEF TaskTalk
    <3>2. 1..Len(x.result) = {} /\ n + 1 \in 1..n + 1
      BY <1>12
    <3>3. Own(x, d, R, r)
      BY <1>7, <1>10, <1>11, <2>2, <3>1, <3>2 DEF Own
    <3>4. d.k <= d.k
      BY DEF Talker
    <3>5. QED
      BY <1>7, <2>2, <3>3, <3>4
  <2>3. QED
    BY <1>8, <1>16, <2>1, <2>2 DEF Known
<1>17. QED
  BY <1>1, <1>4, <1>8, <1>9, <1>14, <1>15, <1>16, ServedTasks

\* The record of the thread keeps what it knows of the request.
LEMMA PassedTasks ==
  ASSUME Core, Talks, Tasks, NEW t \in Thread, SubmitBad(t) \/ SubmitRefused(t) \/ SubmitEnd(t)
  PROVE  Tasks'
<1>1. /\ At(t, "submit") /\ (th' = Passed(t) \/ th' = Respond(t, 500)) /\ Steady
      /\ UNCHANGED cl /\ UNCHANGED engineVars /\ Types
  BY DEF SubmitBad, SubmitRefused, SubmitEnd, Steady, Core
<1>2. Goes(t) /\ Serves(t) /\ Joined(t)
  BY <1>1, PassedGoes DEF Goes, Joined
<1>3. PICK c \in Client, s \in Service, d \in Talker, R \in Seq(Request) : Pair(t, c, s, d, R)
  BY <1>2, Paired
<1>4. /\ c = Peer(t) /\ s = th[t] /\ d = cl[c] /\ R = scene.reqs[c] /\ Talk(s, d, R)
      /\ TaskTalk(s, d, R) /\ s.at = "submit"
  BY <1>1, <1>3 DEF Pair, At
<1>5. Ask(t) = R[d.k]
  BY <1>3, <1>4 DEF Pair, Talk, Answering
<1>6. PICK x \in Service : x = th'[t]
  BY <1>2 DEF Goes
<1>7. Emptied /\ Known' = Known
  BY <1>1, EngineKept
<1>8. CASE x.at = "send" /\ (R[d.k].m # "PROCESS" \/ SubmitBad(t) \/ Known = {})
  <2>1. ASSUME NEW r \in Known', r.c = c, Own(s, d, R, r) PROVE Own(x, d, R, r)
    <3>1. Bad(r)
      <4>1. CASE R[d.k].m # "PROCESS"
        BY <1>4, <2>1, <4>1 DEF Own
      <4>2. CASE SubmitBad(t) /\ d.k = r.k
        <5>1. Body(t)[s.i] = "bad" /\ s.i <= Len(Body(t)) /\ s.i = Len(s.ids) + 1
          BY <1>4, <4>2 DEF SubmitBad, TaskTalk
        <5>2. s.i \in Nat \ {0}
          <6>1. Len(s.ids) \in Nat /\ s.i \in Nat
            BY DEF Service
          <6>2. QED
            BY <5>1, <6>1
        <5>3. /\ Len(Body(t)) = s.have - 2 /\ s.have - 2 \in Nat
              /\ \A j \in 1..s.have - 2 : Body(t)[j] = R[d.k].body[j] /\ j \in 1..Len(R[d.k].body)
          <6>1. Pair(t, c, s, d, R) /\ s.at \in {"submit", "collect"}
            BY <1>3, <1>4
          <6>2. QED
            BY <6>1, BodyIs
        <5>4. s.i \in 1..s.have - 2
          BY <5>1, <5>2, <5>3
        <5>5. R[d.k].body[s.i] = "bad" /\ s.i \in 1..Len(R[d.k].body)
          BY <5>1, <5>3, <5>4, SMTT(30)
        <5>6. PICK q \in Seq({"ok", "bad", "0", "1"}) : q = R[d.k].body
          BY <1>3, <1>4 DEF Pair, Talk, Answering
        <5>7. DOMAIN q = 1..Len(q)
          OBVIOUS
        <5>8. QED
          BY <1>4, <2>1, <4>2, <5>5, <5>6, <5>7 DEF Bad
      <4>3. QED
        BY <1>7, <1>8, <2>1, <4>1, <4>2 DEF Own
    <3>2. QED
      BY <1>8, <3>1 DEF Own
  <2>2. ResultOK(x)
    BY <1>8 DEF ResultOK
  <2>3. QED
    BY <1>1, <1>2, <1>4, <1>6, <1>7, <2>1, <2>2, StepTasks
<1>9. CASE Turns(t, [th[t] EXCEPT !.at = "collect"])
  <2>1. th'[t] = [s EXCEPT !.at = "collect"]
    BY <1>1, <1>4, <1>9 DEF Turns, Types
  <2>2. x.at = "collect" /\ x.ids = s.ids /\ x.result = s.result /\ s.result = <<>>
    BY <1>4, <1>6, <2>1 DEF Service, Talk
  <2>3. 1..Len(x.result) = {}
    BY <2>2
  <2>4. ResultOK(x)
    BY <2>3 DEF ResultOK
  <2>5. \A r : Own(s, d, R, r) => Own(x, d, R, r)
    BY <1>4, <2>2, <2>3 DEF Own
  <2>6. QED
    BY <1>1, <1>2, <1>4, <1>6, <1>7, <2>4, <2>5, StepTasks
<1>10. CASE th' = Respond(t, 500)
  <2>1. x.at = "send"
    <3>1. Answers(t, 500) /\ 500 \in Code
      BY <1>1, <1>10, RespondAnswers DEF Code
    <3>2. QED
      BY <1>1, <1>2, <1>6, <3>1, AnswersSend
  <2>2. R[d.k].m # "PROCESS" \/ SubmitBad(t) \/ Known = {}
    <3>1. CASE SubmitRefused(t) /\ R[d.k].m = "PROCESS"
      <4>1. R[d.k].arg = "out" /\ engine[R[d.k].arg] = "off"
        BY <1>4, <1>5, <3>1 DEF TaskTalk, SubmitRefused
      <4>2. QED
        BY <4>1 DEF Tasks, Known
    <3>2. CASE SubmitEnd(t) /\ R[d.k].m = "PROCESS"
      <4>1. th' = Goto(t, "collect")
        BY <1>5, <3>2 DEF SubmitEnd, Passed
      <4>2. x.at = "collect"
        BY <1>1, <1>4, <1>6, <4>1 DEF Goto, Types, Service
      <4>3. QED
        BY <2>1, <4>2
    <3>3. QED
      BY <3>1, <3>2
  <2>3. QED
    BY <1>8, <2>1, <2>2
<1>11. CASE th' = Passed(t)
  <2>1. CASE Ask(t).m # "PROCESS" /\ Answers(t, 200)
    BY <1>1, <1>2, <1>5, <1>6, <1>8, <2>1, AnswersSend DEF Code
  <2>2. QED
    BY <1>1, <1>9, <1>11, <2>1, PassedTurns
<1>12. QED
  BY <1>1, <1>10, <1>11

LEMMA CollectOneTasks == ASSUME Core, Talks, Tasks, NEW t \in Thread, CollectOne(t) PROVE Tasks'
<1>1. Serves(t) /\ Types /\ Goes(t)
  BY CollectOneGoes DEF Serves, Serving, At, CollectOne, Core
<1>2. PICK c \in Client, s \in Service, d \in Talker, R \in Seq(Request) : Pair(t, c, s, d, R)
  BY <1>1, Paired
<1>3. /\ c = Peer(t) /\ s = th[t] /\ d = cl[c] /\ R = scene.reqs[c]
      /\ TaskTalk(s, d, R) /\ s.at = "collect"
  BY <1>2 DEF Pair, At, CollectOne
<1>4. PICK j \in 1..Len(s.ids) :
        /\ Resource(t, s.ids[j]) \in finished
        /\ finished' = finished \ {Resource(t, s.ids[j])}
        /\ th'[t] = [s EXCEPT !.result = Append(@, Resource(t, s.ids[j]).i)]
  BY <1>1, <1>3 DEF CollectOne, Types
<1>5. s.ids[j] = j
  BY <1>3 DEF TaskTalk
<1>6. PICK r0 \in Task : r0 = Resource(t, j) /\ r0 \in finished /\ finished' = finished \ {r0}
  BY <1>1, <1>4, <1>5 DEF Types
<1>7. r0.c = c /\ r0.k = d.k /\ r0.i = j
  BY <1>3, <1>6 DEF Resource
<1>8. UNCHANGED <<cl, engine, inside>>
  BY DEF CollectOne
<1>9. PICK x \in Service : x = th'[t]
  BY <1>1 DEF Goes
<1>10. x.at = "collect" /\ x.ids = s.ids /\ x.result = Append(s.result, j)
  <2>1. x = [s EXCEPT !.result = Append(s.result, r0.i)]
    BY <1>4, <1>5, <1>6, <1>9
  <2>2. x.at = s.at /\ x.ids = s.ids /\ x.result = Append(s.result, r0.i)
    BY <2>1 DEF Service
  <2>3. QED
    BY <1>3, <1>7, <2>2
<1>11. Own(s, d, R, r0)
  BY <1>1, <1>3, <1>6, <1>7, OwnTask DEF Known
<1>12. PICK m \in Nat : m = Len(s.result) /\ Len(x.result) = m + 1 /\ x.result[m + 1] = j
                        /\ \A i \in 1..m : x.result[i] = s.result[i]
  <2>1. s.result \in Seq(Nat) /\ Len(s.result) \in Nat
    BY DEF Service
  <2>2. QED
    BY <1>10, <2>1
<1>13. \A i \in 1..m : s.result[i] # j
  BY <1>3, <1>7, <1>11, <1>12 DEF Own
<1>14. \A i \in 1..m + 1 : i \in 1..m \/ i = m + 1
  OBVIOUS
<1>15. ResultOK(x)
  <2>1. /\ \A i \in 1..m : s.result[i] \in 1..Len(s.ids)
        /\ \A i, k \in 1..m : s.result[i] = s.result[k] => i = k
    BY <1>3, <1>12 DEF Tasks, ResultOK
  <2>2. \A i \in 1..m + 1 : x.result[i] \in 1..Len(s.ids)
    BY <1>12, <1>14, <2>1
  <2>3. \A i, k \in 1..m + 1 : x.result[i] = x.result[k] => i = k
    BY <1>12, <1>13, <1>14, <2>1, ZenonT(60)
  <2>4. QED
    BY <1>10, <1>12, <2>2, <2>3 DEF ResultOK
<1>16. Emptied /\ Known' \subseteq Known
  BY <1>6, <1>8 DEF Emptied, Known, Tasks
<1>17. ASSUME NEW r \in Known', r.c = c, Own(s, d, R, r) PROVE Own(x, d, R, r)
  <2>1. ASSUME d.k = r.k PROVE r.i # j
    <3>1. r # r0
      BY <1>6, <1>8, <1>17 DEF Known, Tasks
    <3>2. r \in Task
      BY <1>16, <1>17, KnownTyped
    <3>3. QED
      BY <1>7, <1>17, <2>1, <3>1, <3>2 DEF Task
  <2>2. ASSUME d.k = r.k PROVE \A i \in 1..Len(x.result) : x.result[i] # r.i
    <3>1. \A i \in 1..m : s.result[i] # r.i
      BY <1>3, <1>12, <1>17, <2>2 DEF Own
    <3>2. QED
      BY <1>12, <1>14, <2>1, <2>2, <3>1
  <2>3. QED
    BY <1>3, <1>10, <1>17, <2>2 DEF Own
<1>18. QED
  BY <1>1, <1>3, <1>8, <1>9, <1>15, <1>16, <1>17, StepTasks

\* As many results as resources, all different: none is missing.
LEMMA NoneMissing ==
  ASSUME NEW n \in Nat, NEW f \in [1..n -> 1..n], \A j, k \in 1..n : f[j] = f[k] => j = k,
         NEW i \in 1..n
  PROVE  \E j \in 1..n : f[j] = i
<1>1. SUFFICES ASSUME \A j \in 1..n : f[j] # i PROVE FALSE
  OBVIOUS
<1>2. f \in [1..n -> (1..n) \ {i}]
  BY <1>1
<1>3. IsFiniteSet(1..n) /\ Cardinality(1..n) = n
  <2>1. IsFiniteSet(1..n) /\ Cardinality(1..n) = IF 1 > n THEN 0 ELSE n - 1 + 1
    BY FS_Interval
  <2>2. QED
    BY <2>1
<1>4. IsFiniteSet((1..n) \ {i}) /\ Cardinality((1..n) \ {i}) = n - 1
  BY <1>3, FS_RemoveElement
<1>5. n - 1 < n
  OBVIOUS
<1>6. \E j, k \in 1..n : j # k /\ f[j] = f[k]
  BY <1>2, <1>3, <1>4, <1>5, FS_PigeonHole, ZenonT(60)
<1>7. QED
  BY <1>6

LEMMA CollectAllTasks == ASSUME Core, Talks, Tasks, NEW t \in Thread, CollectAll(t) PROVE Tasks'
<1>1. Serves(t) /\ Types /\ Goes(t)
  BY CollectAllGoes DEF Serves, Serving, At, CollectAll, Core
<1>2. PICK c \in Client, s \in Service, d \in Talker, R \in Seq(Request) : Pair(t, c, s, d, R)
  BY <1>1, Paired
<1>3. /\ c = Peer(t) /\ s = th[t] /\ d = cl[c] /\ R = scene.reqs[c] /\ s.at = "collect"
      /\ Len(s.result) = Len(s.ids) /\ UNCHANGED <<cl, engineVars>>
  BY <1>2 DEF Pair, At, CollectAll
<1>4. PICK x \in Service : x = th'[t]
  BY <1>1 DEF Goes
<1>5. x.at = "send"
  <2>1. PICK b : th'[t] = [s EXCEPT !.at = "send", !.code = 200, !.body = b]
    BY <1>1, <1>3 DEF CollectAll, Types
  <2>2. QED
    BY <1>4, <2>1 DEF Service
<1>6. PICK n \in Nat, f \in Seq(Nat) : n = Len(s.ids) /\ f = s.result /\ Len(f) = n
  <2>1. Len(s.ids) \in Nat /\ s.result \in Seq(Nat)
    BY DEF Service
  <2>2. QED
    BY <1>3, <2>1
<1>7. (\A j \in 1..n : f[j] \in 1..n) /\ (\A j, k \in 1..n : f[j] = f[k] => j = k)
  BY <1>3, <1>6 DEF Tasks, ResultOK
<1>8. f \in [1..n -> 1..n]
  <2>1. \A g \in Seq(Nat) : g \in [1..Len(g) -> Nat]
    OBVIOUS
  <2>2. QED
    BY <1>6, <1>7, <2>1
<1>9. \A i \in 1..n : \E j \in 1..n : f[j] = i
  BY <1>7, <1>8, NoneMissing
<1>10. ASSUME NEW r, Own(s, d, R, r) PROVE Own(x, d, R, r)
  <2>1. d.k # r.k
    <3>1. SUFFICES ASSUME d.k = r.k PROVE FALSE
      OBVIOUS
    <3>2. r.i \in 1..n /\ \A j \in 1..n : f[j] # r.i
      BY <1>3, <1>6, <1>10, <3>1 DEF Own
    <3>3. QED
      BY <1>9, <3>2
  <2>2. QED
    BY <1>10, <2>1 DEF Own
<1>11. ResultOK(x)
  BY <1>5 DEF ResultOK
<1>12. QED
  BY <1>1, <1>3, <1>4, <1>10, <1>11, EngineKept, StepTasks

LEMMA ShutdownTasks == ASSUME Core, Talks, Tasks, NEW t \in Thread, HandleShutdown(t) PROVE Tasks'
<1>1. /\ Types /\ Others /\ InService /\ Closes(main_socket) /\ At(t, "handle")
      /\ UNCHANGED <<scene, engineVars>> /\ th' = RespondLine(t, 200)
  BY CloseFdCloses DEF Core, HandleShutdown, Handles
<1>2. Serves(t)
  BY <1>1 DEF Serves, Serving, At
<1>3. PICK c \in Client, s \in Service : c = Peer(t) /\ s = th[t]
  BY <1>1, <1>2 DEF InService, Types
<1>4. s.at = "handle" /\ Together(t, c)
  BY <1>1, <1>2, <1>3 DEF At, Together
<1>5. PICK b : th' = [th EXCEPT ![t] = [s EXCEPT !.at = "send", !.code = 200, !.body = b]]
  BY <1>1, <1>3, ZenonT(60) DEF RespondLine, Types
<1>6. PICK x : x = [s EXCEPT !.at = "send", !.code = 200, !.body = b]
  OBVIOUS
<1>7. x.at = "send" /\ x.fd = s.fd
  BY <1>6 DEF Service
<1>8. th'[t] = x /\ \A u \in Thread \ {t} : th'[u] = th[u]
  BY <1>1, <1>5, <1>6 DEF Types
<1>9. Emptied /\ Known' = Known
  BY <1>1, EngineKept
<1>10. \A u \in Thread : (Serves(u)' <=> Serves(u)) /\ th'[u].fd = th[u].fd
  BY <1>2, <1>3, <1>7, <1>8 DEF Serves, Serving
<1>11. \A u \in Thread : Serves(u) => Peer(u)' = Peer(u)
  <2>1. \A u \in Thread : Serves(u) => th[u].fd \in Fd /\ fds[th[u].fd] \in Client
    BY <1>1 DEF InService, Peer
  <2>2. \A n \in Fd : fds[n] \in Client => fds'[n] = fds[n]
    BY <1>1 DEF Others, Closes
  <2>3. QED
    BY <1>10, <2>1, <2>2 DEF Peer
<1>12. \A f \in Client, u \in Thread : Together(u, f)' <=> Together(u, f)
  BY <1>10, <1>11 DEF Together
<1>13. ASSUME NEW r \in Known' PROVE TaskOK(r)'
  <2>1. r \in Known /\ r.c \in Client /\ TaskOK(r)
    BY <1>9, <1>13, KnownTyped DEF Tasks, Known
  <2>2. ~Quiet(r.c)
    BY <2>1 DEF Quiet
  <2>3. /\ cl'[r.c] = cl[r.c] /\ \A j \in 1..Len(backlog') : backlog'[j] # r.c
        /\ \A n \in Fd : fds'[n] = r.c => fds[n] = r.c
    BY <1>1, <2>1, <2>2, ClosedKept
  <2>4. CASE r.c # c
    <3>1. \A u \in Thread : Together(u, r.c) => th'[u] = th[u]
      BY <1>3, <1>8, <2>4 DEF Together
    <3>2. QED
      BY <1>1, <1>12, <2>1, <2>3, <3>1, TaskKept
  <2>5. CASE r.c = c
    <3>1. Bad(r)' /\ r.k # cl[c].k
      BY <1>1, <1>3, <1>4, <2>1, <2>5 DEF TaskOK, Own, Bad
    <3>2. \A u \in Thread : Together(u, c)' => u = t
      BY <1>4, <1>12, OneServer
    <3>4. Sent1(r)'
      BY <1>10, <2>1, <2>3 DEF TaskOK, Sent1
    <3>5. QED
      <4>1. ASSUME NEW u \in Thread, Together(u, r.c)' PROVE Own(th[u], cl[r.c], scene.reqs[r.c], r)'
        <5>1. th'[u] = x
          BY <1>8, <2>5, <3>2, <4>1
        <5>2. QED
          BY <1>7, <2>3, <2>5, <3>1, <5>1 DEF Own
      <4>2. QED
        BY <3>1, <3>4, <4>1 DEF TaskOK
  <2>6. QED
    BY <2>4, <2>5
<1>14. \A u \in Thread : ResultOK(th'[u])
  BY <1>7, <1>8, SMTT(30) DEF Tasks, ResultOK
<1>15. QED
  BY <1>9, <1>13, <1>14 DEF Tasks, Emptied, Known

\* A step of a client: only its record changes, from d to e.
LEMMA ClientTasks ==
  ASSUME Core, Tasks, NEW c \in Client, Steady, UNCHANGED <<th, engineVars>>, NEW e \in Talker,
         Alters(c, e), e.at # "new", cl[c].k <= e.k,
         \A t \in Thread, r \in Known :
           Together(t, c) /\ r.c = c /\ r.k <= cl[c].k /\ Own(th[t], cl[c], scene.reqs[c], r) =>
             Own(th[t], e, scene.reqs[c], r)
  PROVE  Tasks'
<1>1. cl'[c] = e /\ \A f \in Client \ {c} : cl'[f] = cl[f]
  <2>1. cl \in [Client -> Talker]
    BY DEF Core, Types
  <2>2. QED
    BY <2>1, Altered
<1>2. UNCHANGED <<scene, fds, backlog>>
  BY DEF Steady, serverVars
<1>3. Emptied /\ Known' = Known
  BY EngineKept
<1>4. \A u \in Thread, f \in Client : (Together(u, f)' <=> Together(u, f)) /\ th'[u] = th[u]
  BY <1>2 DEF Together, Serves, Peer
<1>5. ASSUME NEW r \in Known' PROVE TaskOK(r)'
  <2>1. r \in Known /\ r.c \in Client /\ r.k \in Nat /\ TaskOK(r)
    BY <1>3, <1>5, KnownTyped DEF Tasks, Known
  <2>2. CASE r.c # c
    <3>1. \A j \in 1..Len(backlog') : backlog'[j] # r.c
      BY <1>2, <2>1 DEF TaskOK, Sent1
    <3>2. QED
      BY <1>1, <1>2, <1>4, <2>1, <2>2, <3>1, TaskKept
  <2>3. CASE r.c = c
    <3>1. r.k <= e.k
      <4>1. r.k <= cl[c].k /\ cl[c].k \in Nat /\ e.k \in Nat
        BY <2>1, <2>3 DEF TaskOK, Sent1, Core, Types, Talker
      <4>2. QED
        BY <2>1, <4>1
    <3>2. Sent1(r)'
      BY <1>1, <1>2, <2>1, <2>3, <3>1 DEF TaskOK, Sent1, Serves
    <3>3. Bad(r)' <=> Bad(r)
      BY <1>2 DEF Bad
    <3>4. ASSUME NEW u \in Thread, Together(u, c)' PROVE Own(th[u], cl[c], scene.reqs[c], r)'
      <4>1. Together(u, c) /\ r.k <= cl[c].k /\ Own(th[u], cl[c], scene.reqs[c], r)
        BY <1>4, <2>1, <2>3, <3>4 DEF TaskOK, Sent1
      <4>2. Own(th[u], e, scene.reqs[c], r)
        BY <2>1, <2>3, <4>1
      <4>3. QED
        BY <1>1, <1>2, <3>3, <4>2 DEF Own
    <3>5. Bad(r)' \/ \E u \in Thread : Together(u, c)'
      BY <1>4, <2>1, <2>3, <3>3 DEF TaskOK
    <3>6. QED
      BY <2>3, <3>2, <3>4, <3>5 DEF TaskOK
  <2>4. QED
    BY <2>2, <2>3
<1>6. QED
  BY <1>3, <1>4, <1>5 DEF Tasks, Emptied, Known

LEMMA SendTasks == ASSUME Core, Tasks, NEW c \in Client, Send(c) PROVE Tasks'
<1>1. Types
  BY DEF Core
<1>2. PICK d \in Talker, R \in Seq(Request) : d = cl[c] /\ R = scene.reqs[c]
  BY <1>1, RequestTyped DEF Types
<1>3. Steady /\ UNCHANGED <<th, engineVars>> /\ d.at = "open" /\ d.k \in 1..Len(R)
  BY <1>1, <1>2, SendAlters
<1>4. PICK n \in Nat \ {0}, e \in Talker :
        /\ d.sent + n <= All(R, d.k) /\ Alters(c, e)
        /\ e = [d EXCEPT !.sent = d.sent + n, !.net = d.net + n]
  BY <1>1, <1>2, SendAlters
<1>5. e.at = d.at /\ e.k = d.k
  BY <1>4 DEF Talker
<1>6. d.sent \in Nat /\ d.k \in Nat \ {0} /\ Len(R) \in Nat
  BY DEF Talker
<1>7. \A s : ~Limbo(s, d, R)
  <2>1. All(R, d.k) \in Nat /\ d.k <= d.k
    BY <1>3, <1>6, AskTyped
  <2>2. QED
    BY <1>4, <1>6, <2>1 DEF Limbo
<1>8. \A s, r : Own(s, d, R, r) => Own(s, e, R, r)
  BY <1>3, <1>5, <1>7 DEF Own
<1>9. d.k <= e.k
  BY <1>5, <1>6
<1>10. Alters(c, e) /\ e.at # "new" /\ cl[c].k <= e.k
  BY <1>2, <1>3, <1>4, <1>5, <1>9
<1>11. \A s, r : Own(s, cl[c], scene.reqs[c], r) => Own(s, e, scene.reqs[c], r)
  BY <1>2, <1>8
<1>12. QED
  BY <1>3, <1>10, <1>11, ClientTasks

LEMMA NextTasks == ASSUME Core, Talks, Tasks, NEW c \in Client, NextRequest(c) PROVE Tasks'
<1>1. Types
  BY DEF Core
<1>2. PICK d \in Talker, R \in Seq(Request) : d = cl[c] /\ R = scene.reqs[c]
  BY <1>1, RequestTyped DEF Types
<1>3. Steady /\ UNCHANGED <<th, engineVars>> /\ d.at = "open"
  BY <1>1, <1>2, NextAlters
<1>4. PICK e \in Talker :
        /\ Alters(c, e) /\ e = [d EXCEPT !.k = d.k + 1, !.sent = 0, !.got = <<>>, !.cut = FALSE]
  BY <1>1, <1>2, NextAlters
<1>5. e.at = d.at /\ e.k = d.k + 1 /\ d.k \in Nat
  BY <1>4 DEF Talker
<1>6. ASSUME NEW t \in Thread, NEW r \in Known, Together(t, c), r.k <= d.k, Own(th[t], d, R, r)
      PROVE  Own(th[t], e, R, r)
  <2>1. th[t].at \in {"read", "close"}
    BY <1>6, NextLimbo
  <2>2. r.k # e.k
    <3>1. r.k \in Nat
      BY KnownTyped
    <3>2. QED
      BY <1>5, <1>6, <3>1
  <2>3. QED
    BY <1>6, <2>1, <2>2 DEF Own
<1>7. d.k <= e.k
  BY <1>5
<1>8. Alters(c, e) /\ e.at # "new" /\ cl[c].k <= e.k
  BY <1>2, <1>3, <1>4, <1>5, <1>7
<1>9. \A t \in Thread, r \in Known :
        Together(t, c) /\ r.k <= cl[c].k /\ Own(th[t], cl[c], scene.reqs[c], r) =>
          Own(th[t], e, scene.reqs[c], r)
  BY <1>2, <1>6
<1>10. QED
  BY <1>3, <1>8, <1>9, ClientTasks

LEMMA HangUpTasks == ASSUME Core, Tasks, NEW c \in Client, HangUp(c) PROVE Tasks'
<1>1. Types
  BY DEF Core
<1>2. PICK d \in Talker, R \in Seq(Request) : d = cl[c] /\ R = scene.reqs[c]
  BY <1>1, RequestTyped DEF Types
<1>3. Steady /\ UNCHANGED <<th, engineVars>>
  BY <1>1, HangUpAlters
<1>4. PICK e \in Talker : e.at = "gone" /\ e.k = d.k /\ e.net = d.net /\ Alters(c, e)
  BY <1>1, <1>2, HangUpAlters
<1>5. \A s, r : Own(s, d, R, r) => Own(s, e, R, r)
  BY <1>4 DEF Own
<1>6. d.k <= e.k
  BY <1>4 DEF Talker
<1>7. QED
  BY <1>2, <1>3, <1>4, <1>5, <1>6, ClientTasks

LEMMA TasksInit == Init => Tasks
<1>1. Idle.at = "off"
  BY DEF Idle
<1>2. QED
  BY <1>1 DEF Init, Tasks, ResultOK

LEMMA ServiceTasks == ASSUME Core, Talks, Tasks, NEW t \in Thread, Service1(t) PROVE Tasks'
<1>1. ASSUME SubmitBad(t) \/ SubmitRefused(t) \/ SubmitEnd(t) PROVE Tasks'
  BY <1>1, PassedTasks
<1>2. QED
  BY <1>1, ReadTasks, ReadFailsTasks, WriteTasks, WriteEndsTasks, HandleTasks, ResourcesTasks,
     SubmitTasks, CollectOneTasks, CollectAllTasks DEF Service1

LEMMA TasksStep == Told /\ Tasks /\ [Next]_vars => Tasks'
<1>1. SUFFICES ASSUME Core, Talks, Tasks, [Next]_vars PROVE Tasks'
  BY DEF Told
<1>2. CASE MainOrOther
  <2>1. \/ PlainStep \/ OpenSocket \/ Accept \/ AcceptedRefused \/ AcceptedPut \/ CloseMain \/ StopQueue
        \/ StopServer \/ Exit \/ CreateThreads \/ OpenFile \/ CloseFile
    BY <1>2 DEF MainOrOther, MainStep, ControlStep, PlainStep
  <2>2. QED
    BY <1>1, <2>1, PlainTasks, SocketTasks, AcceptTasks, CloseTasks, RestTasks, ExitTasks
<1>3. ASSUME NEW t \in Thread, ThreadStep(t) PROVE Tasks'
  <2>1. \/ Service1(t) \/ Top(t) \/ Cancelled(t) \/ GetItem(t) \/ CloseConn(t) \/ HandleShutdown(t)
        \/ Die
    BY <1>3 DEF ThreadStep, Service1, WriteLost, LostQuietly, CollectSome, HandlesNow
  <2>2. QED
    BY <1>1, <2>1, ServiceTasks, RestTasks, GetItemTasks, CloseConnTasks, ShutdownTasks, DieTasks
<1>4. ASSUME NEW c \in Client, Connect(c) \/ Send(c) \/ NextRequest(c) \/ HangUp(c) PROVE Tasks'
  BY <1>1, <1>4, ConnectTasks, SendTasks, NextTasks, HangUpTasks, SMTT(30)
<1>5. CASE UNCHANGED vars
  BY <1>1, <1>5 DEF Tasks, TaskOK, Sent1, Bad, Own, Together, Serves, Peer, vars
<1>6. QED
  BY <1>1, <1>2, <1>3, <1>4, <1>5 DEF Next, MainOrOther

LEMMA ToldWhole == Told /\ Tasks => RequestsWhole
<1>1. SUFFICES ASSUME Core, Talks, Tasks PROVE RequestsWhole
  BY DEF Told
<1>2. WholeBody
  <2>1. SUFFICES ASSUME NEW t \in Thread, At(t, "handle"), Ask(t).length
                 PROVE  th[t].have = Units(Peer(t))
    BY DEF WholeBody
  <2>2. Serves(t)
    BY <2>1 DEF Serves, Serving, At
  <2>3. PICK c \in Client, s \in Service, d \in Talker, R \in Seq(Request) : Pair(t, c, s, d, R)
    BY <1>1, <2>2, Paired
  <2>4. /\ c = Peer(t) /\ s = th[t] /\ d = cl[c] /\ R = scene.reqs[c] /\ s.at = "handle"
        /\ d.k <= Len(R) /\ (R[d.k].length => s.have = All(R, d.k))
    BY <2>1, <2>3 DEF Pair, Talk, Answering, At
  <2>5. Ask(t) = R[d.k]
    BY <2>3, <2>4 DEF Pair
  <2>6. Units(c) = All(R, d.k)
    BY <2>4 DEF Units, RequestOf, All
  <2>7. QED
    BY <2>1, <2>4, <2>5, <2>6
<1>3. AnswersMatch
  BY <1>1 DEF AnswersMatch, Talks, Fine, ClientOK, GotOK
<1>4. ProcessWhole
  BY <1>1 DEF ProcessWhole, Talks, Fine, WholeGot, HasRequest, RequestOf
<1>5. NothingLeft
  <2>1. SUFFICES ASSUME NEW r \in inside \cup finished, ~Bad(r)
                 PROVE  \E t \in Thread : /\ th[t].at \in {"submit", "collect"}
                                          /\ Peer(t) = r.c /\ cl[r.c].k = r.k
    BY DEF NothingLeft, Bad
  <2>2. TaskOK(r)
    BY <1>1 DEF Tasks
  <2>3. PICK t \in Thread : Together(t, r.c)
    BY <2>1, <2>2 DEF TaskOK
  <2>4. Own(th[t], cl[r.c], scene.reqs[r.c], r)
    BY <2>2, <2>3 DEF TaskOK
  <2>5. QED
    BY <2>1, <2>3, <2>4 DEF Own, Together
<1>6. QED
  BY <1>2, <1>3, <1>4, <1>5 DEF RequestsWhole

(***************************************************************************)
(* Whatever clients ask for, in however many pieces it comes, whoever      *)
(* hangs up and however the server ends: a request with a length is        *)
(* handled when all of it is there; what a client has got is the beginning *)
(* of the answer to its own request, unless a write was interrupted; as    *)
(* long as no engine is stopped, PROCESS answers 200 only with the results *)
(* of all resources; and no resource stays in the engine or with the       *)
(* collector, but for a request that had one that could not be read.       *)
(***************************************************************************)
THEOREM Requests == Spec => []RequestsWhole
<1>1. Init => Told /\ Tasks
  BY ToldInit, TasksInit
<1>2. Told /\ Tasks /\ [Next]_vars => (Told /\ Tasks)'
  BY ToldStep, TasksStep
<1>3. Told /\ Tasks => RequestsWhole
  BY ToldWhole
<1>4. QED
  BY <1>1, <1>2, <1>3, PTL DEF Spec

=============================================================================
