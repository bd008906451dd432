----------------------------- MODULE HttpServer -----------------------------
(***************************************************************************)
(* The server that clients talk to: SimpleServer (a main thread that       *)
(* accepts connections and service threads that take them from a queue),   *)
(* SimpleHTTPServer::Request and SimpleHTTPConn (requests read and         *)
(* responses written piece by piece, keep-alive) and                       *)
(* BaseServer::HandleRequest, together with how Server starts and stops    *)
(* them.                                                                   *)
(*                                                                         *)
(* Descriptors are numbers the kernel hands out, lowest first, and takes   *)
(* back on close.  A request is read in units: the first is its first      *)
(* line, the second the rest of its header, the others its body, which for *)
(* PROCESS and PASS is one unit per resource.  A response is its header,   *)
(* u = 0, and the units of its body; every unit names the request it       *)
(* answers.  Clients wait for a response before they send the next request *)
(* (SimpleHTTPConn.cc:5, no pipelining).  The queue of descriptors is the  *)
(* abstract channel of module Channel, GetProcessedResources what module   *)
(* ResultCollector promises.  Nothing handles SIGPIPE.                     *)
(***************************************************************************)
EXTENDS Integers, Sequences, FiniteSets

CONSTANTS
  Thread,     \* service threads
  Client,
  Fd,         \* the descriptors of the process, positive numbers
  Scenes      \* configurations, one is chosen at the start:
              \*   reqs: what each client asks for, one request after another
              \*   allowed: allowed_client, or {} for everybody
              \*   threads: the service threads (nThreads)
              \*   wait: Start(true), else Start(false) and later Stop
              \*   engine: the state of the engine "out" at the start
              \*   faults: what may go wrong (see Fault)

Method == {"GET", "SET", "PROCESS", "PASS", "SAVE_CHECKPOINT",
           "RESTORE_CHECKPOINT", "SHUTDOWN", "other"}
\* What the argument names: a property ("run" of engine "out"), an object,
\* nothing at all, an engine with or without an output queue, no such thing.
Arg == {"prop", "object", "none", "out", "sink", "unknown"}
\* setup: opening the listening socket or accept fails;  idle: a client is too slow;
\* interrupt: write sends a part only or times out;  hangup: a client leaves
\* early;  file: a module opens a file while the server runs.
Fault == {"setup", "idle", "interrupt", "hangup", "file"}

NoFd == 0

\* length: it has a Content-Length;  keep: it asks for keep-alive.
Request == [m : Method, arg : Arg, length : BOOLEAN, keep : BOOLEAN,
            body : Seq({"ok", "bad", "0", "1"})]

ASSUME HttpAssumption ==
  /\ IsFiniteSet(Thread) /\ IsFiniteSet(Client) /\ IsFiniteSet(Fd)
  /\ Fd \subseteq Nat \ {NoFd}
  /\ {"free", "listen", "file"} \cap Client = {}
  /\ \A s \in Scenes :
       /\ s.threads \subseteq Thread
       /\ s.allowed \subseteq Client /\ s.faults \subseteq Fault
       /\ s.wait \in BOOLEAN /\ s.engine \in {"new", "run"}
       /\ s.reqs \in [Client -> Seq(Request)]

VARIABLES
  scene,
  dead,           \* the process was killed
  fds,            \* what each descriptor refers to
  main_running, main_socket,
  main,           \* where the main thread is
  fd,             \* the descriptor accept returned
  backlog,        \* connections the kernel has taken for the listening socket
  queue, closed,  \* the queue of descriptors, and that it was stopped
  th,             \* the service threads, each with its SimpleHTTPConn
  cl,             \* the clients
  ctl,            \* the thread in Server::Start and Server::Stop
  engine,         \* the engines "out" and "sink": "new", "run" or "off"
  inside,         \* resources "out" works on
  finished,       \* resources it has finished, with the collector
  stops,          \* it has been stopped
  file            \* the descriptor a module of an engine has open

serverVars == <<main_running, main_socket, main, fd, backlog, queue, closed, ctl>>
engineVars == <<engine, inside, finished, stops>>
vars == <<scene, dead, fds, main_running, main_socket, main, fd, backlog, queue,
          closed, th, cl, ctl, engine, inside, finished, stops, file>>

Idle == [at |-> "off", fd |-> NoFd, have |-> 0,
         keep_alive |-> FALSE, code |-> 200, body |-> <<>>, i |-> 0,
         ids |-> <<>>, result |-> <<>>, send |-> 0]

TypeOK ==
  /\ scene \in Scenes
  /\ dead \in BOOLEAN
  /\ fds \in [Fd -> Client \cup {"free", "listen", "file"}]
  /\ main_running \in BOOLEAN
  /\ main_socket \in Fd \cup {NoFd}
  /\ main \in {"off", "new", "socket", "bind", "listen", "loop", "accept",
               "accepted", "close", "stop", "join", "done", "failed"}
  /\ fd \in Fd \cup {NoFd}
  /\ backlog \in Seq(Client)
  /\ queue \in Seq(Fd) /\ closed \in BOOLEAN
  /\ \A t \in Thread :
       /\ th[t].at \in {"off", "top", "get", "read", "handle", "submit",
                        "collect", "send", "close", "done"}
       /\ th[t].fd \in Fd \cup {NoFd}
       /\ th[t].code \in {200, 400, 500, 501}
       /\ th[t].have \in Nat /\ th[t].send \in Nat
  /\ \A c \in Client :
       /\ cl[c].at \in {"new", "open", "gone"}
       /\ cl[c].k \in 1..Len(scene.reqs[c]) + 1
       /\ cl[c].net \in Nat
       /\ cl[c].end \in {"no", "fin", "reset"}
  /\ ctl \in {"off", "run", "engines", "server", "join", "end", "exit"}
  /\ engine \in [{"out", "sink"} -> {"new", "run", "off"}]
  /\ stops \in BOOLEAN
  /\ file \in Fd \cup {NoFd, -1}

Init ==
  /\ scene \in Scenes
  /\ dead = FALSE
  /\ fds = [n \in Fd |-> "free"]
  /\ main_running = FALSE /\ main_socket = NoFd
  /\ main = "off" /\ fd = NoFd
  /\ backlog = <<>>
  /\ queue = <<>> /\ closed = FALSE
  /\ th = [t \in Thread |-> Idle]
  /\ cl = [c \in Client |-> [at |-> "new", k |-> 1, sent |-> 0, net |-> 0,
                             end |-> "no", got |-> <<>>, cut |-> FALSE]]
  /\ ctl = "off"
  /\ engine = [e \in {"out", "sink"} |-> scene.engine]
  /\ inside = {} /\ finished = {}
  /\ stops = FALSE
  /\ file = NoFd

-----------------------------------------------------------------------------
(***************************************************************************)
(* The kernel: descriptors.                                                *)
(***************************************************************************)

HasFree == \E n \in Fd : fds[n] = "free"
FirstFree == CHOOSE n \in Fd : fds[n] = "free"
                                 /\ \A m \in Fd : fds[m] = "free" => n <= m

\* The connection of client c has ended.
Gone(c) == [cl[c] EXCEPT !.at = "gone", !.net = 0, !.sent = 0, !.got = <<>>,
                         !.cut = FALSE]

\* close(n): connections that wait for a listening socket are reset.
CloseFd(n) ==
  IF n \in Fd /\ fds[n] = "listen"
    THEN /\ fds' = [fds EXCEPT ![n] = "free"]
         /\ cl' = [c \in Client |->
                     IF \E j \in 1..Len(backlog) : backlog[j] = c
                       THEN Gone(c) ELSE cl[c]]
         /\ backlog' = <<>>
    ELSE /\ fds' = [m \in Fd |-> IF m = n THEN "free" ELSE fds[m]]
         /\ UNCHANGED <<cl, backlog>>

\* The process is killed (SIGPIPE, SIGSEGV): the kernel closes everything.
Die ==
  /\ dead' = TRUE
  /\ fds' = [n \in Fd |-> "free"]
  /\ main_running' = FALSE /\ main_socket' = NoFd /\ main' = "off" /\ fd' = NoFd
  /\ backlog' = <<>> /\ queue' = <<>> /\ closed' = FALSE
  /\ th' = [t \in Thread |-> Idle]
  /\ cl' = [c \in Client |-> Gone(c)]
  /\ ctl' = "exit" /\ inside' = {} /\ finished' = {}
  /\ engine' = [e \in {"out", "sink"} |-> "off"]
  /\ file' = -1
  /\ UNCHANGED <<scene, stops>>

\* A module of an engine opens a file and closes it later.
OpenFile ==
  /\ "file" \in scene.faults /\ ~dead /\ ctl # "exit"
  /\ file = NoFd /\ HasFree
  /\ file' = FirstFree
  /\ fds' = [fds EXCEPT ![FirstFree] = "file"]
  /\ UNCHANGED <<scene, dead, serverVars, th, cl, engineVars>>

CloseFile ==
  /\ file \in Fd /\ ctl # "exit"
  /\ fds' = [fds EXCEPT ![file] = "free"]
  /\ file' = -1
  /\ UNCHANGED <<scene, dead, serverVars, th, cl, engineVars>>

-----------------------------------------------------------------------------
(***************************************************************************)
(* The main thread.                                                        *)
(***************************************************************************)

\* SimpleServer::Start: main_running is set before the lock is let go, so no
\* thread sees its old value.
Start ==
  /\ ctl = "off"
  /\ ctl' = IF scene.wait THEN "join" ELSE "run"
  /\ main_running' = TRUE
  /\ main' = "new"
  /\ UNCHANGED <<scene, dead, fds, main_socket, fd, backlog, queue, closed, th,
                 cl, engineVars, file>>

At(t, here) == th[t].at = here
Goto(t, there) == [th EXCEPT ![t].at = there]

CreateThreads ==
  /\ main = "new"
  /\ th' = [t \in Thread |-> IF t \in scene.threads THEN [Idle EXCEPT !.at = "top"]
                                                   ELSE Idle]
  /\ main' = "socket"
  /\ UNCHANGED <<scene, dead, fds, main_running, main_socket, fd, backlog, queue,
                 closed, cl, ctl, engineVars, file>>

OpenSocket ==
  /\ main = "socket" /\ HasFree
  /\ main_socket' = FirstFree
  /\ fds' = [fds EXCEPT ![FirstFree] = "listen"]
  /\ main' = "bind"
  /\ UNCHANGED <<scene, dead, main_running, fd, backlog, queue, closed, th, cl,
                 ctl, engineVars, file>>

Listening == main_socket \in Fd /\ fds[main_socket] = "listen"

\* setsockopt and bind, then listen; Stop may have closed the socket.
Prepare ==
  /\ main \in {"bind", "listen"} /\ Listening
  /\ main' = IF main = "bind" THEN "listen" ELSE "loop"
  /\ UNCHANGED <<scene, dead, fds, main_running, main_socket, fd, backlog, queue,
                 closed, th, cl, ctl, engineVars, file>>

\* The main thread returns: it neither stops the queue nor joins the threads.
SetupFails ==
  /\ \/ /\ main \in {"socket", "bind", "listen"}
        /\ "setup" \in scene.faults \/ (main = "socket" /\ ~HasFree)
     \/ main \in {"bind", "listen"} /\ ~Listening
  /\ main' = "failed"
  /\ UNCHANGED <<scene, dead, fds, main_running, main_socket, fd, backlog, queue,
                 closed, th, cl, ctl, engineVars, file>>

Loop ==
  /\ main = "loop"
  /\ main' = IF main_running THEN "accept" ELSE "close"
  /\ UNCHANGED <<scene, dead, fds, main_running, main_socket, fd, backlog, queue,
                 closed, th, cl, ctl, engineVars, file>>

Accept ==
  /\ main = "accept" /\ Listening /\ HasFree /\ backlog # <<>>
  /\ fd' = FirstFree
  /\ fds' = [fds EXCEPT ![FirstFree] = Head(backlog)]
  /\ backlog' = Tail(backlog)
  /\ main' = "accepted"
  /\ UNCHANGED <<scene, dead, main_running, main_socket, queue, closed, th, cl,
                 ctl, engineVars, file>>

\* accept fails when the socket was shut down and closed meanwhile, or for want
\* of descriptors, which ends the server too.
AcceptFails ==
  /\ main = "accept" /\ (~Listening \/ ~HasFree \/ "setup" \in scene.faults)
  /\ fd' = NoFd
  /\ main' = "accepted"
  /\ UNCHANGED <<scene, dead, fds, main_running, main_socket, backlog, queue,
                 closed, th, cl, ctl, engineVars, file>>

Refuses == scene.allowed # {} /\ fds[fd] \notin scene.allowed

\* The loop ends; a connection accepted in vain stays open.
AcceptedLate ==
  /\ main = "accepted" /\ (~main_running \/ fd = NoFd)
  /\ main' = "close" /\ fd' = NoFd
  /\ UNCHANGED <<scene, dead, fds, main_running, main_socket, backlog, queue,
                 closed, th, cl, ctl, engineVars, file>>

AcceptedRefused ==
  /\ main = "accepted" /\ main_running /\ fd # NoFd /\ Refuses
  /\ fds' = [fds EXCEPT ![fd] = "free"]
  /\ cl' = [cl EXCEPT ![fds[fd]] = Gone(fds[fd])]
  /\ main' = "loop" /\ fd' = NoFd
  /\ UNCHANGED <<scene, dead, main_running, main_socket, backlog, queue, closed,
                 th, ctl, engineVars, file>>

\* Mutation: what accept returns is not looked at.
AcceptedPutFailed ==
  /\ main = "accepted" /\ main_running
  /\ queue' = Append(queue, fd)
  /\ main' = "loop" /\ fd' = NoFd
  /\ UNCHANGED <<scene, dead, fds, main_running, main_socket, backlog, closed, th,
                 cl, ctl, engineVars, file>>
\* Mutation: a client that was refused is put into the queue all the same.
AcceptedPutAny ==
  /\ main = "accepted" /\ main_running /\ fd # NoFd
  /\ queue' = Append(queue, fd)
  /\ fds' = IF Refuses THEN [fds EXCEPT ![fd] = "free"] ELSE fds
  /\ main' = "loop" /\ fd' = NoFd
  /\ UNCHANGED <<scene, dead, main_running, main_socket, backlog, closed, th, cl,
                 ctl, engineVars, file>>
\* The queue has no limit, and only this thread stops it.
AcceptedPut ==
  /\ main = "accepted" /\ main_running /\ fd # NoFd /\ ~Refuses
  /\ queue' = Append(queue, fd)
  /\ main' = "loop" /\ fd' = NoFd
  /\ UNCHANGED <<scene, dead, fds, main_running, main_socket, backlog, closed, th,
                 cl, ctl, engineVars, file>>

\* After the loop, under main_lock.
CloseMain ==
  /\ main = "close"
  /\ main_running' = FALSE
  /\ main_socket' = NoFd
  /\ CloseFd(main_socket)
  /\ main' = "stop"
  /\ UNCHANGED <<scene, dead, fd, queue, closed, th, ctl, engineVars, file>>

\* Mutation: the queue is not stopped before the threads are joined.
StopQueueNot ==
  /\ main = "stop"
  /\ main' = "join"
  /\ UNCHANGED <<scene, dead, fds, main_running, main_socket, fd, backlog, queue,
                 closed, th, cl, ctl, engineVars, file>>
\* queue->Stop() deletes the descriptors in the queue and closes none.
StopQueue ==
  /\ main = "stop"
  /\ queue' = <<>> /\ closed' = TRUE
  /\ main' = "join"
  /\ UNCHANGED <<scene, dead, fds, main_running, main_socket, fd, backlog, th, cl,
                 ctl, engineVars, file>>

JoinThreads ==
  /\ main = "join" /\ \A t \in scene.threads : At(t, "done")
  /\ main' = "done"
  /\ UNCHANGED <<scene, dead, fds, main_running, main_socket, fd, backlog, queue,
                 closed, th, cl, ctl, engineVars, file>>

-----------------------------------------------------------------------------
(***************************************************************************)
(* Server::Start(true) and Server::Stop.                                   *)
(***************************************************************************)

\* ProcessingEngine::StopSync of engines es: what "out" has is lost.
StopEngine(es) ==
  /\ engine' = [e \in {"out", "sink"} |-> IF e \in es THEN "off" ELSE engine[e]]
  /\ inside' = {} /\ finished' = {}
  /\ stops' = TRUE

\* Start waits for the main thread, then stops the engines; Stop stops the
\* engines first, whatever the service threads are doing.
StopEngines ==
  /\ \/ ctl = "join" /\ scene.wait /\ main \in {"done", "failed"} /\ ctl' = "end"
     \/ ctl = "run" /\ ctl' = "server"
  /\ StopEngine({"out", "sink"})
  /\ UNCHANGED <<scene, dead, fds, main_running, main_socket, main, fd, backlog,
                 queue, closed, th, cl, file>>

\* Mutation: Stop keeps the number of the socket it has closed.
StopServerKeepsSocket ==
  /\ ctl = "server"
  /\ main_running' = FALSE
  /\ UNCHANGED main_socket
  /\ IF main_running THEN CloseFd(main_socket) ELSE UNCHANGED <<fds, cl, backlog>>
  /\ ctl' = "join"
  /\ UNCHANGED <<scene, dead, main, fd, queue, closed, th, engineVars, file>>
\* SimpleServer::Stop: the socket is closed if nobody has ended the server yet.
StopServer ==
  /\ ctl = "server"
  /\ main_running' = FALSE
  /\ IF main_running THEN main_socket' = NoFd /\ CloseFd(main_socket)
                     ELSE UNCHANGED <<main_socket, fds, cl, backlog>>
  /\ ctl' = "join"
  /\ UNCHANGED <<scene, dead, main, fd, queue, closed, th, engineVars, file>>

StopJoin ==
  /\ ctl = "join" /\ ~scene.wait /\ main \in {"done", "failed"}
  /\ ctl' = "end"
  /\ UNCHANGED <<scene, dead, fds, main_running, main_socket, main, fd, backlog,
                 queue, closed, th, cl, engineVars, file>>

\* The program ends.
Exit ==
  /\ ctl = "end"
  /\ ctl' = "exit"
  /\ fds' = [n \in Fd |-> "free"]
  /\ backlog' = <<>> /\ queue' = <<>> /\ file' = -1
  /\ cl' = [c \in Client |-> Gone(c)]
  /\ th' = [t \in Thread |-> [Idle EXCEPT !.at = "done"]]
  /\ UNCHANGED <<scene, dead, main_running, main_socket, main, fd, closed,
                 engineVars>>

-----------------------------------------------------------------------------
(***************************************************************************)
(* The clients.                                                            *)
(***************************************************************************)

HasRequest(c) == cl[c].k <= Len(scene.reqs[c])
RequestOf(c) == scene.reqs[c][cl[c].k]
Units(c) == 2 + Len(RequestOf(c).body)

Connect(c) ==
  /\ cl[c].at = "new" /\ HasRequest(c)
  /\ Listening /\ main \in {"loop", "accept", "accepted"}
  /\ cl' = [cl EXCEPT ![c].at = "open"]
  /\ backlog' = Append(backlog, c)
  /\ UNCHANGED <<scene, dead, fds, main_running, main_socket, main, fd, queue,
                 closed, th, ctl, engineVars, file>>

Send(c) ==
  /\ cl[c].at = "open" /\ HasRequest(c)
  /\ \E n \in 1..Units(c) - cl[c].sent :
       cl' = [cl EXCEPT ![c].sent = @ + n, ![c].net = @ + n]
  /\ UNCHANGED <<scene, dead, fds, serverVars, th, engineVars, file>>

Answered(c) == cl[c].got # <<>> /\ Len(cl[c].got) > cl[c].got[1].n

\* The response is there and keeps the connection: on to the next request.
NextRequest(c) ==
  /\ cl[c].at = "open" /\ Answered(c) /\ cl[c].got[1].keep
  /\ cl' = [cl EXCEPT ![c].k = @ + 1, ![c].sent = 0, ![c].got = <<>>,
                       ![c].cut = FALSE]
  /\ UNCHANGED <<scene, dead, fds, serverVars, th, engineVars, file>>

HangUp(c) ==
  /\ "hangup" \in scene.faults
  /\ cl[c].at = "open" /\ cl[c].end = "no"
  /\ \E e \in {"fin", "reset"} :
       cl' = [cl EXCEPT ![c] = [Gone(c) EXCEPT !.net = cl[c].net, !.end = e]]
  /\ UNCHANGED <<scene, dead, fds, serverVars, th, engineVars, file>>

-----------------------------------------------------------------------------
(***************************************************************************)
(* A service thread: ServiceThread, SimpleHTTPServer::Request and the      *)
(* reading and writing of SimpleHTTPConn.                                  *)
(***************************************************************************)

Peer(t) == fds[th[t].fd]
Ask(t) == RequestOf(Peer(t))

Top(t) ==
  /\ At(t, "top")
  /\ th' = Goto(t, IF main_running THEN "get" ELSE "done")
  /\ UNCHANGED <<scene, dead, fds, serverVars, cl, engineVars, file>>

GetItem(t) ==
  /\ At(t, "get") /\ queue # <<>>
  /\ th' = [th EXCEPT ![t].at = "read", ![t].fd = Head(queue)]
  /\ queue' = Tail(queue)
  /\ UNCHANGED <<scene, dead, fds, main_running, main_socket, main, fd, backlog,
                 closed, cl, ctl, engineVars, file>>

Cancelled(t) ==
  /\ At(t, "get") /\ closed
  /\ th' = Goto(t, "done")
  /\ UNCHANGED <<scene, dead, fds, serverVars, cl, engineVars, file>>

\* Mutation: the last unit of the body is not waited for.
ReadyEarly(t, have) ==
  have >= 2 /\ (Ask(t).length => have - 2 >= Len(Ask(t).body) - 1)
\* ParseRequestHeader has found the end of the header, and there is as much
\* behind it as Content-Length says; without one the request ends here.
Ready(t, have) ==
  have >= 2 /\ (Ask(t).length => have - 2 >= Len(Ask(t).body))

\* Keep-alive only for requests that tell their length.
KeepAlive(t, have) == have >= 2 /\ Ask(t).keep /\ Ask(t).length

\* select and read: everything that has come is added to the buffer.  When the
\* client has hung up, read returns 0, the buffer stays as it is, the request
\* is still incomplete and the loop goes on: a step that changes nothing.
Read(t) ==
  /\ At(t, "read") /\ cl[Peer(t)].net > 0
  /\ LET c == Peer(t)
         have == th[t].have + cl[c].net
     IN /\ th' = [th EXCEPT ![t].have = have,
                             ![t].keep_alive = KeepAlive(t, have),
                             ![t].at = IF Ready(t, have) THEN "handle" ELSE "read"]
        /\ cl' = [cl EXCEPT ![c].net = 0]
  /\ UNCHANGED <<scene, dead, fds, serverVars, engineVars, file>>

\* select times out or read fails: ReadRequest returns false.
ReadFails(t) ==
  /\ At(t, "read")
  /\ LET c == Peer(t) IN
       \/ cl[c].end = "reset"
       \/ /\ cl[c].net = 0 /\ cl[c].end = "no"
          /\ "idle" \in scene.faults \/ ~HasRequest(c)
  /\ th' = Goto(t, "close")
  /\ UNCHANGED <<scene, dead, fds, serverVars, cl, engineVars, file>>

Response(t) ==
  <<[k |-> cl[Peer(t)].k, u |-> 0, code |-> th[t].code, n |-> Len(th[t].body),
     keep |-> th[t].keep_alive]>> \o th[t].body

\* Clear: a client that waits for its response has sent nothing more, so that
\* there is nothing to preserve.
Clear(t) == [th EXCEPT ![t] = [Idle EXCEPT !.at = "read", !.fd = th[t].fd]]

AfterResponse(t) == IF th[t].keep_alive THEN Clear(t) ELSE Goto(t, "close")

\* Mutation: the loop ends when more than everything is sent.
SentNever(t, w) == th[t].send + w > Len(Response(t))
Sent(t, w) == th[t].send + w >= Len(Response(t))

\* A round of SendResponse: what is left to send decides how many units are
\* written, but they are taken from the beginning of the response.
Write(t) ==
  /\ At(t, "send") /\ cl[Peer(t)].end = "no"
  /\ LET c == Peer(t)
         rest == Len(Response(t)) - th[t].send
     IN \E w \in IF "interrupt" \in scene.faults THEN 1..rest ELSE {rest} :
          /\ cl' = [cl EXCEPT ![c].got = @ \o SubSeq(Response(t), 1, w),
                              ![c].cut = @ \/ w < rest]
          /\ th' = IF Sent(t, w) THEN AfterResponse(t)
                                 ELSE [th EXCEPT ![t].send = @ + w]
  /\ UNCHANGED <<scene, dead, fds, serverVars, engineVars, file>>

\* select times out: the rest is not sent, the connection goes on.
WriteTimesOut(t) ==
  /\ At(t, "send") /\ cl[Peer(t)].end = "no" /\ "interrupt" \in scene.faults
  /\ cl' = [cl EXCEPT ![Peer(t)].cut = TRUE]
  /\ th' = AfterResponse(t)
  /\ UNCHANGED <<scene, dead, fds, serverVars, engineVars, file>>

\* The client has hung up: what is written is lost, or SIGPIPE ends the server.
WriteLost(t) ==
  /\ At(t, "send") /\ cl[Peer(t)].end # "no"
  /\ \/ /\ th' = AfterResponse(t)
        /\ UNCHANGED <<scene, dead, fds, serverVars, cl, engineVars, file>>
     \/ Die

CloseConn(t) ==
  /\ At(t, "close")
  /\ fds' = [fds EXCEPT ![th[t].fd] = "free"]
  /\ cl' = [cl EXCEPT ![Peer(t)] = Gone(Peer(t))]
  /\ th' = [th EXCEPT ![t] = [Idle EXCEPT !.at = "top"]]
  /\ UNCHANGED <<scene, dead, serverVars, engineVars, file>>

-----------------------------------------------------------------------------
(***************************************************************************)
(* BaseServer::HandleRequest.                                              *)
(***************************************************************************)

Handles(t, ms) == At(t, "handle") /\ Ask(t).m \in ms

Unit(t, j) == [k |-> cl[Peer(t)].k, u |-> j]

\* SetResponseCode, with a line added to the body or without.
Respond(t, code) == [th EXCEPT ![t].at = "send", ![t].code = code]
RespondLine(t, code) ==
  [th EXCEPT ![t].at = "send", ![t].code = code, ![t].body = Append(@, Unit(t, 1))]
ErrorResponse(t, code) ==
  [th EXCEPT ![t].at = "send", ![t].code = code, ![t].body = <<Unit(t, 1)>>]

\* The value of a property, the properties of an object, or all objects.
HandleGet(t) ==
  /\ Handles(t, {"GET"})
  /\ th' = IF Ask(t).arg = "unknown" THEN ErrorResponse(t, 400)
                                     ELSE RespondLine(t, 200)
  /\ UNCHANGED <<scene, dead, fds, serverVars, cl, engineVars, file>>

\* GetRequestBody: what is in the buffer behind the header.
Body(t) == SubSeq(Ask(t).body, 1, th[t].have - 2)

StartEngine ==
  /\ engine' = [engine EXCEPT !["out"] = "run"]
  /\ UNCHANGED <<inside, finished, stops>>

\* SetRun of the engine; a value that is neither 0 nor 1 is only logged.
SetRun(value) ==
  CASE value = <<"0">> /\ engine["out"] = "run" -> StopEngine({"out"})
    [] value = <<"1">> -> StartEngine
    [] OTHER -> UNCHANGED engineVars

\* An argument without a property is only logged: the code stays 200.
HandleSet(t) ==
  /\ Handles(t, {"SET"})
  /\ th' = IF Ask(t).arg \in {"unknown", "none"} THEN ErrorResponse(t, 400)
                                                 ELSE Respond(t, 200)
  /\ IF Ask(t).arg = "prop" THEN SetRun(Body(t)) ELSE UNCHANGED engineVars
  /\ UNCHANGED <<scene, dead, fds, serverVars, cl, file>>

\* PROCESS needs an engine with an output queue, PASS one without.
HandleResources(t) ==
  /\ Handles(t, {"PROCESS", "PASS"})
  /\ th' = IF Ask(t).arg = (IF Ask(t).m = "PROCESS" THEN "out" ELSE "sink")
             THEN [th EXCEPT ![t].at = "submit", ![t].i = 1]
             ELSE Respond(t, 500)
  /\ UNCHANGED <<scene, dead, fds, serverVars, cl, engineVars, file>>

Resource(t, i) == [c |-> Peer(t), k |-> cl[Peer(t)].k, i |-> i]

\* A resource that cannot be read ends the request, the ones before it stay in
\* the engine.
SubmitBad(t) ==
  /\ At(t, "submit") /\ th[t].i <= Len(Body(t)) /\ Body(t)[th[t].i] = "bad"
  /\ th' = Respond(t, 500)
  /\ UNCHANGED <<scene, dead, fds, serverVars, cl, engineVars, file>>

\* ProcessResource: into the input queue of the engine.
Submit(t) ==
  /\ At(t, "submit") /\ th[t].i <= Len(Body(t)) /\ Body(t)[th[t].i] # "bad"
  /\ engine[Ask(t).arg] # "off"
  /\ th' = [th EXCEPT ![t].i = @ + 1, ![t].ids = Append(@, th[t].i)]
  /\ inside' = IF Ask(t).arg = "out" THEN inside \cup {Resource(t, th[t].i)} ELSE inside
  /\ UNCHANGED <<scene, dead, fds, serverVars, cl, engine, finished, stops, file>>

Passed(t) == IF Ask(t).m = "PROCESS" THEN Goto(t, "collect") ELSE Respond(t, 200)

\* The queue is stopped: the rest of the body is not read.  This is noticed if
\* there is a rest and the stream, whose ByteCount is what it has fetched, has
\* not fetched all of it.
SubmitRefused(t) ==
  /\ At(t, "submit") /\ th[t].i <= Len(Body(t)) /\ Body(t)[th[t].i] # "bad"
  /\ engine[Ask(t).arg] = "off"
  /\ \/ th[t].i < Len(Body(t)) /\ th' = Respond(t, 500)
     \/ th' = Passed(t)
  /\ UNCHANGED <<scene, dead, fds, serverVars, cl, engineVars, file>>

SubmitEnd(t) ==
  /\ At(t, "submit") /\ th[t].i > Len(Body(t))
  /\ th' = Passed(t)
  /\ UNCHANGED <<scene, dead, fds, serverVars, cl, engineVars, file>>

\* The engine finishes its resources in any order.
Finish ==
  /\ engine["out"] = "run"
  /\ \E r \in inside : inside' = inside \ {r} /\ finished' = finished \cup {r}
  /\ UNCHANGED <<scene, dead, fds, serverVars, th, cl, engine, stops, file>>

\* GetProcessedResources takes the results of this request as they come.
CollectOne(t) ==
  /\ At(t, "collect")
  /\ \E j \in 1..Len(th[t].ids) :
       LET r == Resource(t, th[t].ids[j]) IN
         /\ r \in finished
         /\ finished' = finished \ {r}
         /\ th' = [th EXCEPT ![t].result = Append(@, r.i)]
  /\ UNCHANGED <<scene, dead, fds, serverVars, cl, engine, inside, stops, file>>

\* Mutation: the results are sent in the order in which they finished.
InAnyOrder(t) == [j \in 1..Len(th[t].result) |-> Unit(t, th[t].result[j])]
\* Mutation: the last result is left out.
InOrderButLast(t) == [j \in 1..Len(th[t].ids) - 1 |-> Unit(t, th[t].ids[j])]
\* The results in the order of the request (map, resourceIdsOrdered).
InOrder(t) == [j \in 1..Len(th[t].ids) |-> Unit(t, th[t].ids[j])]

\* Mutation: the last result is not waited for.
CollectAllEarly(t) ==
  /\ At(t, "collect") /\ Len(th[t].result) + 1 >= Len(th[t].ids)
  /\ th' = [th EXCEPT ![t].at = "send", ![t].code = 200,
                      ![t].body = @ \o InOrder(t)]
  /\ UNCHANGED <<scene, dead, fds, serverVars, cl, engineVars, file>>
CollectAll(t) ==
  /\ At(t, "collect") /\ Len(th[t].result) = Len(th[t].ids)
  /\ th' = [th EXCEPT ![t].at = "send", ![t].code = 200,
                      ![t].body = @ \o InOrder(t)]
  /\ UNCHANGED <<scene, dead, fds, serverVars, cl, engineVars, file>>

\* The engine was stopped: the results that are missing are NULL in the map,
\* and are serialized before their number is compared.
CollectSome(t) ==
  /\ At(t, "collect") /\ Len(th[t].result) < Len(th[t].ids)
  /\ engine["out"] = "off"
  /\ Die

\* Every engine saves or restores; the first that fails ends the request.
HandleCheckpoint(t) ==
  /\ Handles(t, {"SAVE_CHECKPOINT", "RESTORE_CHECKPOINT"})
  /\ \E code \in {200, 500} : th' = Respond(t, code)
  /\ UNCHANGED <<scene, dead, fds, serverVars, cl, engineVars, file>>

\* SetRunning(false) closes the socket and keeps its number.
HandleShutdown(t) ==
  /\ Handles(t, {"SHUTDOWN"})
  /\ th' = RespondLine(t, 200)
  /\ main_running' = FALSE
  /\ CloseFd(main_socket)
  /\ UNCHANGED <<scene, dead, main_socket, main, fd, queue, closed, ctl,
                 engineVars, file>>

\* HandleExtension of BaseServer handles nothing.
HandleOther(t) ==
  /\ Handles(t, {"other"})
  /\ th' = ErrorResponse(t, 501)
  /\ UNCHANGED <<scene, dead, fds, serverVars, cl, engineVars, file>>

-----------------------------------------------------------------------------

MainStep ==
  \/ CreateThreads \/ OpenSocket \/ Prepare \/ SetupFails \/ Loop
  \/ Accept \/ AcceptFails \/ AcceptedLate \/ AcceptedRefused \/ AcceptedPut
  \/ CloseMain \/ StopQueue \/ JoinThreads

ThreadStep(t) ==
  \/ Top(t) \/ GetItem(t) \/ Cancelled(t)
  \/ Read(t) \/ ReadFails(t) \/ Write(t) \/ WriteTimesOut(t) \/ WriteLost(t)
  \/ CloseConn(t)
  \/ HandleGet(t) \/ HandleSet(t) \/ HandleResources(t)
  \/ SubmitBad(t) \/ Submit(t) \/ SubmitRefused(t) \/ SubmitEnd(t)
  \/ CollectOne(t) \/ CollectAll(t) \/ CollectSome(t)
  \/ HandleCheckpoint(t) \/ HandleShutdown(t) \/ HandleOther(t)

ControlStep == StopServer \/ StopJoin \/ Exit
               \/ (ctl = "join" /\ StopEngines)

Next ==
  \/ Start \/ MainStep \/ ControlStep \/ StopEngines
  \/ \E t \in Thread : ThreadStep(t)
  \/ \E c \in Client : Connect(c) \/ Send(c) \/ NextRequest(c) \/ HangUp(c)
  \/ Finish \/ OpenFile \/ CloseFile

Spec == Init /\ [][Next]_vars

(***************************************************************************)
(* Fairness: the threads of the server are scheduled, select comes back    *)
(* when its time is over, a running engine finishes its resources, and a   *)
(* client that has begun goes on, unless it is one that may be idle.       *)
(* Nobody has to connect, to hang up or to call Stop.                      *)
(***************************************************************************)
Fairness ==
  /\ WF_vars(MainStep) /\ WF_vars(ControlStep) /\ WF_vars(Finish)
  /\ \A t \in Thread : WF_vars(ThreadStep(t))
  /\ \A c \in Client :
       WF_vars("idle" \notin scene.faults /\ (Send(c) \/ NextRequest(c)))

FairSpec == Spec /\ Fairness

-----------------------------------------------------------------------------
(***************************************************************************)
(* Properties.                                                             *)
(***************************************************************************)

Busy(t) == th[t].at \notin {"off", "top", "get", "done"}

\* The descriptor a service thread works with, or that waits in the queue, is
\* an open connection of a client, and no two of them are the same: nobody
\* closes a descriptor that another thread still uses.
ConnectionsApart ==
  /\ \A j \in 1..Len(queue) : fds[queue[j]] \in Client
  /\ \A j, k \in 1..Len(queue) : queue[j] = queue[k] => j = k
  /\ \A t \in Thread : Busy(t) =>
       /\ Peer(t) \in Client
       /\ \A j \in 1..Len(queue) : queue[j] # th[t].fd
       /\ \A u \in Thread : Busy(u) /\ th[u].fd = th[t].fd => t = u

\* However the server is started and stopped, it closes no descriptor that a
\* module has opened.  (Not so after SHUTDOWN: SetRunning keeps the number of
\* the socket it has closed, and the main thread closes it once more.)
FilesKept ==
  (\A c \in Client : \A j \in 1..Len(scene.reqs[c]) :
     scene.reqs[c][j].m # "SHUTDOWN")
    => (file \in Fd => fds[file] = "file")

\* A request with a Content-Length is handled when all of its body has come,
\* in however many pieces.
WholeBody ==
  \A t \in Thread : At(t, "handle") /\ Ask(t).length =>
    th[t].have = Units(Peer(t))

\* What a client has got is the beginning of the response to its current
\* request, in the right order and with nothing left from an earlier request
\* on the connection, if no write was interrupted.
AnswersMatch ==
  \A c \in Client : ~cl[c].cut =>
    \A j \in 1..Len(cl[c].got) :
      /\ cl[c].got[j].k = cl[c].k /\ cl[c].got[j].u = j - 1
      /\ j <= cl[c].got[1].n + 1

\* A PROCESS request that is answered with 200 has a result for each of its
\* resources, if the engine was not stopped meanwhile.
ProcessWhole ==
  \A c \in Client :
    LET got == cl[c].got IN
      got # <<>> /\ HasRequest(c) /\ ~stops
        /\ RequestOf(c).m = "PROCESS" /\ RequestOf(c).length =>
      (got[1].code = 200 => got[1].n = Len(RequestOf(c).body))

\* Resources in the engine and results nobody has taken belong to a request
\* under way, but for the ones that were followed by an unreadable resource.
NothingLeft ==
  \A r \in inside \cup finished :
    \/ \E t \in Thread : th[t].at \in {"submit", "collect"}
                          /\ Peer(t) = r.c /\ cl[r.c].k = r.k
    \/ \E j \in DOMAIN scene.reqs[r.c][r.k].body :
         scene.reqs[r.c][r.k].body[j] = "bad"

\* After SHUTDOWN or Stop the main thread ends, with all service threads
\* joined, unless a client hangs up in the middle or a PROCESS request waits
\* for an engine that nobody starts.
ServerEnds ==
  [](\A c \in Client : cl[c].end = "no") /\ <>[](engine["out"] # "new")
    => (main = "loop" /\ ~main_running ~> main = "done" \/ dead)

\* A client that has sent its request gets its response or loses the
\* connection, under the same conditions.
ClientIsServed ==
  [](\A c \in Client : cl[c].end = "no") /\ <>[](engine["out"] # "new") =>
    \A c \in Client :
      cl[c].at = "open" /\ HasRequest(c) /\ cl[c].sent > 0
        ~> Answered(c) \/ cl[c].at = "gone"

\* Descriptors: a connection has one user, and only its owner closes it.
DescriptorsApart == TypeOK /\ ConnectionsApart /\ FilesKept

\* Requests: read as a whole, and answered in order, with all results collected.
RequestsWhole == WholeBody /\ AnswersMatch /\ ProcessWhole /\ NothingLeft

\* Threads: the server ends, and until then its clients are served.
ServesAndEnds == ServerEnds /\ ClientIsServed

=============================================================================
