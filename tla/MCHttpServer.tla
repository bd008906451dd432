---------------------------- MODULE MCHttpServer ----------------------------
(***************************************************************************)
(* Configurations of the server and its clients.                           *)
(***************************************************************************)
EXTENDS HttpServer, TLC

CONSTANTS c1, c2, t1, t2

Req(m, arg, length, keep, body) ==
  [m |-> m, arg |-> arg, length |-> length, keep |-> keep, body |-> body]
Plain(m, arg) == Req(m, arg, FALSE, FALSE, <<>>)

Scene(r1, r2, wait, eng, faults) ==
  [reqs |-> (c1 :> r1) @@ (c2 :> r2), allowed |-> {}, wait |-> wait,
   engine |-> eng, faults |-> faults,
   threads |-> IF r2 = <<>> THEN {t1} ELSE {t1, t2}]

HttpScenes == {
  \* one connection for several requests, written and read in pieces
  Scene(<<Req("GET", "prop", TRUE, TRUE, <<>>),
          Req("PROCESS", "out", TRUE, TRUE, <<"ok", "ok">>)>>,
        <<>>, TRUE, "run", {"interrupt", "idle"}),
  Scene(<<Req("PROCESS", "out", TRUE, TRUE, <<"ok", "ok">>),
          Req("SET", "object", TRUE, TRUE, <<>>),
          Req("GET", "unknown", TRUE, FALSE, <<>>)>>,
        <<Req("PASS", "sink", TRUE, FALSE, <<"ok">>)>>, TRUE, "run", {}),
  \* requests without a length, and ones that cannot be handled
  Scene(<<Req("PROCESS", "out", FALSE, TRUE, <<"ok", "bad">>)>>,
        <<Plain("PASS", "out")>>, TRUE, "run", {"idle"}),
  \* (and a module's file takes the last descriptor)
  [Scene(<<Plain("SAVE_CHECKPOINT", "none")>>, <<Plain("other", "none")>>,
         TRUE, "run", {"file"}) EXCEPT !.threads = {t1}],
  \* the engine is started and stopped under the requests
  Scene(<<Req("PROCESS", "out", TRUE, FALSE, <<"ok", "ok">>)>>,
        <<Req("SET", "prop", TRUE, TRUE, <<"1">>),
          Req("SET", "prop", TRUE, FALSE, <<"0">>)>>, TRUE, "new", {}),
  \* SHUTDOWN, while another client is served or a file is opened
  Scene(<<Plain("SHUTDOWN", "none")>>, <<Plain("GET", "object")>>,
        TRUE, "run", {"idle"}),
  Scene(<<Plain("SHUTDOWN", "none")>>, <<>>, TRUE, "run", {"file"}),
  \* Stop, at any moment
  [Scene(<<Req("PROCESS", "out", TRUE, FALSE, <<"ok">>)>>, <<Plain("SET", "none")>>,
         FALSE, "run", {}) EXCEPT !.allowed = {c1}],
  Scene(<<Req("PROCESS", "out", TRUE, FALSE, <<"ok">>)>>, <<>>,
        FALSE, "run", {"file"}),
  \* the socket cannot be opened;  a client hangs up
  Scene(<<>>, <<>>, TRUE, "run", {"setup"}),
  [Scene(<<Req("GET", "prop", TRUE, TRUE, <<>>)>>, <<Plain("SHUTDOWN", "none")>>,
         TRUE, "run", {"hangup"}) EXCEPT !.threads = {t1}] }

=============================================================================
