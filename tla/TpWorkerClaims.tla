---------------------------- MODULE TpWorkerClaims ----------------------------
(***************************************************************************)
(* What comments and the changelog say of a test, and TpWorker does not do.*)
(* Each is checked by a run of its own that finds it violated.             *)
(***************************************************************************)
EXTENDS MCTpWorker

\* tpworker.h: testStoped is the "signal when test stoped".  A test whose
\* work() has returned has left the running state of the console.
StopIsSignalled == pc = "returned" ~> gui = "ready"

\* tpworker.h: testStoped(err), "0: no error".  It is not said of a test that
\* errorStop was emitted for.
ZeroMeansNoError ==
  \A i \in 1..Len(outcome) : outcome[i] = 0 => \A j \in 1..i : outcome[j] = 0

\* The comment in waitAllServerReady: it waits until all of m_status_server
\* "enter TPStatus::started", so the clients are started with all of them in it.
ServersAreStarted ==
  [][pc = "waitS" /\ pc' = "startC" =>
       \A k \in DOMAIN stat["S"] : stat["S"][k] = Status.started]_vars

\* changelog: "Fix close wsclient on test stop".  When the main loop is over
\* work() leaves no WebSocket to a daemon open.
WsClientsClosed ==
  pc = "returned" /\ outcome = <<0>> => \A c \in Conn : conn[c] # "open"

\* changelog: "when iperf2/3 output stderr, do not stop the TP test pair".  The
\* main loop is not left for a problem while every iperf of the test runs.
StderrDoesNotStop ==
  [][pc = "main" /\ pc' = "returned" /\ Abort =>
       \E i \in Row, r \in Role : iperf[i][r] # "up"]_vars

\* changelog: "add user stop()".  No iperf of a test goes on running after the
\* user stopped it, if no connection breaks.
UserStopEndsIperf ==
  (pc = "returned" /\ userStop /\ faults = 0)
    ~> \A i \in Row, r \in Role : iperf[i][r] # "up"
=============================================================================
