------------------------------- MODULE TpWorker -------------------------------
(***************************************************************************)
(* The console's TpWorker: one test, run by work() on a thread of its own. *)
(* It connects to the daemons of every pair and adds the pair, starts the  *)
(* iperf servers, waits until they reported, starts the iperf clients,     *)
(* waits for them, and then watches the pairs until the test is over.      *)
(*                                                                         *)
(* work() is one call; messages of the daemons and the user's stop reach   *)
(* its slots only where it calls processEvents, and in the event loop of   *)
(* the thread after work() has returned.                                   *)
(*                                                                         *)
(* Left out: the branches on bErrorStop > 0, which is only set just before *)
(* errorStop(2), and failures of sendText to a WebSocket that work() has   *)
(* just found connected.                                                   *)
(***************************************************************************)
EXTENDS Daemons

CONSTANT Forever   \* what isRunforever may be: TRUE is a test without a time limit

ASSUME TpWorkerAssumption == Forever \subseteq BOOLEAN

VARIABLES
  forever,   \* isRunforever of this test
  pc,        \* where work() is
  at,        \* <<row, role>> that work() connects to
  ws,        \* [Role -> SUBSET Host]: the keys of m_wss and m_wsc
  conn,      \* [Conn -> ...]: the state of the WSClient
  stat,      \* [Role -> QMap]: m_status_server and m_status_client
  todo,      \* the keys that waitAllServerReady has yet to read in this pass
  ready,     \* readyCount in this pass
  userStop,  \* bUserStop
  posted,    \* setTPStop was emitted and onSetStop has not run
  gui,       \* QIperfC's bStartTest, as its buttons show it
  outcome    \* the err of errorStop(err) and testStoped(err), oldest first

workVars == <<forever, pc, at, ws, conn, stat, todo, ready, userStop, posted, gui, outcome>>
vars == <<daemonVars, workVars>>

\* TPStatus::Status
Status == [init |-> 0, started |-> 1, stoped |-> 2, restarted |-> 3]

Place == {"idle", "open", "connect", "startS", "waitS", "startC", "waitC",
          "main", "returned"}

TypeOK ==
  /\ DaemonsTypeOK /\ forever \in BOOLEAN
  /\ pc \in Place
  /\ at \in Row \X Role
  /\ ws \in [Role -> SUBSET Host]
  /\ conn \in [Conn -> {"none", "opening", "open", "closed"}]
  /\ DOMAIN stat = Role
  /\ \A r \in Role : stat[r] \in [DOMAIN stat[r] -> 0..3] /\ DOMAIN stat[r] \subseteq Row
  /\ todo \subseteq Row /\ ready \in 0..Len(Rows)
  /\ {userStop, posted} \subseteq BOOLEAN
  /\ gui \in {"ready", "running"}
  /\ outcome \in Seq(0..4)

Init ==
  /\ DaemonsInit
  /\ forever \in Forever
  /\ pc = "idle" /\ at = <<1, "S">>
  /\ ws = [r \in Role |-> {}]
  /\ conn = [c \in Conn |-> "none"]
  /\ stat = [r \in Role |-> EmptyMap]
  /\ todo = {} /\ ready = 0
  /\ userStop = FALSE /\ posted = FALSE
  /\ gui = "ready" /\ outcome = <<>>

-----------------------------------------------------------------------------
(* Signals to QIperfC and commands to the daemons.                         *)
\* emit errorStop(err) and testStoped(err): both make QIperfC leave the
\* running state, in updateRunStatus(false).
Tell(errs) ==
  /\ outcome' = outcome \o errs
  /\ gui' = "ready"

\* WSClient::sendText on every connection in S.
SendTo(S, ms) ==
  up' = [c \in Conn |-> IF c \in S /\ link[c] = "up" THEN up[c] \o ms ELSE up[c]]

\* The connections of a role whose WSClient can send, up to the first in the
\* order of the map's keys that can not.
Sendable(r) ==
  {c \in {r} \X ws[r] : \A h \in ws[r] : h <= c[2] => conn[<<r, h>>] = "open"}

\* CMD_IPERF_START to every daemon of a role; err if one can not be told.
SendStart(r, err) ==
  /\ SendTo(Sendable(r), <<Command("START", r, 0)>>)
  /\ IF Sendable(r) = {r} \X ws[r] THEN UNCHANGED <<outcome, gui>> ELSE Tell(<<err>>)

Return(errs) ==
  /\ pc' = "returned"
  /\ IF errs = <<>> THEN UNCHANGED <<outcome, gui>> ELSE Tell(errs)

\* Mutant: STOP is sent, CLEAR is not.
HaltCommandsNoClear == <<Command("STOP", "S", 0)>>

\* What onStop sends.
HaltCommands == <<Command("STOP", "S", 0), Command("CLEAR", "S", 0)>>

\* TpWorker::onStop: STOP, CLEAR and close, for the daemons in m_wss alone.
OnStop ==
  LET S == {c \in {"S"} \X ws["S"] : conn[c] = "open"} IN
  /\ SendTo(S, HaltCommands)
  /\ conn' = [c \in Conn |-> IF c \in {"S"} \X ws["S"] THEN "closed" ELSE conn[c]]
  /\ link' = [c \in Conn |-> IF c \in S THEN "down" ELSE link[c]]
  /\ down' = [c \in Conn |-> IF c \in S THEN <<>> ELSE down[c]]
  /\ userStop' = TRUE
  /\ Return(<<0>>)

-----------------------------------------------------------------------------
(* The user.                                                               *)
\* QIperfC::onStart, and work() as far as initStart().
Begin ==
  /\ pc = "idle"
  /\ pc' = "open" /\ gui' = "running"
  /\ UNCHANGED <<daemonVars, forever, at, ws, conn, stat, todo, ready, userStop, posted, outcome>>

\* QIperfC::onStop: the action is enabled while bStartTest.
UserStops ==
  /\ gui = "running" /\ ~posted /\ pc # "idle"
  /\ posted' = TRUE
  /\ UNCHANGED <<daemonVars, forever, pc, at, ws, conn, stat, todo, ready, userStop, gui, outcome>>

-----------------------------------------------------------------------------
(* The slots, run by processEvents and by the event loop.                  *)
Processing == pc \in {"connect", "waitS", "waitC", "main", "returned"}

\* TpWorker::onSetStop.
OnSetStop ==
  /\ Processing /\ posted
  /\ posted' = FALSE /\ userStop' = TRUE
  /\ UNCHANGED <<daemonVars, forever, pc, at, ws, conn, stat, todo, ready, gui, outcome>>

\* QWebSocket::connected.
Connected(c) ==
  /\ Processing /\ conn[c] = "opening"
  /\ conn' = [conn EXCEPT ![c] = "open"]
  /\ link' = [link EXCEPT ![c] = "up"]
  /\ UNCHANGED <<iperf, launched, halt, up, down, faults, errors, forever,
                 pc, at, ws, stat, todo, ready, userStop, posted, gui, outcome>>

\* Mutant: any stop counts as one without error.
StatusAfterNoError(r, m) ==
  IF m.role # r \/ m.act = "extend" THEN stat[r]
  ELSE IF m.act = "started" THEN MapInsert(stat[r], m.row, Status.started)
  ELSE IF m.act = "restarted" THEN MapInsert(stat[r], m.row, Status.restarted)
  ELSE IF m.row \in DOMAIN stat[r] THEN MapInsert(stat[r], m.row, Status.init)
  ELSE stat[r]

\* onIperfStarted, onIperfReStarted and onIperfStoped: the map of role r.
StatusAfter(r, m) ==
  CASE m.role # r \/ m.act = "extend" -> stat[r]
    [] m.role = r /\ m.act = "started" -> MapInsert(stat[r], m.row, Status.started)
    [] m.role = r /\ m.act = "restarted" -> MapInsert(stat[r], m.row, Status.restarted)
    [] m.role = r /\ m.act \in {"stoped0", "stoped1"} ->
         IF m.row \notin DOMAIN stat[r] THEN stat[r]
         ELSE MapInsert(stat[r], m.row,
                        IF m.act = "stoped0" THEN Status.init ELSE Status.stoped)

\* WSClient::onTextMessageReceived; onIperfExtendWait asks the daemon that it
\* finds for the pair's server to restart its iperf servers.
OnReport(c) ==
  /\ Processing /\ conn[c] = "open" /\ down[c] # <<>>
  /\ LET m == Head(down[c])
         s == <<"S", Rows[m.row].S>>
     IN /\ m.act # "disconnected"
        /\ stat' = [r \in Role |-> StatusAfter(r, m)]
        /\ IF m.act = "extend" /\ s[2] \in ws["S"]
           THEN IF conn[s] = "open"
                THEN /\ SendTo({s}, <<Command("RESTART", "S", m.row)>>)
                     /\ UNCHANGED <<outcome, gui>>
                ELSE Tell(<<4>>) /\ UNCHANGED up
           ELSE UNCHANGED <<up, outcome, gui>>
  /\ down' = [down EXCEPT ![c] = Tail(@)]
  /\ UNCHANGED <<iperf, launched, halt, link, faults, errors, forever,
                 pc, at, ws, conn, todo, ready, userStop, posted>>

\* TpWorker::onDisconnected(targetip): the host leaves both maps.
HostLeaves(c) ==
  /\ conn' = [conn EXCEPT ![c] = "closed"]
  /\ ws' = [r \in Role |-> ws[r] \ {c[2]}]
  /\ UNCHANGED <<iperf, launched, halt, link, up, faults, errors, forever,
                 pc, at, stat, todo, ready, userStop, posted, gui, outcome>>

\* QWebSocket::disconnected, after the last message that had arrived.
OnDisconnected(c) ==
  /\ Processing /\ conn[c] = "open" /\ down[c] # <<>>
  /\ Head(down[c]).act = "disconnected"
  /\ down' = [down EXCEPT ![c] = Tail(@)]
  /\ HostLeaves(c)

\* QWebSocket::disconnected, of a connection that was refused.
Refused(c) ==
  /\ Processing /\ conn[c] = "opening"
  /\ HostLeaves(c)
  /\ UNCHANGED down

-----------------------------------------------------------------------------
(* work(): connect to the daemons of the pairs and add the pairs.          *)
Here == <<at[2], Rows[at[1]][at[2]]>>
IsKept == Here[2] \in ws[at[2]]

\* new WSClient(...), if the map has none for the host.
OpenWebSocket ==
  /\ pc = "open"
  /\ pc' = "connect"
  /\ IF IsKept THEN UNCHANGED <<ws, conn, link, up, down>>
     ELSE /\ ws' = [ws EXCEPT ![at[2]] = @ \cup {Here[2]}]
          /\ conn' = [conn EXCEPT ![Here] = "opening"]
          /\ link' = [link EXCEPT ![Here] = "none"]
          /\ up' = [up EXCEPT ![Here] = <<>>]
          /\ down' = [down EXCEPT ![Here] = <<>>]
  /\ UNCHANGED <<iperf, launched, halt, faults, errors, forever,
                 at, stat, todo, ready, userStop, posted, gui, outcome>>

\* The daemon is connected: CMD_IPERF_ADD, and on to the next daemon.
AddIperf ==
  /\ pc = "connect" /\ IsKept /\ conn[Here] = "open" /\ ~userStop
  /\ SendTo({Here}, <<Command("ADD", at[2], at[1])>>)
  /\ stat' = [stat EXCEPT ![at[2]] = MapInsert(@, at[1], Status.init)]
  /\ \/ at[2] = "S" /\ at' = <<at[1], "C">> /\ pc' = "open"
     \/ at[2] = "C" /\ at[1] < Len(Rows) /\ at' = <<at[1] + 1, "S">> /\ pc' = "open"
     \/ at[2] = "C" /\ at[1] = Len(Rows) /\ pc' = "startS" /\ UNCHANGED at
  /\ UNCHANGED <<iperf, launched, halt, link, down, faults, errors, forever,
                 ws, conn, todo, ready, userStop, posted, gui, outcome>>

\* Mutant: the time limit covers only a WebSocket that was closed.
MayExpireClosed == conn[Here] = "closed"

\* iWSTimeout may run out while the WebSocket is not connected.
MayExpire == conn[Here] # "open"

\* The wait for the connection ends otherwise: the host left the map, iWSTimeout
\* ran out (and the test goes on without the other pairs), or the user stopped.
ConnectFails ==
  /\ pc = "connect"
  /\ \/ ~IsKept /\ Return(<<2, 3>>)
     \/ IsKept /\ MayExpire /\ pc' = "startS" /\ Tell(<<1>>)
     \/ IsKept /\ userStop /\ Return(<<>>)
  /\ UNCHANGED <<daemonVars, forever, at, ws, conn, stat, todo, ready, userStop, posted>>

-----------------------------------------------------------------------------
(* work(): start the servers and wait for them.                            *)
\* Mutant: the count goes on from the previous pass.
NextPassKeepsCount == todo' = DOMAIN stat["S"] /\ UNCHANGED ready

\* A pass of waitAllServerReady over the keys of m_status_server.
NextPass == todo' = DOMAIN stat["S"] /\ ready' = 0

StartServers ==
  /\ pc = "startS"
  /\ SendStart("S", 3)
  /\ pc' = "waitS" /\ NextPass
  /\ UNCHANGED <<iperf, launched, halt, link, down, faults, errors, forever,
                 at, ws, conn, stat, userStop, posted>>

\* waitAllServerReady reads the status of one server; events are processed
\* between two of them.
ReadServer ==
  /\ pc = "waitS"
  /\ \E k \in todo :
       /\ \A j \in todo : k <= j
       /\ todo' = todo \ {k}
       /\ ready' = IF k \in DOMAIN stat["S"] /\ stat["S"][k] = Status.started
                   THEN ready + 1 ELSE ready
  /\ UNCHANGED <<daemonVars, forever, pc, at, ws, conn, stat, userStop, posted, gui, outcome>>

\* Mutant: one server that is ready will do.
EnoughServersOne == todo = {} /\ ready > 0

\* readyCount >= m_status_server.size() at the end of a pass.
EnoughServers == todo = {} /\ ready >= MapCount(stat["S"])

\* All servers are ready: the clients are next, unless the user stopped.
ServersReady ==
  /\ pc = "waitS" /\ EnoughServers
  /\ IF userStop THEN Return(<<>>)
     ELSE pc' = "startC" /\ UNCHANGED <<outcome, gui>>
  /\ UNCHANGED <<daemonVars, forever, at, ws, conn, stat, todo, ready, userStop, posted>>

\* Not yet: another pass, or m_WaitServerReady ran out, or the user stopped.
ServersNotReady ==
  /\ pc = "waitS" /\ todo = {} /\ ~EnoughServers
  /\ \/ /\ ~userStop
        /\ NextPass
        /\ UNCHANGED <<pc, outcome, gui>>
     \/ ~userStop /\ Return(<<4>>) /\ UNCHANGED <<todo, ready>>
     \/ userStop /\ Return(<<>>) /\ UNCHANGED <<todo, ready>>
  /\ UNCHANGED <<daemonVars, forever, at, ws, conn, stat, userStop, posted>>

-----------------------------------------------------------------------------
(* work(): start the clients and wait for them.                            *)
StartClients ==
  /\ pc = "startC"
  /\ SendStart("C", 4)
  /\ pc' = "waitC"
  /\ UNCHANGED <<iperf, launched, halt, link, down, faults, errors, forever,
                 at, ws, conn, stat, todo, ready, userStop, posted>>

AllClientsStarted == \A k \in DOMAIN stat["C"] : stat["C"][k] = Status.started

\* waitAllClientReady ends: every client is ready, or m_WaitServerReady ran out,
\* or the user stopped, which is reported as clients that are not ready.
WaitClients ==
  /\ pc = "waitC"
  /\ \/ AllClientsStarted /\ pc' = "main" /\ UNCHANGED <<outcome, gui>>
     \/ (userStop \/ ~AllClientsStarted) /\ Return(<<4>>)
  /\ UNCHANGED <<daemonVars, forever, at, ws, conn, stat, todo, ready, userStop, posted>>

-----------------------------------------------------------------------------
(* work(): the main loop.                                                  *)
\* The pairs whose iperf of a role has a status.
WithStatus(r, s) == {i \in DOMAIN stat[r] : stat[r][i] = s}

\* getStatusServers() and getStatusClients(): the sum of the statuses.
StatusSum(r) ==
  Cardinality(WithStatus(r, Status.started)) * Status.started
    + Cardinality(WithStatus(r, Status.stoped)) * Status.stoped
    + Cardinality(WithStatus(r, Status.restarted)) * Status.restarted

\* "Some problem happen!! abort!!"
Abort == \E r \in Role : StatusSum(r) > MapCount(stat[r])

\* "All test end, stop early"
AllEnded == \A r \in Role : StatusSum(r) = 0

\* Mutant: a test without a time limit does not look at bUserStop.
LoopEndsByTime == ~forever

\* The condition of the loop: time is up, or the user stopped.
LoopEnds == ~forever \/ userStop

\* The loop ends: its condition, or one of the two breaks above.
LeaveMain ==
  /\ pc = "main"
  /\ LoopEnds \/ Abort \/ AllEnded
  /\ OnStop
  /\ UNCHANGED <<iperf, launched, halt, faults, errors, forever, at, ws, stat, todo, ready, posted>>

-----------------------------------------------------------------------------
Work == \/ OpenWebSocket \/ AddIperf \/ ConnectFails
        \/ StartServers \/ ReadServer \/ ServersReady \/ ServersNotReady
        \/ StartClients \/ WaitClients \/ LeaveMain

Slots == \/ OnSetStop
         \/ \E c \in Conn : Connected(c) \/ Refused(c) \/ OnReport(c) \/ OnDisconnected(c)

Next == \/ Begin \/ UserStops
        \/ Work \/ Slots
        \/ DaemonStep /\ UNCHANGED workVars

Spec == Init /\ [][Next]_vars

(* Fairness.  work() goes on, its waits are bounded in time, and its thread *)
(* handles what is posted to it where it processes events.  The pass that   *)
(* finds m_WaitServerReady used up comes after finitely many others, which  *)
(* is a matter of time and not of being enabled without interruption.  A    *)
(* daemon handles the commands it gets and starts what it was told to; an   *)
(* iperf that was told to stop ends.  Connections need not come up.         *)
Fairness ==
  /\ WF_vars(Work)
  /\ SF_vars(ServersNotReady /\ pc' = "returned")
  /\ WF_vars(OnSetStop)
  /\ \A c \in Conn : SF_vars(OnReport(c)) /\ SF_vars(OnDisconnected(c))
  /\ \A c \in Conn : WF_vars(Receive(c) /\ UNCHANGED workVars)
  /\ \A i \in Row, r \in Role :
       /\ WF_vars(Launch(i, r) /\ UNCHANGED workVars)
       /\ WF_vars(<<i, r>> \in halt /\ Exit(i, r) /\ UNCHANGED workVars)

FairSpec == Spec /\ Fairness

-----------------------------------------------------------------------------
(* Properties.                                                             *)
\* No iperf client is started before the iperf server of its pair was, on
\* whatever hosts they are and whichever messages are late or lost.
ServerFirst == \A i \in Row : <<i, "C">> \in launched => <<i, "S">> \in launched

\* The main loop finds that "all test end" only when no iperf of the test runs
\* or is about to: ERRORED, which an iperf survives, does not count as an end.
EarlyEndIsEnd ==
  [][pc = "main" /\ pc' = "returned" /\ AllEnded =>
       \A i \in Row, r \in Role : iperf[i][r] \notin {"starting", "restarting", "up"}]_vars

\* A test with a time limit ends, whatever the daemons and connections do.
TestReturns == (pc = "open" /\ ~forever) ~> pc = "returned"

\* A stop by the user ends every test, also one without a time limit.
UserStopReturns == posted ~> pc = "returned"

\* When a test has ended without an error, on unbroken connections, every iperf
\* that it left on a host that has a server will still meet the CLEAR of that
\* host: none was added, started or restarted behind it.
EndIsClean ==
  pc = "returned" /\ outcome = <<0>> /\ faults = 0 =>
    \A i \in Row, r \in Role :
      \/ iperf[i][r] = "none"
      \/ Rows[i][r] \notin {Rows[j].S : j \in Row}
      \/ \E k \in DOMAIN up[<<"S", Rows[i][r]>>] : up[<<"S", Rows[i][r]>>][k].act = "CLEAR"
=============================================================================
