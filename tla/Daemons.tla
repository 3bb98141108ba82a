------------------------------- MODULE Daemons -------------------------------
(***************************************************************************)
(* The qiperfd daemons as the console sees them: what becomes of the iperf *)
(* pairs that are added to them, and the WebSocket connections to them.    *)
(* Module QIperfd has the daemon in detail; here an iperf is one variable  *)
(* and a command takes effect when it is received.                         *)
(*                                                                         *)
(* A pair is a row of the console's table.  Its iperf server runs on host  *)
(* Rows[i].S, its iperf client on host Rows[i].C.                          *)
(***************************************************************************)
EXTENDS Naturals, Sequences, FiniteSets, QMap

CONSTANTS
  Host,       \* the endpoints, numbered as the console's maps sort them
  Rows,       \* the enabled pairs of the test, in order
  Restarts,   \* the pairs have a restart rule (m_restartonNormalStop, ...ErrorStop)
  MaxFaults,  \* bound: how many connections break
  MaxErrors   \* bound: how often an iperf writes to stderr

Role == {"S", "C"}
Row == 1..Len(Rows)

ASSUME DaemonsAssumption ==
  /\ Host \subseteq Nat
  /\ Rows \in Seq([Role -> Host]) /\ Rows # <<>>
  /\ Restarts \in BOOLEAN
  /\ MaxFaults \in Nat /\ MaxErrors \in Nat

VARIABLES
  iperf,     \* [Row -> [Role -> ...]]: where the worker of a row and its process are
  launched,  \* the <<row, role>> whose process was ever started
  halt,      \* the <<row, role>> that a STOP was posted to
  link,      \* [Conn -> ...]: the transport under each WebSocket
  up,        \* commands on their way to the daemon, oldest first
  down,      \* messages on their way to the console, oldest first
  faults,    \* how many connections broke
  errors     \* how often an iperf wrote to stderr

daemonVars == <<iperf, launched, halt, link, up, down, faults, errors>>

\* The console has one WebSocket per role and host, m_wss[host] or m_wsc[host];
\* a daemon reports to every WebSocket that is connected to it.
Conn == Role \X Host

(* "none": not registered; "added"; "starting": its thread was started;    *)
(* "up": the process runs; "retry": it ended and waits to be restarted;    *)
(* "restarting"; "down": it ended.                                         *)
IperfState == {"none", "added", "starting", "up", "retry", "restarting", "down"}

Command(act, role, row) == [act |-> act, role |-> role, row |-> row]
Commands == [act : {"ADD", "START", "STOP", "CLEAR", "RESTART"}, role : Role,
             row : Row \cup {0}]
Report(act, role, row) == [act |-> act, role |-> role, row |-> row]
Reports == [act : {"started", "restarted", "stoped0", "stoped1", "extend",
                   "disconnected"}, role : Role, row : Row \cup {0}]

DaemonsTypeOK ==
  /\ iperf \in [Row -> [Role -> IperfState]]
  /\ launched \subseteq Row \X Role
  /\ halt \subseteq Row \X Role
  /\ link \in [Conn -> {"none", "up", "down"}]
  /\ up \in [Conn -> Seq(Commands)]
  /\ down \in [Conn -> Seq(Reports)]
  /\ faults \in 0..MaxFaults
  /\ errors \in 0..MaxErrors

DaemonsInit ==
  /\ iperf = [i \in Row |-> [r \in Role |-> "none"]]
  /\ launched = {} /\ halt = {}
  /\ link = [c \in Conn |-> "none"]
  /\ up = [c \in Conn |-> <<>>]
  /\ down = [c \in Conn |-> <<>>]
  /\ faults = 0 /\ errors = 0

-----------------------------------------------------------------------------
\* The <<row, role>> of a set of roles that are served by a host.
At(h, roles) == {x \in Row \X roles : Rows[x[1]][x[2]] = h}

\* Every iperf in S that is in one of the states "from" goes to state "to".
Move(S, from, to) ==
  [i \in Row |-> [r \in Role |->
     IF <<i, r>> \in S /\ iperf[i][r] \in from THEN to ELSE iperf[i][r]]]

\* WSServer::sendTextResult on host h.
Broadcast(h, ms) ==
  [c \in Conn |-> IF c[2] = h /\ link[c] = "up" THEN down[c] \o ms ELSE down[c]]

\* QIperfd::onWSactMessage.
Receive(c) ==
  /\ up[c] # <<>>
  /\ up' = [up EXCEPT ![c] = Tail(@)]
  /\ LET m == Head(up[c])
         h == c[2]
     IN CASE m.act = "ADD" ->
               /\ iperf' = [iperf EXCEPT ![m.row][m.role] = "added"]
               /\ UNCHANGED halt
          [] m.act = "START" ->
               /\ iperf' = Move(At(h, {m.role}), {"added"}, "starting")
               /\ UNCHANGED halt
          [] m.act = "RESTART" ->
               /\ iperf' = Move(At(h, {m.role}), {"up", "retry"}, "restarting")
               /\ UNCHANGED halt
          [] m.act = "STOP" ->
               /\ halt' = halt \cup {x \in At(h, Role) : iperf[x[1]][x[2]] # "none"}
               /\ UNCHANGED iperf
          [] m.act = "CLEAR" ->
               /\ iperf' = Move(At(h, Role), IperfState, "none")
               /\ halt' = halt \ At(h, Role)
  /\ UNCHANGED <<launched, link, down, faults, errors>>

\* IperfWorker::work and onStarted: the process is started, or could not be,
\* of which nobody is told.  After a restart work() reports "started" too.
Launch(i, r) ==
  /\ iperf[i][r] \in {"starting", "restarting"}
  /\ \/ /\ iperf' = [iperf EXCEPT ![i][r] = "up"]
        /\ launched' = launched \cup {<<i, r>>}
        /\ down' = Broadcast(Rows[i][r],
                     IF iperf[i][r] = "restarting"
                     THEN <<Report("restarted", r, i), Report("started", r, i)>>
                     ELSE <<Report("started", r, i)>>)
     \/ /\ iperf' = [iperf EXCEPT ![i][r] = "down"]
        /\ UNCHANGED <<launched, down>>
  /\ UNCHANGED <<halt, link, up, faults, errors>>

\* IperfWorker::onFinished with exit code 0 or 1, after the process ended or
\* setStop() ended it, and QIperfd::onFinished or onIperfExtendWait.
Exit(i, r) ==
  /\ iperf[i][r] = "up"
  /\ IF Restarts
     THEN /\ iperf' = [iperf EXCEPT ![i][r] = IF <<i, r>> \in halt THEN "down" ELSE "retry"]
          /\ down' = IF r = "C" THEN Broadcast(Rows[i][r], <<Report("extend", r, i)>>)
                                ELSE down
     ELSE /\ iperf' = [iperf EXCEPT ![i][r] = "down"]
          /\ \E act \in {"stoped0", "stoped1"} :
               down' = Broadcast(Rows[i][r], <<Report(act, r, i)>>)
  /\ UNCHANGED <<launched, halt, link, up, faults, errors>>

\* IperfWorker::readyReadStdErr and QIperfd::onErrored: the process goes on.
Stderr(i, r) ==
  /\ iperf[i][r] = "up" /\ errors < MaxErrors
  /\ errors' = errors + 1
  /\ down' = Broadcast(Rows[i][r], <<Report("stoped1", r, i)>>)
  /\ UNCHANGED <<iperf, launched, halt, link, up, faults>>

\* A connection breaks: what is on its way to the daemon is lost, and the
\* console will be told after what has arrived.
LinkBreaks(c) ==
  /\ link[c] = "up" /\ faults < MaxFaults
  /\ faults' = faults + 1
  /\ link' = [link EXCEPT ![c] = "down"]
  /\ up' = [up EXCEPT ![c] = <<>>]
  /\ down' = [down EXCEPT ![c] = Append(@, Report("disconnected", c[1], 0))]
  /\ UNCHANGED <<iperf, launched, halt, errors>>

DaemonStep ==
  \/ \E c \in Conn : Receive(c) \/ LinkBreaks(c)
  \/ \E i \in Row, r \in Role : Launch(i, r) \/ Exit(i, r) \/ Stderr(i, r)
=============================================================================
