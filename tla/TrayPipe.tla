------------------------------ MODULE TrayPipe ------------------------------
(***************************************************************************)
(* The local socket between the tray program and the daemon: PipeClient    *)
(* and QIperfTray on one side, PipeServer and QIperfd::onPipeMessage on    *)
(* the other, with the restarts of both.  Each side reads one message per  *)
(* readyRead, however many have arrived.                                   *)
(***************************************************************************)
EXTENDS Naturals, Sequences, SequencesExt

CONSTANTS
  MaxEpochs,   \* how many daemon processes run, one after another
  MaxTrays,    \* how many tray programs run, one after another
  MaxUp,       \* how many messages are in transit before the tray sends no more
  MaxLag       \* how often a message arrives without a readyRead of its own

ASSUME TrayPipeAssumption ==
  {MaxEpochs, MaxTrays, MaxUp, MaxLag} \subseteq Nat /\ MaxEpochs # 0

VARIABLES
  epoch,       \* how many daemons were started; the last one is alive or not
  alive,
  restarting,  \* a timer of doRestartQIperfd is pending
  conns,       \* the connections: messages in transit and unread, ends that are open
  m_locals,    \* the connections that the daemon has read from, in that order
  stack,       \* the connections whose readyRead is on the daemon's stack
  tray,        \* how many trays were started
  sock,        \* the tray's connection, 0 while it has none
  wait,        \* what the first tray has asked on it and has not had an answer to
  shown,       \* the daemon whose status the tray shows, 0 for none
  lag          \* how many messages arrived without a readyRead of their own

vars == <<epoch, alive, restarting, conns, m_locals, stack, tray, sock, wait, shown, lag>>
daemon == <<epoch, alive, restarting, m_locals, stack>>
client == <<tray, sock, wait, shown>>

Asks == {"STATUS", "IFNAMES", "LOGNAME"}    \* LOGNAME is GET_LOGFILENAME
Commands == Asks \cup {"OK", "ARGS", "QIPERFD_RESTART"}
SecondArgs == "ARGS --help"     \* what sendARGS makes of a command line
Messages == Commands \cup {SecondArgs}

FreshConn == [epoch |-> epoch, up |-> <<>>, unreadD |-> <<>>, down |-> <<>>,
              unreadT |-> <<>>, daemonEnd |-> TRUE, trayEnd |-> TRUE]

Init ==
  /\ epoch = 1 /\ alive = TRUE /\ restarting = FALSE
  /\ conns = <<>> /\ m_locals = <<>> /\ stack = <<>>
  /\ tray = 0 /\ sock = 0 /\ wait = <<>> /\ shown = 0 /\ lag = 0

(* The questions among the messages q.                                     *)
Asked(q) ==
  LET a[i \in 0..Len(q)] ==
        IF i = 0 THEN <<>>
        ELSE IF q[i] \in Asks THEN Append(a[i - 1], q[i]) ELSE a[i - 1]
  IN  a[Len(q)]
(* What is noted of the questions ms.                                      *)
Note(w, ms) == IF tray' = 1 THEN w \o Asked(ms) ELSE <<>>

-----------------------------------------------------------------------------
(* The tray *)

(* send_MessageToServer, for messages ms one after another: it connects if *)
(* it must, and drops what it cannot send.                                 *)
SendMessages(ms) ==
  IF sock # 0
  THEN /\ conns' = IF conns[sock].daemonEnd
                   THEN [conns EXCEPT ![sock].up = @ \o ms] ELSE conns
       /\ wait' = IF conns[sock].daemonEnd THEN Note(wait, ms) ELSE <<>>
       /\ UNCHANGED sock
  ELSE IF alive
       THEN /\ conns' = Append(conns, [FreshConn EXCEPT !.up = ms])
            /\ sock' = Len(conns')
            /\ wait' = Note(<<>>, ms)
       ELSE UNCHANGED <<conns, sock, wait>>

(* The user and the timer wait while MaxUp messages are in transit: a bound *)
(* of the model.                                                           *)
MaySend == sock # 0 => Len(conns[sock].up) + Len(conns[sock].down) < MaxUp

(* A tray starts, for the first time or in the place of one that exits:    *)
(* its constructor asks twice, if it can connect.                          *)
StartTray ==
  /\ tray < MaxTrays
  /\ tray' = tray + 1
  /\ shown' = 0
  /\ LET left == IF sock = 0 THEN conns
                 ELSE [conns EXCEPT ![sock] = [@ EXCEPT !.trayEnd = FALSE,
                                                !.down = <<>>, !.unreadT = <<>>]]
         ms == <<"IFNAMES", "LOGNAME">>
     IN  IF alive
         THEN /\ conns' = Append(left, [FreshConn EXCEPT !.up = ms])
              /\ sock' = Len(conns')
              /\ wait' = Note(<<>>, ms)
         ELSE conns' = left /\ sock' = 0 /\ wait' = <<>>
  /\ UNCHANGED <<daemon, lag>>

OnTimeout ==
  /\ tray > 0 /\ MaySend
  /\ UNCHANGED <<daemon, tray, shown, lag>>
  /\ SendMessages(<<"STATUS">>)

OnGetMgrIfname ==
  /\ tray > 0 /\ MaySend
  /\ UNCHANGED <<daemon, tray, shown, lag>>
  /\ SendMessages(<<"IFNAMES">>)

RestartQiperfd ==
  /\ tray > 0 /\ MaySend /\ epoch < MaxEpochs
  /\ UNCHANGED <<daemon, tray, shown, lag>>
  /\ SendMessages(<<"QIPERFD_RESTART">>)

(* socket_readReady: one message is read and shown, and answered by OK.    *)
SocketReadReady ==
  /\ sock # 0 /\ conns[sock].down # <<>>
  /\ \E n \in 1..Len(conns[sock].down) :
       LET c == conns[sock]
           q == c.unreadT \o SubSeq(c.down, 1, n)
       IN  /\ lag + n - 1 <= MaxLag
           /\ lag' = lag + n - 1
           /\ conns' = [conns EXCEPT ![sock] = [c EXCEPT
                !.down = SubSeq(c.down, n + 1, Len(c.down)), !.unreadT = Tail(q),
                !.up = IF c.daemonEnd THEN Append(c.up, "OK") ELSE c.up]]
           /\ wait' = IF wait # <<>> /\ Head(wait) = Head(q) THEN Tail(wait) ELSE wait
           /\ shown' = IF Head(q) = "STATUS" THEN c.epoch ELSE shown
  /\ UNCHANGED <<daemon, tray, sock>>

\* Mutant: the tray does not learn that its connection is gone.
SocketDisconnectedUnnoticed ==
  /\ sock # 0 /\ ~conns[sock].daemonEnd /\ conns[sock].down = <<>>
  /\ wait' = <<>>
  /\ conns' = [conns EXCEPT ![sock] = [@ EXCEPT !.trayEnd = FALSE, !.unreadT = <<>>]]
  /\ UNCHANGED <<daemon, tray, sock, shown, lag>>

SocketDisconnected ==
  /\ sock # 0 /\ ~conns[sock].daemonEnd /\ conns[sock].down = <<>>
  /\ sock' = 0 /\ wait' = <<>>
  /\ conns' = [conns EXCEPT ![sock] = [@ EXCEPT !.trayEnd = FALSE, !.unreadT = <<>>]]
  /\ UNCHANGED <<daemon, tray, shown, lag>>

-----------------------------------------------------------------------------
(* The daemon *)

\* Mutant: all that has arrived is taken from the socket, and one message is used.
TakeAll(q) == <<>>
Take(q) == Tail(q)

\* Mutant: a restart asked for inside another reading is ignored.
OnPipeMessageOuter(i, msg, locals, cs) ==
  /\ conns' = IF msg \in Asks /\ cs[locals[1]].trayEnd
              THEN [cs EXCEPT ![locals[1]].down = Append(@, msg)] ELSE cs
  /\ stack' = IF msg \in Asks THEN Append(stack, i) ELSE stack
  /\ restarting' = (restarting \/ (msg = "QIPERFD_RESTART" /\ stack = <<>>))

(* readyRead of PipeServer registers the connection and reads one message. *)
(* An answer goes to the first connection; informMessage then runs events. *)
OnPipeMessage(i, msg, locals, cs) ==
  /\ conns' = IF msg \in Asks /\ cs[locals[1]].trayEnd
              THEN [cs EXCEPT ![locals[1]].down = Append(@, msg)] ELSE cs
  /\ stack' = IF msg \in Asks THEN Append(stack, i) ELSE stack
  /\ restarting' = (restarting \/ msg = "QIPERFD_RESTART")

ReadyRead(i) ==
  LET c == conns[i]
  IN  /\ alive /\ c.daemonEnd /\ Range(c.up) \cap Commands # {} /\ i \notin Range(stack)
      /\ \E n \in 1..Len(c.up) :
           LET q == c.unreadD \o SubSeq(c.up, 1, n)
           IN  /\ lag + n - 1 <= MaxLag
               /\ lag' = lag + n - 1
               /\ m_locals' = IF i \in Range(m_locals) THEN m_locals ELSE Append(m_locals, i)
               /\ OnPipeMessage(i, Head(q), m_locals',
                    [conns EXCEPT ![i] = [c EXCEPT !.up = SubSeq(c.up, n + 1, Len(c.up)),
                                                   !.unreadD = Take(q)]])
      /\ UNCHANGED <<epoch, alive, client>>

(* Data arrives while readyRead of its socket is on the stack: Qt does not *)
(* emit that signal within itself.                                         *)
ArriveInside(i) ==
  /\ alive /\ i \in Range(stack) /\ conns[i].up # <<>> /\ lag < MaxLag
  /\ lag' = lag + 1
  /\ LET c == conns[i]
     IN  conns' = [conns EXCEPT ![i] = [c EXCEPT !.up = Tail(c.up),
                                                 !.unreadD = Append(c.unreadD, Head(c.up))]]
  /\ UNCHANGED <<daemon, client>>

(* processEvents of the innermost informMessage returns.                   *)
Return ==
  /\ stack # <<>>
  /\ stack' = Front(stack)
  /\ UNCHANGED <<epoch, alive, restarting, m_locals, conns, client, lag>>

\* Mutant: a closed connection stays in m_locals.
OnDisconnectedKeeps(i) ==
  /\ alive /\ conns[i].daemonEnd /\ ~conns[i].trayEnd /\ conns[i].up = <<>>
  /\ conns' = [conns EXCEPT ![i] = [@ EXCEPT !.daemonEnd = FALSE, !.unreadD = <<>>]]
  /\ UNCHANGED <<daemon, client, lag>>

OnDisconnected(i) ==
  /\ alive /\ conns[i].daemonEnd /\ ~conns[i].trayEnd /\ conns[i].up = <<>>
  /\ m_locals' = RemoveFirst(m_locals, i)
  /\ conns' = [conns EXCEPT ![i] = [@ EXCEPT !.daemonEnd = FALSE, !.unreadD = <<>>]]
  /\ UNCHANGED <<epoch, alive, restarting, stack, client, lag>>

(* The process ends: what was sent to it is lost, what it sent is not.     *)
Die ==
  /\ alive /\ alive' = FALSE
  /\ restarting' = FALSE /\ m_locals' = <<>> /\ stack' = <<>>
  /\ conns' = [i \in DOMAIN conns |->
       [conns[i] EXCEPT !.up = <<>>, !.unreadD = <<>>, !.daemonEnd = FALSE]]
  /\ UNCHANGED <<epoch, client, lag>>

DoRestartQIperfd == restarting /\ Die

(* A second qiperfd is started with arguments: it hands them over on a     *)
(* connection of its own, and ends.  (Bound: one at a time.)               *)
SecondInstance ==
  /\ alive /\ epoch < MaxEpochs
  /\ \A i \in DOMAIN conns : SecondArgs \notin Range(conns[i].up)
  /\ conns' = Append(conns, [FreshConn EXCEPT !.up = <<SecondArgs>>, !.trayEnd = FALSE])
  /\ UNCHANGED <<daemon, client, lag>>

(* The message is compared with whole commands and is none of them, nor is *)
(* it JSON: onPipeMessage calls exit(1).                                   *)
OnUnknownMessage(i) ==
  /\ conns[i].daemonEnd /\ conns[i].up # <<>> /\ Head(conns[i].up) \notin Commands
  /\ Die

(* The service is started again: Restart=always, or systemctl restart.     *)
StartQIperfd ==
  /\ ~alive /\ alive' = TRUE
  /\ epoch' = epoch + 1
  /\ UNCHANGED <<restarting, conns, m_locals, stack, client, lag>>

-----------------------------------------------------------------------------
Next ==
  \/ StartTray \/ OnTimeout \/ OnGetMgrIfname \/ RestartQiperfd
  \/ SocketReadReady \/ SocketDisconnected
  \/ \E i \in DOMAIN conns :
       ReadyRead(i) \/ ArriveInside(i) \/ OnUnknownMessage(i) \/ OnDisconnected(i)
  \/ Return \/ DoRestartQIperfd \/ SecondInstance \/ StartQIperfd

MaxConns == 2 * MaxEpochs + MaxTrays

(* The tray's timer repeats; both event loops serve each socket and timer; *)
(* the service is restarted; events that a reading runs come to an end.    *)
Fairness ==
  /\ SF_vars(OnTimeout) /\ WF_vars(SocketReadReady) /\ WF_vars(SocketDisconnected)
  /\ \A i \in 1..MaxConns :
       /\ WF_vars(i \in DOMAIN conns /\ ReadyRead(i))
       /\ WF_vars(i \in DOMAIN conns /\ OnUnknownMessage(i))
       /\ WF_vars(i \in DOMAIN conns /\ OnDisconnected(i))
  /\ WF_vars(Return) /\ SF_vars(Len(stack) = 1 /\ Return)
  /\ WF_vars(DoRestartQIperfd) /\ WF_vars(StartQIperfd)

Spec == Init /\ [][Next]_vars /\ Fairness

-----------------------------------------------------------------------------
(* The daemon has registered only connections of its own that are open.    *)
TypeOK ==
  /\ epoch \in 1..MaxEpochs /\ {alive, restarting} \subseteq BOOLEAN
  /\ conns \in Seq([epoch : 1..epoch, up : Seq(Messages), unreadD : Seq(Messages),
                    down : Seq(Asks), unreadT : Seq(Asks),
                    daemonEnd : BOOLEAN, trayEnd : BOOLEAN])
  /\ \A i \in Range(m_locals) : conns[i].daemonEnd /\ conns[i].epoch = epoch
  /\ IsInjective(m_locals) /\ IsInjective(stack) /\ Range(stack) \subseteq DOMAIN conns
  /\ tray \in 0..MaxTrays /\ sock \in 0..Len(conns)
  /\ wait \in Seq(Asks) /\ shown \in 0..epoch /\ lag \in 0..MaxLag

(* With a single tray nothing it asked on its connection is lost, answered *)
(* twice or out of turn, although both ends fall behind and readings nest: *)
(* what it waits for is on its way, in that order (readyRead,              *)
(* onPipeMessage, socket_readReady).                                       *)
AnswersInOrder ==
  tray = 1 /\ sock # 0 =>
    LET c == conns[sock]
    IN  c.daemonEnd => wait = c.unreadT \o c.down \o Asked(c.unreadD \o c.up)

(* The tray comes to show the status of each daemon that stays, whatever   *)
(* connection it had before (onTimeout, send_MessageToServer).             *)
StatusRecovers ==
  \A e \in 1..MaxEpochs, t \in 1..MaxTrays :
    (alive /\ epoch = e /\ tray = t) ~> (shown = e \/ ~alive \/ epoch # e \/ tray # t)

(* A restart that was asked for happens, though the message may lie unread *)
(* for some time (restartQIperfd and its timer, doRestartQIperfd).         *)
RestartAsked ==
  alive /\ \E i \in DOMAIN conns : "QIPERFD_RESTART" \in Range(conns[i].unreadD \o conns[i].up)
                                   /\ conns[i].trayEnd
RestartHappens ==
  \A e \in 1..MaxEpochs, t \in 1..MaxTrays :
    (RestartAsked /\ epoch = e /\ tray = t) ~> (~alive \/ epoch # e \/ tray # t)
=============================================================================
