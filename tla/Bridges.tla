------------------------------- MODULE Bridges -------------------------------
(***************************************************************************)
(* The serial and SSH bridges: views of the console (qiperfc/src/          *)
(* qiperfc.cpp) that ask a daemon to connect a device to a TCP port, and   *)
(* the tasks of the daemon that do (qiperfd/src/qiperfd.cpp, serial/       *)
(* serialtask.cpp, ssh/sshtask.cpp, virtualdevicetcp.cpp).  Each view has  *)
(* a WebSocket of its own to the one daemon.  A key is a device, a number  *)
(* by the sorted order of its name.                                        *)
(***************************************************************************)
EXTENDS Naturals, Sequences, QMap

CONSTANTS
  Key,         \* the devices
  Kind,        \* of "serial" and "ssh": the bridges looked at
  MaxAdds,     \* how often a view is opened
  Earlier      \* the sequences of devices that another console may have opened

ASSUME BridgesAssumption ==
  /\ Key \subseteq Nat /\ Kind \subseteq {"serial", "ssh"}
  /\ MaxAdds \in Nat /\ Earlier \subseteq Seq(Key)
  /\ \A keys \in Earlier : \A m, n \in DOMAIN keys : keys[m] = keys[n] => m = n

VARIABLES
  kind,        \* which bridges these are
  others,      \* the devices that the other console opened
  up,          \* the daemon runs
  tasks,       \* the SerialTask or SSHTask objects ever made
  registry,    \* m_serialtasks, m_sshtasks: key -> task
  posted,      \* the calls of init that singleShot(0) posted
  deleted,     \* a registered task was deleted
  early,       \* ... while a call of init was posted for it
  conns,       \* the WebSockets of the views, in the order they were made
  views,       \* m_serialviews, m_sshviews: key -> view
  adding,      \* the calls of onAddSerial, onAddSSH that wait, innermost last
  orderly      \* no other console is there, views were opened one by one in
               \* the order of their keys, each got its connection in time,
               \* and none was closed

vars == <<kind, others, up, tasks, registry, posted, deleted, early,
          conns, views, adding, orderly>>
daemonVars == <<kind, others, up, tasks, registry, posted, deleted, early>>
consoleVars == <<views, adding, orderly>>

Base == 1      \* stands for QIPERF_SERIALPORT, QIPERF_SSHPORT

Init ==
  /\ kind \in Kind /\ up = TRUE
  /\ \E keys \in Earlier :
       /\ others = {keys[n] : n \in DOMAIN keys}
       /\ tasks = [n \in DOMAIN keys |-> [key |-> keys[n], idx |-> n - 1, port |-> Base + n - 1,
                                         dev |-> "open", tcp |-> "listening"]]
       /\ registry = [k \in others |-> CHOOSE n \in DOMAIN keys : keys[n] = k]
       /\ orderly = (keys = <<>>)
  /\ posted = <<>> /\ deleted = FALSE /\ early = FALSE
  /\ conns = <<>> /\ views = EmptyMap /\ adding = <<>>

-----------------------------------------------------------------------------
(* The console.                                                            *)

NewConn(k) == [key |-> k, state |-> "opening", heard |-> TRUE, up |-> <<>>, down |-> <<>>]

(* onAddSerial, onAddSSH up to the wait: the index that the daemon will    *)
(* send back is the number of views there are now.                         *)
AddView(k) ==
  /\ Len(conns) < MaxAdds
  /\ k \notin DOMAIN views
  /\ conns' = Append(conns, NewConn(k))
  /\ adding' = Append(adding, [key |-> k, idx |-> MapCount(views), conn |-> Len(conns')])
  /\ orderly' = (orderly /\ adding = <<>> /\ \A j \in DOMAIN views : j < k)
  /\ UNCHANGED <<daemonVars, views>>

Connected(c) ==
  /\ up /\ conns[c].state = "opening"
  /\ conns' = [conns EXCEPT ![c].state = "open"]
  /\ UNCHANGED <<daemonVars, consoleVars>>

(* The innermost wait ends, by the connection or by its 30 turns: ADD is   *)
(* sent, or lost without a connection, and the view is inserted.  A view   *)
(* of the same key that came in meanwhile is replaced.                     *)
FinishAdd ==
  /\ adding # <<>>
  /\ LET a == adding[Len(adding)]
         connected == conns[a.conn].state = "open"
         cmd == [what |-> "ADD", key |-> a.key, idx |-> a.idx]
     IN  /\ conns' = IF connected THEN [conns EXCEPT ![a.conn].up = Append(@, cmd)] ELSE conns
         /\ views' = MapInsert(views, a.key, [port |-> 0, conn |-> a.conn, asked |-> connected])
         /\ orderly' = (orderly /\ connected)
  /\ adding' = SubSeq(adding, 1, Len(adding) - 1)
  /\ UNCHANGED daemonVars

\* Mutant: a view that closes does not tell the daemon.
CloseViewSilently(k) ==
  /\ k \in DOMAIN views
  /\ conns' = [conns EXCEPT ![views[k].conn] = [@ EXCEPT !.heard = FALSE, !.down = <<>>]]
  /\ views' = MapRemove(views, k)
  /\ orderly' = FALSE
  /\ UNCHANGED <<daemonVars, adding>>

\* Mutant: the view is not taken out of the map.
CloseViewKeeps(k) ==
  /\ k \in DOMAIN views
  /\ LET c == views[k].conn
         cmd == [what |-> "DEL", key |-> k, idx |-> 0]
     IN  conns' = [conns EXCEPT ![c].heard = FALSE, ![c].down = <<>>,
                     ![c].up = IF conns[c].state = "open" THEN Append(@, cmd) ELSE @]
  /\ orderly' = FALSE
  /\ UNCHANGED <<daemonVars, views, adding>>

(* onSerialClosed, onSSHClosed: DEL is sent, and the WSClient goes; the    *)
(* WebSocket has no parent and stays open.                                 *)
CloseView(k) ==
  /\ k \in DOMAIN views
  /\ LET c == views[k].conn
         cmd == [what |-> "DEL", key |-> k, idx |-> 0]
     IN  conns' = [conns EXCEPT ![c].heard = FALSE, ![c].down = <<>>,
                     ![c].up = IF conns[c].state = "open" THEN Append(@, cmd) ELSE @]
  /\ views' = MapRemove(views, k)
  /\ orderly' = FALSE
  /\ UNCHANGED <<daemonVars, adding>>

\* Mutant: the index counts from one.
IsAtFromOne(k, idx) == idx = Cardinality({j \in DOMAIN views : j <= k})

\* k is keys().at(idx): the keys of a QMap are sorted.
IsAt(k, idx) == idx = Cardinality({j \in DOMAIN views : j < k})

(* onSerialOpened, onSSHOpened, called by every WSClient that hears it.    *)
OnOpened(c) ==
  /\ conns[c].down # <<>>
  /\ LET r == Head(conns[c].down)
     IN  views' = [k \in DOMAIN views |->
                     IF IsAt(k, r.idx) THEN [views[k] EXCEPT !.port = r.port] ELSE views[k]]
  /\ conns' = [conns EXCEPT ![c].down = Tail(@)]
  /\ UNCHANGED <<daemonVars, adding, orderly>>

-----------------------------------------------------------------------------
(* The daemon.                                                             *)

(* informMessage of SERIAL_OPENED, SSH_OPENED, to all WebSockets.  The     *)
(* console has no case for ..._OK and ..._FAIL: those are left out.        *)
Inform(cs, idx, port) ==
  [c \in DOMAIN cs |->
     IF cs[c].state = "open" /\ cs[c].heard
     THEN [cs[c] EXCEPT !.down = Append(@, [idx |-> idx, port |-> port])] ELSE cs[c]]

IsRunning(t) == t.dev = "open" /\ t.tcp = "listening"

(* isRunning and close of a task read a pointer that no constructor sets:  *)
(* VirtualDeviceTcp::_tcpServer before its init, and both devices of an    *)
(* SSHTask before its own.                                                 *)
Unset(t) == t.tcp = "made" \/ (kind = "ssh" /\ t.tcp = "none")

\* Mutant: close() forgets the TCP server.
CloseDevice(t) == [t EXCEPT !.dev = IF @ \in {"trying", "open"} THEN "shut" ELSE @]

\* SerialTask::close, SSHTask::close: what is open closes.
Close(t) ==
  [t EXCEPT !.dev = IF @ \in {"trying", "open"} THEN "shut" ELSE @,
            !.tcp = IF @ = "listening" THEN "shut" ELSE @]

\* What an unset pointer holds is not known: the daemon dies of it ...
Crash(t) == Unset(t) /\ up' = FALSE /\ UNCHANGED <<tasks, registry, posted, deleted, early>>

\* Mutant: the port counts the views of the console that asks.
NextPortByIndex(cmd) == Base + cmd.idx
NextPort(cmd) == Base + MapCount(registry)

(* ADD: a new task, with the next port by the number of registered ones;   *)
(* a running one starts again and is reported open at once; otherwise the  *)
(* answer is ..._FAIL.                                                     *)
OnAddNew(cmd, cs) ==
  /\ cmd.key \notin DOMAIN registry
  /\ tasks' = Append(tasks, [key |-> cmd.key, idx |-> cmd.idx,
                             port |-> NextPort(cmd), dev |-> "none", tcp |-> "none"])
  /\ registry' = MapInsert(registry, cmd.key, Len(tasks'))
  /\ posted' = Append(posted, <<"task", Len(tasks')>>)
  /\ conns' = cs
  /\ UNCHANGED <<up, deleted, early>>

OnAddAgain(cmd, cs) ==
  /\ cmd.key \in DOMAIN registry
  /\ LET n == registry[cmd.key]
         t == tasks[n]
     IN  \/ /\ IsRunning(t)
            /\ tasks' = [tasks EXCEPT ![n] = Close(t)]
            /\ posted' = Append(posted, <<"task", n>>)
            /\ conns' = Inform(cs, cmd.idx, t.port)
            /\ UNCHANGED <<up, registry, deleted, early>>
         \/ /\ ~IsRunning(t)
            /\ conns' = cs
            /\ UNCHANGED <<up, tasks, registry, posted, deleted, early>>
         \/ Crash(t) /\ conns' = cs

Awaits(n) == \E i \in DOMAIN posted : posted[i][2] = n

(* DEL: the task closes and leaves the map; a posted init stays posted.    *)
OnDel(cmd, cs) ==
  /\ conns' = cs
  /\ IF cmd.key \in DOMAIN registry
     THEN LET n == registry[cmd.key]
          IN  \/ /\ tasks' = [tasks EXCEPT ![n] = Close(@)]
                 /\ registry' = MapRemove(registry, cmd.key)
                 /\ deleted' = TRUE
                 /\ early' = (early \/ Awaits(n))
                 /\ UNCHANGED <<up, posted>>
              \/ Crash(tasks[n])
     ELSE UNCHANGED <<up, tasks, registry, posted, deleted, early>>

OnCommand(c) ==
  /\ up /\ conns[c].up # <<>>
  /\ LET cmd == Head(conns[c].up)
         cs == [conns EXCEPT ![c].up = Tail(@)]
     IN  IF cmd.what = "ADD" THEN OnAddNew(cmd, cs) \/ OnAddAgain(cmd, cs) ELSE OnDel(cmd, cs)
  /\ UNCHANGED <<kind, others, consoleVars>>

\* Mutant: the init of the TCP device is forgotten.
TaskInitNoTcp(n) ==
  /\ tasks' = [tasks EXCEPT ![n] = [@ EXCEPT !.dev = "made", !.tcp = "made"]]
  /\ posted' = Append(Tail(posted), <<"dev", n>>)
  /\ UNCHANGED conns

(* init of a task makes its devices and posts their init.                  *)
TaskInit(n) ==
  /\ tasks' = [tasks EXCEPT ![n] = [@ EXCEPT !.dev = "made", !.tcp = "made"]]
  /\ posted' = Tail(posted) \o <<<<"dev", n>>, <<"tcp", n>>>>
  /\ UNCHANGED conns

\* A serial port opens or fails at once; an SSH connection takes its time.
DevInit(n) ==
  /\ \E dev \in IF kind = "serial" THEN {"open", "shut"} ELSE {"trying"} :
       tasks' = [tasks EXCEPT ![n].dev = dev]
  /\ posted' = Tail(posted)
  /\ UNCHANGED conns

\* VirtualDeviceTcp::init: a port that another task listens on is taken.
TcpInit(n) ==
  LET taken == \E m \in DOMAIN tasks : tasks[m].tcp = "listening" /\ tasks[m].port = tasks[n].port
  IN  /\ tasks' = [tasks EXCEPT ![n].tcp = IF taken THEN "failed" ELSE "listening"]
      /\ conns' = IF taken THEN conns ELSE Inform(conns, tasks[n].idx, tasks[n].port)
      /\ posted' = Tail(posted)

RunPosted ==
  /\ up /\ posted # <<>>
  /\ LET n == Head(posted)[2]
     IN  \/ Head(posted)[1] = "task" /\ TaskInit(n)
         \/ Head(posted)[1] = "dev" /\ DevInit(n)
         \/ Head(posted)[1] = "tcp" /\ TcpInit(n)
  /\ UNCHANGED <<kind, others, up, registry, deleted, early, consoleVars>>

(* The remote shell starts (handleShellStarted) and ends                   *)
(* (handleChannelClosed).                                                  *)
Shell(n) ==
  /\ up /\ kind = "ssh"
  /\ \/ tasks[n].dev = "trying" /\ tasks' = [tasks EXCEPT ![n].dev = "open"]
     \/ tasks[n].dev = "open" /\ tasks' = [tasks EXCEPT ![n].dev = "shut"]
  /\ UNCHANGED <<kind, others, up, registry, posted, deleted, early, conns, consoleVars>>

-----------------------------------------------------------------------------
Next ==
  \/ \E k \in Key : AddView(k) \/ CloseView(k)
  \/ FinishAdd \/ RunPosted
  \/ \E c \in DOMAIN conns : Connected(c) \/ OnOpened(c) \/ OnCommand(c)
  \/ \E n \in DOMAIN tasks : Shell(n)

(* The daemon's loop runs what is posted and reads what has come, and      *)
(* what it sent arrives.                                                   *)
Fairness ==
  /\ WF_vars(RunPosted)
  /\ \A c \in 1..MaxAdds : WF_vars(c \in DOMAIN conns /\ (OnOpened(c) \/ OnCommand(c)))

Spec == Init /\ [][Next]_vars /\ Fairness

-----------------------------------------------------------------------------
(* A registered key is that of its task, and only tasks made await init.   *)
TypeOK ==
  /\ kind \in Kind /\ {up, deleted, early, orderly} \subseteq BOOLEAN
  /\ \A n \in DOMAIN tasks :
       tasks[n] \in [key : Key, idx : Nat, port : Nat,
                     dev : {"none", "made", "trying", "open", "shut"},
                     tcp : {"none", "made", "listening", "shut", "failed"}]
  /\ IsMap(registry, Key, DOMAIN tasks)
  /\ \A k \in DOMAIN registry : tasks[registry[k]].key = k
  /\ \A i \in DOMAIN posted : posted[i] \in {"task", "dev", "tcp"} \X DOMAIN tasks
  /\ \A k \in DOMAIN views : conns[views[k].conn].key = k /\ conns[views[k].conn].heard

(* A bridge finds its port free, also when it starts again, as long as     *)
(* nothing was deleted: the number of tasks is then a new port             *)
(* (CMD_SERIAL_ADD, CMD_SSH_ADD, close).                                   *)
ListenFailsOnlyAfterDel ==
  (\E n \in DOMAIN tasks : tasks[n].tcp = "failed") => deleted

(* DEL leaves no listener behind, unless it came before the task, or its   *)
(* second start, was initialised (CMD_SERIAL_DEL, CMD_SSH_DEL).            *)
ListenersAreRegistered ==
  ~early => \A n \in DOMAIN tasks :
              tasks[n].tcp = "listening" =>
                tasks[n].key \in DOMAIN registry /\ registry[tasks[n].key] = n

(* Opened one by one in the order of their keys, whatever order the daemon *)
(* handles them in, a view gets the port of its own device (onSerialOpened *)
(* finds it by an index computed before the wait).                         *)
ViewsMatch ==
  orderly => \A k \in DOMAIN views :
               views[k].port # 0 =>
                 k \in DOMAIN registry /\ tasks[registry[k]].port = views[k].port

Settled == up /\ adding = <<>> /\ \A c \in DOMAIN conns : conns[c].up = <<>>

(* When each key was opened once and all commands are handled, the daemon  *)
(* keeps a task for just the views that are open, but for the devices of   *)
(* the other console (onSerialClosed, CMD_SERIAL_DEL).                     *)
RegistryFollows ==
  Settled /\ (\A c, d \in DOMAIN conns : conns[c].key = conns[d].key => c = d) =>
    DOMAIN registry \ others = {k \in DOMAIN views : views[k].asked} \ others

(* A view so opened gets a port (onAddSerial, VirtualDeviceTcp::init).     *)
EveryViewOpens ==
  \A k \in Key : (k \in DOMAIN views /\ orderly) ~>
                   (~orderly \/ (k \in DOMAIN views /\ views[k].port # 0))
=============================================================================
