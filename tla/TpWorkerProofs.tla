--------------------------- MODULE TpWorkerProofs ---------------------------
(***************************************************************************)
(* Proofs about TpWorker, for every set of hosts, every list of pairs, and *)
(* any number of broken connections: an iperf client never starts before   *)
(* its server, a test that ends early has ended, and a test that ends      *)
(* without an error on unbroken connections leaves no iperf behind.        *)
(***************************************************************************)
EXTENDS TpWorker, FiniteSetTheorems, SequenceTheorems, TLAPS

Late == {"startC", "waitC", "main", "returned"}

\* The clients may be started: every server of the test was launched.
ServersUp == pc \in Late /\ \A i \in DOMAIN stat["S"] : <<i, "S">> \in launched

\* Only pairs of the test are added, clients are told to start when the servers
\* are up, and no client is told to restart.
SafeCommands ==
  {m \in Commands : /\ m.act = "ADD" => m.row \in DOMAIN stat[m.role]
                    /\ m.act = "START" /\ m.role = "C" => ServersUp
                    /\ m.act = "RESTART" => m.role = "S"}

\* Reports are about rows, and an iperf that is reported as started was.
SafeReports ==
  {m \in Reports :
     m.act # "disconnected" =>
       m.row \in Row /\ (m.act \in {"started", "restarted"} => <<m.row, m.role>> \in launched)}

QueueInv == up \in [Conn -> Seq(SafeCommands)] /\ down \in [Conn -> Seq(SafeReports)]

DaemonTypes ==
  /\ iperf \in [Row -> [Role -> IperfState]]
  /\ launched \subseteq Row \X Role /\ halt \subseteq Row \X Role
  /\ link \in [Conn -> {"none", "up", "down"}]
  /\ faults \in 0..MaxFaults /\ errors \in 0..MaxErrors

WorkTypes ==
  /\ forever \in BOOLEAN /\ pc \in Place /\ at \in Row \X Role
  /\ ws \in [Role -> SUBSET Host]
  /\ conn \in [Conn -> {"none", "opening", "open", "closed"}]
  /\ todo \subseteq Row /\ ready \in 0..Len(Rows)
  /\ userStop \in BOOLEAN /\ posted \in BOOLEAN
  /\ gui \in {"ready", "running"} /\ outcome \in Seq(0..4)

StatTypes ==
  /\ DOMAIN stat = Role
  /\ \A r \in Role : stat[r] \in [DOMAIN stat[r] -> 0..3] /\ DOMAIN stat[r] \subseteq Row

\* An iperf at a daemon is one of the test; a client is on its way when the
\* servers are up.
IperfInv ==
  \A i \in Row :
    /\ \A r \in Role : iperf[i][r] # "none" \/ <<i, r>> \in launched => i \in DOMAIN stat[r]
    /\ iperf[i]["C"] \notin {"none", "added"} \/ <<i, "C">> \in launched => ServersUp

\* A server that counts as started was launched; each client comes after its server.
StatInv ==
  /\ \A i \in DOMAIN stat["S"] : stat["S"][i] = Status.started => <<i, "S">> \in launched
  /\ DOMAIN stat["C"] \subseteq DOMAIN stat["S"]
  /\ pc \in {"idle", "open", "connect"} /\ at[2] = "C" => at[1] \in DOMAIN stat["S"]
  /\ pc = "startC" => ServersUp

\* The servers that waitAllServerReady has read in this pass and that were launched.
ReadAndUp == {i \in DOMAIN stat["S"] \ todo : <<i, "S">> \in launched}

PassInv ==
  pc = "waitS" => todo \subseteq DOMAIN stat["S"] /\ ready <= Cardinality(ReadAndUp)

SafeInv == IperfInv /\ StatInv /\ PassInv
IInv == DaemonTypes /\ WorkTypes /\ StatTypes /\ QueueInv /\ SafeInv

-----------------------------------------------------------------------------
(* Sequences, and queues per connection.                                   *)
LEMMA SeqFacts ==
  ASSUME NEW S, NEW s \in Seq(S), s # <<>>
  PROVE  Head(s) \in S /\ Tail(s) \in Seq(S)
OBVIOUS

LEMMA SeqJoin ==
  ASSUME NEW S, NEW s \in Seq(S), NEW t \in Seq(S)
  PROVE  s \o t \in Seq(S)
OBVIOUS

LEMMA SeqMono ==
  ASSUME NEW S, NEW T, S \subseteq T, NEW s \in Seq(S)
  PROVE  s \in Seq(T)
OBVIOUS

LEMMA QueueMono ==
  ASSUME NEW S, NEW T, S \subseteq T, NEW q \in [Conn -> Seq(S)]
  PROVE  q \in [Conn -> Seq(T)]
<1>1. \A c \in Conn : q[c] \in Seq(T)
  BY SeqMono
<1> QED  BY <1>1

\* The oldest message of a connection is taken.
LEMMA QueueTail ==
  ASSUME NEW S, NEW q \in [Conn -> Seq(S)], NEW c \in Conn, q[c] # <<>>
  PROVE  Head(q[c]) \in S /\ [q EXCEPT ![c] = Tail(@)] \in [Conn -> Seq(S)]
<1>1. q[c] \in Seq(S)
  OBVIOUS
<1>2. Head(q[c]) \in S /\ Tail(q[c]) \in Seq(S)
  BY <1>1, SeqFacts
<1> QED  BY <1>2

\* Messages are appended, on the connections of C.
LEMMA QueueJoin ==
  ASSUME NEW S, NEW q \in [Conn -> Seq(S)], NEW ms \in Seq(S), NEW C
  PROVE  [c \in Conn |-> IF c \in C THEN q[c] \o ms ELSE q[c]] \in [Conn -> Seq(S)]
<1>1. \A c \in Conn : q[c] \in Seq(S) /\ q[c] \o ms \in Seq(S)
  BY SeqJoin
<1> QED  BY <1>1

LEMMA SendToKeeps ==
  ASSUME NEW S, up \in [Conn -> Seq(S)], NEW ms \in Seq(S), NEW C, SendTo(C, ms)
  PROVE  up' \in [Conn -> Seq(S)]
<1> DEFINE D == {c \in C : link[c] = "up"}
<1>1. up' = [c \in Conn |-> IF c \in D THEN up[c] \o ms ELSE up[c]]
  BY DEF SendTo
<1> HIDE DEF D
<1> QED  BY <1>1, QueueJoin

LEMMA BroadcastKeeps ==
  ASSUME NEW S, down \in [Conn -> Seq(S)], NEW ms \in Seq(S), NEW h
  PROVE  Broadcast(h, ms) \in [Conn -> Seq(S)]
<1> DEFINE D == {c \in Conn : c[2] = h /\ link[c] = "up"}
<1>1. Broadcast(h, ms) = [c \in Conn |-> IF c \in D THEN down[c] \o ms ELSE down[c]]
  BY DEF Broadcast
<1> HIDE DEF D
<1> QED  BY <1>1, QueueJoin

-----------------------------------------------------------------------------
(* What was sent safely stays safe.                                        *)
Grow ==
  /\ launched \subseteq launched' /\ \A r \in Role : DOMAIN stat[r] \subseteq DOMAIN stat'[r]
  /\ ServersUp => ServersUp'

LEMMA SafeGrow ==
  ASSUME Grow
  PROVE  SafeCommands \subseteq SafeCommands' /\ SafeReports \subseteq SafeReports'
<1>1. \A m \in Commands : m.role \in Role
  BY DEF Commands
<1>2. SafeCommands \subseteq SafeCommands'
  BY <1>1 DEF Grow, SafeCommands
<1>3. SafeReports \subseteq SafeReports'
  BY DEF Grow, SafeReports
<1> QED  BY <1>2, <1>3

LEMMA QueuesGrow ==
  ASSUME Grow, up' \in [Conn -> Seq(SafeCommands)], down' \in [Conn -> Seq(SafeReports)]
  PROVE  QueueInv'
<1>1. SafeCommands \subseteq SafeCommands' /\ SafeReports \subseteq SafeReports'
  BY SafeGrow
<1>2. up' \in [Conn -> Seq(SafeCommands')] /\ down' \in [Conn -> Seq(SafeReports')]
  BY <1>1, QueueMono
<1> QED  BY <1>2 DEF QueueInv

\* The rows are finitely many.
LEMMA RowFinite ==
  ASSUME DaemonsAssumption
  PROVE  /\ Len(Rows) \in Nat /\ IsFiniteSet(Row) /\ Cardinality(Row) = Len(Rows)
         /\ Row \subseteq Nat
         /\ \A S \in SUBSET Row : IsFiniteSet(S) /\ Cardinality(S) \in Nat
                                  /\ Cardinality(S) <= Len(Rows)
<1>1. Len(Rows) \in Nat
  BY DEF DaemonsAssumption
<1>2. IsFiniteSet(Row) /\ Cardinality(Row) = Len(Rows) /\ Row \subseteq Nat
  BY <1>1, FS_Interval DEF Row
<1>3. \A S \in SUBSET Row : IsFiniteSet(S) /\ Cardinality(S) \in Nat
                             /\ Cardinality(S) <= Len(Rows)
  BY <1>2, FS_Subset, FS_CardinalityType
<1> QED  BY <1>1, <1>2, <1>3

\* More servers were launched: the pass is still within its count.
LEMMA PassKeeps ==
  ASSUME DaemonsAssumption, WorkTypes, StatTypes, PassInv, launched \subseteq launched',
         DOMAIN stat'["S"] = DOMAIN stat["S"], UNCHANGED <<todo, ready>>,
         pc' = "waitS" => pc = "waitS"
  PROVE  PassInv'
<1> SUFFICES ASSUME pc' = "waitS", pc = "waitS" PROVE PassInv'
  BY DEF PassInv
<1>1. ReadAndUp \subseteq ReadAndUp' /\ ReadAndUp' \in SUBSET Row
  BY DEF ReadAndUp, StatTypes, Role
<1>2. IsFiniteSet(ReadAndUp') /\ IsFiniteSet(ReadAndUp)
  BY <1>1, RowFinite
<1>3. /\ Cardinality(ReadAndUp) <= Cardinality(ReadAndUp')
      /\ Cardinality(ReadAndUp) \in Nat /\ Cardinality(ReadAndUp') \in Nat
  BY <1>1, <1>2, FS_Subset, FS_CardinalityType
<1>4. ready \in Nat
  BY RowFinite DEF WorkTypes
<1> QED  BY <1>3, <1>4 DEF PassInv

\* Steps that leave iperf, statuses and the pass alone keep the invariants.
LEMMA QuietStep ==
  ASSUME DaemonsAssumption, WorkTypes, StatTypes, SafeInv,
         UNCHANGED <<iperf, launched, stat, todo, ready, at>>,
         pc \in Late => pc' \in Late,
         pc' \in {"idle", "open", "connect"} => pc \in {"idle", "open", "connect"},
         pc' = "waitS" => pc = "waitS",
         pc' = "startC" => \A i \in DOMAIN stat["S"] : <<i, "S">> \in launched
  PROVE  SafeInv' /\ Grow
<1> USE DEF SafeInv
<1>1. ServersUp => ServersUp'
  BY DEF ServersUp
<1>2. IperfInv'
  BY <1>1 DEF IperfInv
<1>3. StatInv'
  BY <1>1 DEF StatInv, ServersUp, Late
<1>4. PassInv'
  BY PassKeeps
<1> QED  BY <1>1, <1>2, <1>3, <1>4 DEF Grow

-----------------------------------------------------------------------------
(* The daemons and the connections.                                        *)
LEMMA RowFacts ==
  ASSUME DaemonsAssumption, NEW i \in Row
  PROVE  Rows[i] \in [Role -> Host] /\ \A r \in Role : Rows[i][r] \in Host /\ <<r, Rows[i][r]>> \in Conn
<1>1. Rows[i] \in [Role -> Host]
  BY DEF DaemonsAssumption, Row
<1> QED  BY <1>1 DEF Conn

LEMMA MoveFacts ==
  ASSUME DaemonTypes, NEW S, NEW from, NEW to \in IperfState
  PROVE  /\ Move(S, from, to) \in [Row -> [Role -> IperfState]]
         /\ \A i \in Row, r \in Role :
              Move(S, from, to)[i][r] =
                IF <<i, r>> \in S /\ iperf[i][r] \in from THEN to ELSE iperf[i][r]
BY DEF Move, DaemonTypes

\* What the daemons do leaves the console alone.
LEMMA DaemonFrame ==
  ASSUME DaemonsAssumption, IInv, UNCHANGED workVars, launched \subseteq launched'
  PROVE  Grow /\ StatInv' /\ PassInv' /\ WorkTypes' /\ StatTypes'
<1> USE DEF workVars
<1>1. ServersUp => ServersUp'
  BY DEF ServersUp
<1>2. WorkTypes' /\ StatTypes'
  BY DEF WorkTypes, StatTypes, IInv
<1>3. StatInv'
  BY <1>1 DEF StatInv, IInv, SafeInv
<1>4. PassInv'
  BY PassKeeps DEF IInv, SafeInv
<1> QED  BY <1>1, <1>2, <1>3, <1>4 DEF Grow

LEMMA ReceiveStep ==
  ASSUME DaemonsAssumption, IInv, UNCHANGED workVars, NEW c \in Conn, Receive(c)
  PROVE  IInv'
<1> DEFINE m == Head(up[c])
           h == c[2]
<1>1. Grow /\ StatInv' /\ PassInv' /\ WorkTypes' /\ StatTypes'
  BY DaemonFrame DEF Receive
<1>2. m \in SafeCommands /\ up' \in [Conn -> Seq(SafeCommands)]
  BY QueueTail DEF Receive, IInv, QueueInv
<1>3. QueueInv'
  BY <1>1, <1>2, QueuesGrow DEF Receive, IInv, QueueInv
<1>4. /\ m.act \in {"ADD", "START", "STOP", "CLEAR", "RESTART"} /\ m.role \in Role
      /\ m.act = "ADD" => m.row \in DOMAIN stat[m.role]
      /\ m.act = "START" /\ m.role = "C" => ServersUp
      /\ m.act = "RESTART" => m.role = "S"
  BY <1>2 DEF SafeCommands, Commands
<1>5. UNCHANGED <<launched, link, down, faults, errors, stat>> /\ (ServersUp => ServersUp')
  BY <1>1 DEF Receive, workVars, Grow
<1>6. /\ iperf' \in [Row -> [Role -> IperfState]] /\ halt' \subseteq Row \X Role
      /\ \A i \in Row, r \in Role :
           /\ iperf'[i][r] # "none" => iperf[i][r] # "none" \/ i \in DOMAIN stat[r]
           /\ r = "C" /\ iperf'[i][r] \notin {"none", "added"} =>
                iperf[i][r] \notin {"none", "added"} \/ ServersUp
  <2> HIDE DEF m, h
  <2>0. DaemonTypes
    BY DEF IInv
  <2>1. CASE m.act = "ADD"
    <3>1. iperf' = [iperf EXCEPT ![m.row][m.role] = "added"] /\ halt' = halt
      BY <2>1 DEF Receive, m
    <3>2. m.row \in Row /\ m.role \in Role
      BY <1>4, <2>1 DEF IInv, StatTypes
    <3>3. iperf' \in [Row -> [Role -> IperfState]]
      BY <2>0, <3>1, <3>2 DEF DaemonTypes, IperfState
    <3>4. \A i \in Row, r \in Role :
            iperf'[i][r] = IF i = m.row /\ r = m.role THEN "added" ELSE iperf[i][r]
      BY <2>0, <3>1, <3>2 DEF DaemonTypes
    <3> QED  BY <1>4, <2>0, <2>1, <3>1, <3>3, <3>4 DEF DaemonTypes
  <2>2. CASE m.act = "START"
    <3>1. iperf' = Move(At(h, {m.role}), {"added"}, "starting") /\ halt' = halt
      BY <2>2 DEF Receive, m, h
    <3>2. /\ iperf' \in [Row -> [Role -> IperfState]]
          /\ \A i \in Row, r \in Role :
               iperf'[i][r] = IF <<i, r>> \in At(h, {m.role}) /\ iperf[i][r] \in {"added"}
                              THEN "starting" ELSE iperf[i][r]
      BY <2>0, <3>1, MoveFacts DEF IperfState
    <3>3. \A i \in Row, r \in Role : <<i, r>> \in At(h, {m.role}) => r = m.role
      BY DEF At
    <3> QED  BY <1>4, <2>0, <2>2, <3>1, <3>2, <3>3 DEF DaemonTypes
  <2>3. CASE m.act = "RESTART"
    <3>1. iperf' = Move(At(h, {m.role}), {"up", "retry"}, "restarting") /\ halt' = halt
      BY <2>3 DEF Receive, m, h
    <3>2. /\ iperf' \in [Row -> [Role -> IperfState]]
          /\ \A i \in Row, r \in Role :
               iperf'[i][r] = IF <<i, r>> \in At(h, {m.role}) /\ iperf[i][r] \in {"up", "retry"}
                              THEN "restarting" ELSE iperf[i][r]
      BY <2>0, <3>1, MoveFacts DEF IperfState
    <3> QED  BY <2>0, <3>1, <3>2 DEF DaemonTypes
  <2>4. CASE m.act = "STOP"
    <3>1. iperf' = iperf /\ halt' \subseteq halt \cup At(h, Role)
      BY <2>4 DEF Receive, m, h
    <3> QED  BY <2>0, <3>1 DEF DaemonTypes, At
  <2>5. CASE m.act = "CLEAR"
    <3>1. iperf' = Move(At(h, Role), IperfState, "none") /\ halt' = halt \ At(h, Role)
      BY <2>5 DEF Receive, m, h
    <3>2. /\ iperf' \in [Row -> [Role -> IperfState]]
          /\ \A i \in Row, r \in Role :
               iperf'[i][r] = IF <<i, r>> \in At(h, Role) /\ iperf[i][r] \in IperfState
                              THEN "none" ELSE iperf[i][r]
      BY <2>0, <3>1, MoveFacts DEF IperfState
    <3> QED  BY <2>0, <3>1, <3>2 DEF DaemonTypes
  <2> QED  BY <1>4, <2>1, <2>2, <2>3, <2>4, <2>5
<1>7. IperfInv'
  BY <1>5, <1>6 DEF IperfInv, IInv, SafeInv, Role
<1>8. DaemonTypes'
  BY <1>5, <1>6 DEF DaemonTypes, IInv
<1> QED  BY <1>1, <1>3, <1>7, <1>8 DEF IInv, SafeInv

\* An iperf starts, ends or complains: it was added, and a client only when the
\* servers are up.
LEMMA IperfStep ==
  ASSUME DaemonsAssumption, IInv, UNCHANGED workVars, NEW i \in Row, NEW r \in Role,
         Launch(i, r) \/ Exit(i, r) \/ Stderr(i, r)
  PROVE  IInv'
<1>0. /\ DaemonTypes /\ StatTypes /\ IperfInv /\ down \in [Conn -> Seq(SafeReports)]
      /\ up \in [Conn -> Seq(SafeCommands)]
  BY DEF IInv, SafeInv, QueueInv
<1>1. PICK to \in IperfState : iperf' = [iperf EXCEPT ![i][r] = to]
  <2>1. CASE Launch(i, r)
    BY <2>1 DEF Launch, IperfState
  <2>2. CASE Exit(i, r)
    BY <2>2 DEF Exit, IperfState
  <2>3. CASE Stderr(i, r)
    BY <1>0, <2>3 DEF Stderr, DaemonTypes
  <2> QED  BY <2>1, <2>2, <2>3
<1>2. /\ launched \subseteq launched' /\ launched' \subseteq launched \cup {<<i, r>>}
      /\ UNCHANGED <<halt, link, up, faults>>
      /\ errors' \in 0..MaxErrors
      /\ iperf[i][r] \in {"starting", "restarting", "up"}
  <2>1. CASE Launch(i, r)
    BY <1>0, <2>1 DEF Launch, DaemonTypes
  <2>2. CASE Exit(i, r)
    BY <1>0, <2>2 DEF Exit, DaemonTypes
  <2>3. CASE Stderr(i, r)
    BY <1>0, <2>3 DEF Stderr, DaemonTypes, DaemonsAssumption
  <2> QED  BY <2>1, <2>2, <2>3
<1>3. Grow /\ StatInv' /\ PassInv' /\ WorkTypes' /\ StatTypes'
  BY <1>2, DaemonFrame
<1>4. /\ iperf' \in [Row -> [Role -> IperfState]]
      /\ \A j \in Row, q \in Role : iperf'[j][q] = IF j = i /\ q = r THEN to ELSE iperf[j][q]
  BY <1>0, <1>1 DEF DaemonTypes
<1>5. DaemonTypes'
  BY <1>0, <1>2, <1>4 DEF DaemonTypes
<1>6. i \in DOMAIN stat[r] /\ (r = "C" => ServersUp)
  BY <1>0, <1>2 DEF IperfInv
<1>7. IperfInv'
  <2>1. stat' = stat /\ (ServersUp => ServersUp')
    BY <1>3 DEF Grow, workVars
  <2> QED  BY <1>0, <1>2, <1>4, <1>6, <2>1 DEF IperfInv, Role
<1>8. QueueInv'
  <2>1. SafeCommands \subseteq SafeCommands' /\ SafeReports \subseteq SafeReports'
    BY <1>3, SafeGrow
  <2>2. up' \in [Conn -> Seq(SafeCommands')] /\ down \in [Conn -> Seq(SafeReports')]
    BY <1>0, <1>2, <2>1, QueueMono
  <2>3. /\ \A act \in {"stoped0", "stoped1", "extend"} : Report(act, r, i) \in SafeReports'
        /\ <<i, r>> \in launched' =>
             \A act \in {"started", "restarted"} : Report(act, r, i) \in SafeReports'
    BY DEF Report, Reports, SafeReports
  <2>4. down' = down \/ \E ms \in Seq(SafeReports') : down' = Broadcast(Rows[i][r], ms)
    <3>1. CASE Launch(i, r)
      <4>1. CASE down' = down
        BY <4>1
      <4>2. CASE launched' = launched \cup {<<i, r>>}
        <5>1. <<i, r>> \in launched'
          BY <4>2
        <5>2. /\ <<Report("started", r, i)>> \in Seq(SafeReports')
              /\ <<Report("restarted", r, i), Report("started", r, i)>> \in Seq(SafeReports')
          BY <2>3, <5>1
        <5>3. \/ UNCHANGED <<launched, down>>
              \/ down' = Broadcast(Rows[i][r], <<Report("started", r, i)>>)
              \/ down' = Broadcast(Rows[i][r],
                           <<Report("restarted", r, i), Report("started", r, i)>>)
          BY <3>1 DEF Launch
        <5> QED  BY <5>2, <5>3
      <4> QED  BY <3>1, <4>1, <4>2 DEF Launch
    <3>2. CASE Exit(i, r)
      <4>1. \A act \in {"stoped0", "stoped1", "extend"} : <<Report(act, r, i)>> \in Seq(SafeReports')
        BY <2>3
      <4>2. down' = down \/ \E act \in {"stoped0", "stoped1", "extend"} :
                               down' = Broadcast(Rows[i][r], <<Report(act, r, i)>>)
        BY <3>2 DEF Exit
      <4> QED  BY <4>1, <4>2
    <3>3. CASE Stderr(i, r)
      <4>1. <<Report("stoped1", r, i)>> \in Seq(SafeReports')
        BY <2>3
      <4> QED  BY <3>3, <4>1 DEF Stderr
    <3> QED  BY <3>1, <3>2, <3>3
  <2>5. down' \in [Conn -> Seq(SafeReports')]
    BY <2>2, <2>4, BroadcastKeeps
  <2> QED  BY <2>2, <2>5 DEF QueueInv
<1> QED  BY <1>3, <1>5, <1>7, <1>8 DEF IInv, SafeInv

LEMMA LinkStep ==
  ASSUME DaemonsAssumption, IInv, UNCHANGED workVars, NEW c \in Conn, LinkBreaks(c)
  PROVE  IInv'
<1>1. Grow /\ StatInv' /\ PassInv' /\ WorkTypes' /\ StatTypes'
  BY DaemonFrame DEF LinkBreaks
<1>2. DaemonTypes'
  BY DEF IInv, DaemonTypes, LinkBreaks, DaemonsAssumption
<1>3. IperfInv'
  <2>1. UNCHANGED <<iperf, launched, stat>> /\ (ServersUp => ServersUp')
    BY <1>1 DEF LinkBreaks, workVars, Grow
  <2> QED  BY <2>1 DEF IInv, SafeInv, IperfInv
<1>4. QueueInv'
  <2>0. up \in [Conn -> Seq(SafeCommands)] /\ down \in [Conn -> Seq(SafeReports)]
    BY DEF IInv, QueueInv
  <2>1. <<>> \in Seq(SafeCommands)
    OBVIOUS
  <2>2. up' \in [Conn -> Seq(SafeCommands)]
    BY <2>0, <2>1 DEF LinkBreaks
  <2>3. c[1] \in Role
    BY DEF Conn
  <2>4. Report("disconnected", c[1], 0) \in SafeReports
    BY <2>3 DEF Report, Reports, SafeReports
  <2>5. Append(down[c], Report("disconnected", c[1], 0)) \in Seq(SafeReports)
    BY <2>0, <2>4
  <2>6. down' \in [Conn -> Seq(SafeReports)]
    BY <2>0, <2>5 DEF LinkBreaks
  <2> QED  BY <1>1, <2>2, <2>6, QueuesGrow
<1> QED  BY <1>1, <1>2, <1>3, <1>4 DEF IInv, SafeInv

-----------------------------------------------------------------------------
(* The user and the slots.                                                 *)
LEMMA UserStep ==
  ASSUME DaemonsAssumption, IInv, Begin \/ UserStops \/ OnSetStop
  PROVE  IInv'
<1>1. /\ UNCHANGED <<daemonVars, forever, at, ws, conn, stat, todo, ready, outcome>>
      /\ pc' = pc \/ (pc = "idle" /\ pc' = "open")
      /\ userStop' \in {userStop, TRUE} /\ posted' \in BOOLEAN /\ gui' \in {gui, "running"}
  BY DEF Begin, UserStops, OnSetStop, IInv, WorkTypes
<1>2. SafeInv' /\ Grow
  <2>1. WorkTypes /\ StatTypes /\ SafeInv
    BY DEF IInv
  <2>2. UNCHANGED <<iperf, launched, stat, todo, ready, at>>
    BY <1>1 DEF daemonVars
  <2>3. pc' = "startC" => \A i \in DOMAIN stat["S"] : <<i, "S">> \in launched
    BY <1>1, <2>1 DEF SafeInv, StatInv, ServersUp
  <2>4. pc \in Late => pc' \in Late
    BY <1>1 DEF Late
  <2> QED  BY <1>1, <2>1, <2>2, <2>3, <2>4, QuietStep
<1>3. QueueInv'
  BY <1>1, <1>2, QueuesGrow DEF IInv, QueueInv, daemonVars
<1>4. DaemonTypes' /\ StatTypes'
  BY <1>1 DEF IInv, DaemonTypes, StatTypes, daemonVars
<1>5. WorkTypes'
  BY <1>1 DEF IInv, WorkTypes, Place
<1> QED  BY <1>2, <1>3, <1>4, <1>5 DEF IInv

LEMMA ConnectionStep ==
  ASSUME DaemonsAssumption, IInv, NEW c \in Conn, Connected(c) \/ Refused(c) \/ OnDisconnected(c)
  PROVE  IInv'
<1>1. /\ UNCHANGED <<iperf, launched, halt, up, faults, errors, forever,
                     pc, at, stat, todo, ready, userStop, posted, gui, outcome>>
      /\ link' = link \/ link' = [link EXCEPT ![c] = "up"]
      /\ \E st \in {"open", "closed"} : conn' = [conn EXCEPT ![c] = st]
      /\ ws' = ws \/ ws' = [r \in Role |-> ws[r] \ {c[2]}]
  BY DEF Connected, Refused, OnDisconnected, HostLeaves
<1>2. down' \in [Conn -> Seq(SafeReports)]
  <2>1. down \in [Conn -> Seq(SafeReports)]
    BY DEF IInv, QueueInv
  <2>2. down' = down \/ (down[c] # <<>> /\ down' = [down EXCEPT ![c] = Tail(@)])
    BY DEF Connected, Refused, OnDisconnected
  <2>3. ASSUME down[c] # <<>> PROVE [down EXCEPT ![c] = Tail(@)] \in [Conn -> Seq(SafeReports)]
    BY <2>1, <2>3, QueueTail
  <2> QED  BY <2>1, <2>2, <2>3
<1>3. SafeInv' /\ Grow
  BY <1>1, QuietStep DEF IInv, Late, SafeInv, StatInv, ServersUp
<1>4. QueueInv'
  BY <1>1, <1>2, <1>3, QueuesGrow DEF IInv, QueueInv
<1>5. DaemonTypes' /\ StatTypes'
  BY <1>1 DEF IInv, DaemonTypes, StatTypes
<1>6. WorkTypes'
  <2>1. conn' \in [Conn -> {"none", "opening", "open", "closed"}] /\ ws' \in [Role -> SUBSET Host]
    BY <1>1 DEF IInv, WorkTypes
  <2> QED  BY <1>1, <2>1 DEF IInv, WorkTypes
<1> QED  BY <1>3, <1>4, <1>5, <1>6 DEF IInv

\* What the maps of statuses are after a report: the keys are the same, and only
\* a server that was launched counts as started.
LEMMA StatusFacts ==
  ASSUME IInv, NEW m \in SafeReports, m.act # "disconnected", NEW r \in Role
  PROVE  /\ DOMAIN StatusAfter(r, m) = DOMAIN stat[r]
         /\ StatusAfter(r, m) \in [DOMAIN stat[r] -> 0..3]
         /\ \A i \in DOMAIN stat[r] :
              StatusAfter(r, m)[i] = Status.started =>
                stat[r][i] = Status.started \/ <<i, r>> \in launched
<1>1. /\ m.act \in {"started", "restarted", "stoped0", "stoped1", "extend"} /\ m.role \in Role
      /\ m.row \in Row
      /\ m.act \in {"started", "restarted"} => <<m.row, m.role>> \in launched
  BY DEF SafeReports, Reports
<1>2. m.act \in {"started", "restarted"} => m.row \in DOMAIN stat[m.role]
  BY <1>1 DEF IInv, SafeInv, IperfInv
<1>3. stat[r] \in [DOMAIN stat[r] -> 0..3]
  BY DEF IInv, StatTypes
<1>4. \A v \in 0..3 : m.row \in DOMAIN stat[r] =>
        /\ DOMAIN MapInsert(stat[r], m.row, v) = DOMAIN stat[r]
        /\ MapInsert(stat[r], m.row, v) \in [DOMAIN stat[r] -> 0..3]
        /\ \A i \in DOMAIN stat[r] :
             MapInsert(stat[r], m.row, v)[i] = IF i = m.row THEN v ELSE stat[r][i]
  BY <1>3 DEF MapInsert
<1>5. CASE m.role # r \/ m.act = "extend"
  <2>1. StatusAfter(r, m) = stat[r]
    BY <1>1, <1>5 DEF StatusAfter
  <2> QED  BY <1>3, <2>1
<1>6. CASE m.role = r /\ m.act = "started"
  <2>1. StatusAfter(r, m) = MapInsert(stat[r], m.row, 1)
    BY <1>6 DEF StatusAfter, Status
  <2> QED  BY <1>1, <1>2, <1>4, <1>6, <2>1
<1>7. CASE m.role = r /\ m.act = "restarted"
  <2>1. StatusAfter(r, m) = MapInsert(stat[r], m.row, 3)
    BY <1>7 DEF StatusAfter, Status
  <2> QED  BY <1>1, <1>2, <1>4, <1>7, <2>1
<1>8. CASE m.role = r /\ m.act \in {"stoped0", "stoped1"}
  <2>1. \/ StatusAfter(r, m) = stat[r]
        \/ m.row \in DOMAIN stat[r] /\ \E v \in {0, 2} : StatusAfter(r, m) = MapInsert(stat[r], m.row, v)
    BY <1>8 DEF StatusAfter, Status
  <2>2. CASE StatusAfter(r, m) = stat[r]
    BY <1>3, <2>2
  <2>3. ASSUME m.row \in DOMAIN stat[r], NEW v \in {0, 2},
               StatusAfter(r, m) = MapInsert(stat[r], m.row, v)
        PROVE  /\ DOMAIN StatusAfter(r, m) = DOMAIN stat[r]
               /\ StatusAfter(r, m) \in [DOMAIN stat[r] -> 0..3]
               /\ \A i \in DOMAIN stat[r] :
                    StatusAfter(r, m)[i] = 1 => stat[r][i] = 1
    <3>1. v \in 0..3 /\ v # 1
      OBVIOUS
    <3> QED  BY <1>4, <2>3, <3>1
  <2>4. Status.started = 1
    BY DEF Status
  <2> QED  BY <2>1, <2>2, <2>3, <2>4
<1> QED  BY <1>1, <1>5, <1>6, <1>7, <1>8

LEMMA ReportStep ==
  ASSUME DaemonsAssumption, IInv, NEW c \in Conn, OnReport(c)
  PROVE  IInv'
<1> DEFINE m == Head(down[c])
           s == <<"S", Rows[m.row].S>>
<1>1. /\ m.act # "disconnected" /\ stat' = [r \in Role |-> StatusAfter(r, m)]
      /\ down[c] # <<>> /\ down' = [down EXCEPT ![c] = Tail(@)]
      /\ UNCHANGED <<iperf, launched, halt, link, faults, errors, forever,
                     pc, at, ws, conn, todo, ready, userStop, posted>>
  BY DEF OnReport
<1>2. m \in SafeReports /\ down' \in [Conn -> Seq(SafeReports)]
  BY <1>1, QueueTail DEF IInv, QueueInv
<1>3. m.row \in Row
  BY <1>1, <1>2 DEF SafeReports
<1>4. \/ up' = up
      \/ SendTo({s}, <<Command("RESTART", "S", m.row)>>)
  BY DEF OnReport
<1>5. up' \in [Conn -> Seq(SafeCommands)]
  <2>1. Command("RESTART", "S", m.row) \in SafeCommands
    <3> HIDE DEF m
    <3> QED  BY <1>3 DEF Command, Commands, SafeCommands, Role
  <2>2. <<Command("RESTART", "S", m.row)>> \in Seq(SafeCommands)
    BY <2>1
  <2>3. up \in [Conn -> Seq(SafeCommands)]
    BY DEF IInv, QueueInv
  <2> HIDE DEF m, s
  <2> QED  BY <1>4, <2>2, <2>3, SendToKeeps
<1>6. /\ UNCHANGED <<outcome, gui>> \/ (outcome' = outcome \o << 4 >> /\ gui' = "ready")
  BY DEF OnReport, Tell
<1>7. /\ DOMAIN stat' = Role
      /\ \A r \in Role : /\ DOMAIN stat'[r] = DOMAIN stat[r]
                         /\ stat'[r] \in [DOMAIN stat[r] -> 0..3]
                         /\ \A i \in DOMAIN stat[r] :
                              stat'[r][i] = Status.started =>
                                stat[r][i] = Status.started \/ <<i, r>> \in launched
  <2> HIDE DEF m
  <2> QED  BY <1>1, <1>2, StatusFacts
<1> HIDE DEF m, s
<1>8. StatTypes'
  BY <1>7 DEF StatTypes, IInv
<1>9. ServersUp => ServersUp'
  BY <1>1, <1>7 DEF ServersUp, Role
<1>10. Grow
  BY <1>1, <1>7, <1>9 DEF Grow
<1>11. QueueInv'
  BY <1>2, <1>5, <1>10, QueuesGrow
<1>12. IperfInv'
  BY <1>1, <1>7, <1>9 DEF IInv, SafeInv, IperfInv, Role
<1>13. StatInv'
  BY <1>1, <1>7, <1>9 DEF IInv, SafeInv, StatInv, Role
<1>14. PassInv'
  BY <1>1, <1>7, PassKeeps DEF IInv, SafeInv, Role
<1>15. WorkTypes'
  <2>1. outcome' \in Seq(0..4) /\ gui' \in {"ready", "running"}
    <3>1. outcome \in Seq(0..4) /\ << 4 >> \in Seq(0..4) /\ gui \in {"ready", "running"}
      BY DEF IInv, WorkTypes
    <3> QED  BY <1>6, <3>1, SeqJoin
  <2> QED  BY <1>1, <2>1 DEF IInv, WorkTypes
<1>16. DaemonTypes'
  BY <1>1 DEF IInv, DaemonTypes
<1> QED  BY <1>8, <1>11, <1>12, <1>13, <1>14, <1>15, <1>16 DEF IInv, SafeInv

-----------------------------------------------------------------------------
(* work().                                                                 *)
LEMMA TellTypes ==
  ASSUME WorkTypes, NEW errs \in Seq(0..4),
         UNCHANGED <<outcome, gui>> \/ Tell(errs)
  PROVE  outcome' \in Seq(0..4) /\ gui' \in {"ready", "running"}
BY SeqJoin DEF Tell, WorkTypes

LEMMA HereIsConn ==
  ASSUME DaemonsAssumption, WorkTypes
  PROVE  Here \in Conn /\ at[1] \in Row /\ at[2] \in Role /\ Here[2] \in Host
<1>1. at[1] \in Row /\ at[2] \in Role
  BY DEF WorkTypes
<1>2. Rows[at[1]][at[2]] \in Host
  BY <1>1, RowFacts
<1> QED  BY <1>1, <1>2 DEF Here, Conn

LEMMA OpenStep ==
  ASSUME DaemonsAssumption, IInv, OpenWebSocket
  PROVE  IInv'
<1>1. /\ pc = "open" /\ pc' = "connect"
      /\ UNCHANGED <<iperf, launched, halt, faults, errors, forever,
                     at, stat, todo, ready, userStop, posted, gui, outcome>>
      /\ \/ UNCHANGED <<ws, conn, link, up, down>>
         \/ /\ ws' = [ws EXCEPT ![at[2]] = @ \cup {Here[2]}]
            /\ conn' = [conn EXCEPT ![Here] = "opening"]
            /\ link' = [link EXCEPT ![Here] = "none"]
            /\ up' = [up EXCEPT ![Here] = <<>>]
            /\ down' = [down EXCEPT ![Here] = <<>>]
  BY DEF OpenWebSocket
<1>2. WorkTypes /\ StatTypes /\ SafeInv /\ DaemonTypes /\ QueueInv
  BY DEF IInv
<1>3. Here \in Conn /\ at[2] \in Role /\ Here[2] \in Host
  BY <1>2, HereIsConn
<1>4. SafeInv' /\ Grow
  BY <1>1, <1>2, QuietStep DEF Late
<1>5. up' \in [Conn -> Seq(SafeCommands)] /\ down' \in [Conn -> Seq(SafeReports)]
  <2>1. <<>> \in Seq(SafeCommands) /\ <<>> \in Seq(SafeReports)
    OBVIOUS
  <2> QED  BY <1>1, <1>2, <2>1 DEF QueueInv
<1>6. QueueInv'
  BY <1>4, <1>5, QueuesGrow
<1>7. /\ ws' \in [Role -> SUBSET Host] /\ link' \in [Conn -> {"none", "up", "down"}]
      /\ conn' \in [Conn -> {"none", "opening", "open", "closed"}]
  <2>1. /\ ws \in [Role -> SUBSET Host] /\ link \in [Conn -> {"none", "up", "down"}]
        /\ conn \in [Conn -> {"none", "opening", "open", "closed"}]
    BY <1>2 DEF WorkTypes, DaemonTypes
  <2>2. ws[at[2]] \cup {Here[2]} \in SUBSET Host
    BY <1>3, <2>1
  <2>3. [ws EXCEPT ![at[2]] = @ \cup {Here[2]}] \in [Role -> SUBSET Host]
    BY <2>1, <2>2
  <2>4. /\ [link EXCEPT ![Here] = "none"] \in [Conn -> {"none", "up", "down"}]
        /\ [conn EXCEPT ![Here] = "opening"] \in [Conn -> {"none", "opening", "open", "closed"}]
    BY <2>1
  <2> QED  BY <1>1, <2>1, <2>3, <2>4
<1>8. WorkTypes' /\ DaemonTypes' /\ StatTypes'
  BY <1>1, <1>2, <1>7 DEF WorkTypes, DaemonTypes, StatTypes, Place
<1> QED  BY <1>4, <1>6, <1>8 DEF IInv

\* While daemons are being connected no client is told to start, so a new pair
\* does no harm; its client is added after its server.
LEMMA AddStep ==
  ASSUME DaemonsAssumption, IInv, AddIperf
  PROVE  IInv'
<1> DEFINE i0 == at[1]
           r0 == at[2]
<1>1. /\ pc = "connect"
      /\ UNCHANGED <<iperf, launched, halt, link, down, faults, errors, forever,
                     ws, conn, todo, ready, userStop, posted, gui, outcome>>
      /\ SendTo({Here}, <<Command("ADD", r0, i0)>>)
      /\ stat' = [stat EXCEPT ![r0] = MapInsert(@, i0, 0)]
  BY DEF AddIperf, Status
<1>2. WorkTypes /\ StatTypes /\ SafeInv /\ DaemonTypes /\ QueueInv
  BY DEF IInv
<1>3. i0 \in Row /\ r0 \in Role
  BY <1>2, HereIsConn
<1>4. \/ r0 = "S" /\ at' = <<i0, "C">> /\ pc' = "open"
      \/ r0 = "C" /\ i0 < Len(Rows) /\ at' = <<i0 + 1, "S">> /\ pc' = "open"
      \/ r0 = "C" /\ pc' = "startS" /\ at' = at
  BY DEF AddIperf
<1>5. /\ DOMAIN stat' = Role
      /\ \A r \in Role : r # r0 => stat'[r] = stat[r]
      /\ DOMAIN stat'[r0] = DOMAIN stat[r0] \cup {i0}
      /\ stat'[r0] \in [DOMAIN stat[r0] \cup {i0} -> 0..3]
      /\ \A i \in DOMAIN stat'[r0] : stat'[r0][i] = IF i = i0 THEN 0 ELSE stat[r0][i]
  <2>1. stat'[r0] = MapInsert(stat[r0], i0, 0)
    BY <1>1, <1>2, <1>3 DEF StatTypes
  <2>2. stat[r0] \in [DOMAIN stat[r0] -> 0..3]
    BY <1>2, <1>3 DEF StatTypes
  <2> HIDE DEF r0, i0
  <2>3. /\ DOMAIN MapInsert(stat[r0], i0, 0) = DOMAIN stat[r0] \cup {i0}
        /\ MapInsert(stat[r0], i0, 0) \in [DOMAIN stat[r0] \cup {i0} -> 0..3]
        /\ \A i \in DOMAIN MapInsert(stat[r0], i0, 0) :
             MapInsert(stat[r0], i0, 0)[i] = IF i = i0 THEN 0 ELSE stat[r0][i]
    BY <2>2 DEF MapInsert
  <2>4. DOMAIN stat' = Role /\ \A r \in Role : r # r0 => stat'[r] = stat[r]
    BY <1>1, <1>2 DEF StatTypes, r0
  <2> QED  BY <2>1, <2>3, <2>4
<1> HIDE DEF i0, r0
<1>6. StatTypes'
  <2>1. \A r \in Role : DOMAIN stat'[r] \subseteq Row /\ stat'[r] \in [DOMAIN stat'[r] -> 0..3]
    BY <1>2, <1>3, <1>5 DEF StatTypes
  <2> QED  BY <1>5, <2>1 DEF StatTypes
<1>7. ~ServersUp
  BY <1>1 DEF ServersUp, Late
<1>8. \A r \in Role : DOMAIN stat[r] \subseteq DOMAIN stat'[r]
  BY <1>3, <1>5
<1>9. Grow
  BY <1>1, <1>7, <1>8 DEF Grow
<1>10. QueueInv'
  <2>1. SafeCommands \subseteq SafeCommands' /\ SafeReports \subseteq SafeReports'
    BY <1>9, SafeGrow
  <2>2. up \in [Conn -> Seq(SafeCommands')] /\ down \in [Conn -> Seq(SafeReports')]
    BY <1>2, <2>1, QueueMono DEF QueueInv
  <2>3. Command("ADD", r0, i0) \in SafeCommands'
    <3>1. i0 \in DOMAIN stat'[r0]
      BY <1>5
    <3> QED  BY <1>3, <3>1 DEF Command, Commands, SafeCommands
  <2>4. <<Command("ADD", r0, i0)>> \in Seq(SafeCommands')
    BY <2>3
  <2>5. up' \in [Conn -> Seq(SafeCommands')]
    BY <1>1, <2>2, <2>4, SendToKeeps
  <2> QED  BY <1>1, <2>2, <2>5 DEF QueueInv
<1>11. IperfInv'
  BY <1>1, <1>2, <1>7, <1>8 DEF SafeInv, IperfInv, Role
<1>12. StatInv'
  <2>1. \A i \in DOMAIN stat'["S"] : stat'["S"][i] = Status.started => <<i, "S">> \in launched'
    <3> SUFFICES ASSUME NEW i \in DOMAIN stat'["S"], stat'["S"][i] = 1
                 PROVE  <<i, "S">> \in launched
      BY <1>1 DEF Status
    <3>1. i \in DOMAIN stat["S"] /\ stat["S"][i] = 1
      <4>1. CASE r0 = "S"
        BY <1>5, <4>1
      <4>2. CASE r0 = "C"
        BY <1>5, <4>2 DEF Role
      <4> QED  BY <1>3, <4>1, <4>2 DEF Role
    <3> QED  BY <1>2, <3>1 DEF SafeInv, StatInv, Status
  <2>2. r0 = "C" => i0 \in DOMAIN stat["S"]
    BY <1>1, <1>2 DEF SafeInv, StatInv, i0, r0
  <2>3. DOMAIN stat'["C"] \subseteq DOMAIN stat'["S"]
    <3>1. CASE r0 = "S"
      BY <1>2, <1>5, <3>1 DEF SafeInv, StatInv, Role
    <3>2. CASE r0 = "C"
      BY <1>2, <1>5, <2>2, <3>2 DEF SafeInv, StatInv, Role
    <3> QED  BY <1>3, <3>1, <3>2 DEF Role
  <2>4. pc' \in {"idle", "open", "connect"} /\ at'[2] = "C" => at'[1] \in DOMAIN stat'["S"]
    BY <1>4, <1>5
  <2> QED  BY <1>4, <2>1, <2>3, <2>4 DEF StatInv
<1>13. PassInv'
  BY <1>4 DEF PassInv
<1>14. WorkTypes'
  <2>1. at' \in Row \X Role
    <3>1. CASE r0 = "C" /\ i0 < Len(Rows) /\ at' = <<i0 + 1, "S">>
      <4>1. i0 + 1 \in Row
        BY <1>3, <3>1, RowFinite DEF Row
      <4> QED  BY <3>1, <4>1 DEF Role
    <3> QED  BY <1>2, <1>3, <1>4, <3>1 DEF WorkTypes, Role
  <2> QED  BY <1>1, <1>2, <1>4, <2>1 DEF WorkTypes, Place
<1>15. DaemonTypes'
  BY <1>1, <1>2 DEF DaemonTypes
<1> QED  BY <1>6, <1>10, <1>11, <1>12, <1>13, <1>14, <1>15 DEF IInv, SafeInv

\* The steps of work() that change its place and tell the window.
LEMMA TurnStep ==
  ASSUME DaemonsAssumption, IInv,
         UNCHANGED <<daemonVars, forever, at, ws, conn, stat, todo, ready, userStop, posted>>,
         NEW errs \in Seq(0..4), UNCHANGED <<outcome, gui>> \/ Tell(errs),
         pc' \in {"startS", "startC", "main", "returned"},
         pc \in Late => pc' \in {"main", "returned"},
         pc' = "startC" => \A i \in DOMAIN stat["S"] : <<i, "S">> \in launched
  PROVE  IInv'
<1>1. WorkTypes /\ StatTypes /\ SafeInv /\ DaemonTypes /\ QueueInv
  BY DEF IInv
<1>2. SafeInv' /\ Grow
  <2>1. UNCHANGED <<iperf, launched, stat, todo, ready, at>>
    BY DEF daemonVars
  <2>2. pc \in Late => pc' \in Late
    BY DEF Late
  <2> QED  BY <1>1, <2>1, <2>2, QuietStep
<1>3. QueueInv'
  BY <1>1, <1>2, QueuesGrow DEF QueueInv, daemonVars
<1>4. outcome' \in Seq(0..4) /\ gui' \in {"ready", "running"}
  BY <1>1, TellTypes
<1>5. WorkTypes' /\ DaemonTypes' /\ StatTypes'
  BY <1>1, <1>4 DEF WorkTypes, DaemonTypes, StatTypes, Place, daemonVars
<1> QED  BY <1>2, <1>3, <1>5 DEF IInv

LEMMA ReturnFacts ==
  ASSUME NEW errs \in Seq(0..4), Return(errs)
  PROVE  pc' = "returned" /\ (UNCHANGED <<outcome, gui>> \/ Tell(errs))
BY DEF Return

LEMMA ConnectFailsStep ==
  ASSUME DaemonsAssumption, IInv, ConnectFails
  PROVE  IInv'
<1>1. /\ pc = "connect"
      /\ UNCHANGED <<daemonVars, forever, at, ws, conn, stat, todo, ready, userStop, posted>>
  BY DEF ConnectFails
<1>2. <<2, 3>> \in Seq(0..4) /\ << 1 >> \in Seq(0..4) /\ <<>> \in Seq(0..4)
  OBVIOUS
<1>3. \/ Return(<<2, 3>>) \/ Return(<<>>)
      \/ pc' = "startS" /\ Tell(<< 1 >>)
  BY DEF ConnectFails
<1>4. pc' \in {"startS", "returned"} /\ \E errs \in Seq(0..4) : UNCHANGED <<outcome, gui>> \/ Tell(errs)
  BY <1>2, <1>3, ReturnFacts
<1> QED  BY <1>1, <1>4, TurnStep DEF Late

LEMMA WaitClientsStep ==
  ASSUME DaemonsAssumption, IInv, WaitClients
  PROVE  IInv'
<1>1. /\ pc = "waitC"
      /\ UNCHANGED <<daemonVars, forever, at, ws, conn, stat, todo, ready, userStop, posted>>
  BY DEF WaitClients
<1>2. << 4 >> \in Seq(0..4)
  OBVIOUS
<1>3. Return(<< 4 >>) \/ (pc' = "main" /\ UNCHANGED <<outcome, gui>>)
  BY DEF WaitClients
<1>4. pc' \in {"main", "returned"} /\ \E errs \in Seq(0..4) : UNCHANGED <<outcome, gui>> \/ Tell(errs)
  BY <1>2, <1>3, ReturnFacts
<1> QED  BY <1>1, <1>4, TurnStep DEF Late

\* The count of a pass that is over is at least the number of servers: all of
\* them were launched.
LEMMA EnoughIsAll ==
  ASSUME DaemonsAssumption, IInv, pc = "waitS", EnoughServers
  PROVE  \A i \in DOMAIN stat["S"] : <<i, "S">> \in launched
<1> DEFINE D == DOMAIN stat["S"]
<1>1. D \in SUBSET Row /\ ReadAndUp \in SUBSET D
  BY DEF IInv, StatTypes, Role, ReadAndUp
<1>2. ready <= Cardinality(ReadAndUp) /\ ready >= Cardinality(D) /\ ready \in Nat
  BY RowFinite DEF IInv, SafeInv, PassInv, EnoughServers, MapCount, WorkTypes
<1>3. IsFiniteSet(D) /\ Cardinality(D) \in Nat /\ Cardinality(ReadAndUp) \in Nat
  BY <1>1, RowFinite
<1>4. Cardinality(ReadAndUp) <= Cardinality(D)
  BY <1>1, <1>3, FS_Subset
<1>5. Cardinality(D) = Cardinality(ReadAndUp)
  BY <1>2, <1>3, <1>4
<1>6. D = ReadAndUp
  BY <1>1, <1>3, <1>5, FS_Subset
<1> QED  BY <1>6 DEF ReadAndUp

LEMMA ServersReadyStep ==
  ASSUME DaemonsAssumption, IInv, ServersReady
  PROVE  IInv'
<1>1. /\ pc = "waitS" /\ EnoughServers
      /\ UNCHANGED <<daemonVars, forever, at, ws, conn, stat, todo, ready, userStop, posted>>
  BY DEF ServersReady
<1>2. <<>> \in Seq(0..4)
  OBVIOUS
<1>3. Return(<<>>) \/ (pc' = "startC" /\ UNCHANGED <<outcome, gui>>)
  BY DEF ServersReady
<1>4. /\ pc' \in {"startC", "returned"}
      /\ \E errs \in Seq(0..4) : UNCHANGED <<outcome, gui>> \/ Tell(errs)
  BY <1>2, <1>3, ReturnFacts
<1>5. \A i \in DOMAIN stat["S"] : <<i, "S">> \in launched
  BY <1>1, EnoughIsAll
<1> QED  BY <1>1, <1>4, <1>5, TurnStep DEF Late

\* A new pass has read no server.
LEMMA NextPassKeeps ==
  ASSUME DaemonsAssumption, NextPass, stat' = stat, StatTypes
  PROVE  PassInv' /\ todo' \subseteq Row /\ ready' \in 0..Len(Rows)
<1>1. todo' = DOMAIN stat'["S"] /\ ready' = 0 /\ todo' \subseteq Row
  BY DEF NextPass, StatTypes, Role
<1>2. ReadAndUp' = {}
  BY <1>1 DEF ReadAndUp
<1>3. Cardinality(ReadAndUp') = 0
  BY <1>2, FS_EmptySet
<1>4. Len(Rows) \in Nat
  BY RowFinite
<1> QED  BY <1>1, <1>3, <1>4 DEF PassInv

LEMMA ServersNotReadyStep ==
  ASSUME DaemonsAssumption, IInv, ServersNotReady
  PROVE  IInv'
<1>1. /\ pc = "waitS"
      /\ UNCHANGED <<daemonVars, forever, at, ws, conn, stat, userStop, posted>>
  BY DEF ServersNotReady
<1>2. WorkTypes /\ StatTypes /\ SafeInv /\ DaemonTypes /\ QueueInv
  BY DEF IInv
<1>3. CASE NextPass /\ UNCHANGED <<pc, outcome, gui>>
  <2>1. PassInv' /\ todo' \subseteq Row /\ ready' \in 0..Len(Rows)
    BY <1>1, <1>2, <1>3, NextPassKeeps
  <2>2. ~ServersUp /\ ~ServersUp'
    BY <1>1, <1>3 DEF ServersUp, Late
  <2>3. UNCHANGED <<iperf, launched, stat, up, down, at, pc>>
    BY <1>1, <1>3 DEF daemonVars
  <2>4. Grow
    BY <2>2, <2>3 DEF Grow
  <2>5. QueueInv'
    BY <1>2, <2>3, <2>4, QueuesGrow DEF QueueInv
  <2>6. IperfInv' /\ StatInv'
    BY <1>1, <1>2, <2>2, <2>3 DEF SafeInv, IperfInv, StatInv
  <2>7. WorkTypes' /\ DaemonTypes' /\ StatTypes'
    BY <1>1, <1>2, <1>3, <2>1 DEF WorkTypes, DaemonTypes, StatTypes, daemonVars
  <2> QED  BY <2>1, <2>5, <2>6, <2>7 DEF IInv, SafeInv
<1>4. CASE (Return(<< 4 >>) \/ Return(<<>>)) /\ UNCHANGED <<todo, ready>>
  <2>1. << 4 >> \in Seq(0..4) /\ <<>> \in Seq(0..4)
    OBVIOUS
  <2>2. pc' = "returned" /\ \E errs \in Seq(0..4) : UNCHANGED <<outcome, gui>> \/ Tell(errs)
    BY <1>4, <2>1, ReturnFacts
  <2> QED  BY <1>1, <1>4, <2>2, TurnStep DEF Late
<1> QED  BY <1>3, <1>4 DEF ServersNotReady

\* A server that counts as ready was launched, and is counted once.
LEMMA ReadStep ==
  ASSUME DaemonsAssumption, IInv, ReadServer
  PROVE  IInv'
<1>1. /\ pc = "waitS"
      /\ UNCHANGED <<daemonVars, forever, pc, at, ws, conn, stat, userStop, posted, gui, outcome>>
  BY DEF ReadServer
<1>2. PICK k \in todo :
        /\ todo' = todo \ {k}
        /\ ready' = IF k \in DOMAIN stat["S"] /\ stat["S"][k] = Status.started
                    THEN ready + 1 ELSE ready
  BY DEF ReadServer
<1>3. WorkTypes /\ StatTypes /\ SafeInv /\ DaemonTypes /\ QueueInv
  BY DEF IInv
<1>4. UNCHANGED <<iperf, launched, stat, up, down, at, pc>>
  BY <1>1 DEF daemonVars
<1>5. ~ServersUp /\ ~ServersUp'
  BY <1>1 DEF ServersUp, Late
<1>6. Grow
  BY <1>4, <1>5 DEF Grow
<1>7. QueueInv'
  BY <1>3, <1>4, <1>6, QueuesGrow DEF QueueInv
<1>8. IperfInv' /\ StatInv'
  BY <1>1, <1>3, <1>4, <1>5 DEF SafeInv, IperfInv, StatInv
<1>9. /\ ReadAndUp \in SUBSET Row /\ ReadAndUp' \in SUBSET Row
      /\ ReadAndUp \subseteq ReadAndUp' /\ k \notin ReadAndUp
      /\ k \in DOMAIN stat["S"] /\ <<k, "S">> \in launched => ReadAndUp' = ReadAndUp \cup {k}
  BY <1>2, <1>3, <1>4 DEF ReadAndUp, StatTypes, Role
<1>10. /\ IsFiniteSet(ReadAndUp) /\ IsFiniteSet(ReadAndUp')
       /\ Cardinality(ReadAndUp) \in Nat /\ Cardinality(ReadAndUp') \in Nat
       /\ Cardinality(ReadAndUp') <= Len(Rows) /\ Len(Rows) \in Nat
  BY <1>9, RowFinite
<1>11. ready <= Cardinality(ReadAndUp) /\ ready \in Nat
  BY <1>1, <1>3, <1>10 DEF SafeInv, PassInv, WorkTypes
<1>12. ready' <= Cardinality(ReadAndUp') /\ ready' \in Nat
  <2>1. CASE k \in DOMAIN stat["S"] /\ stat["S"][k] = Status.started
    <3>1. ReadAndUp' = ReadAndUp \cup {k}
      BY <1>3, <1>9, <2>1 DEF SafeInv, StatInv
    <3>2. Cardinality(ReadAndUp') = Cardinality(ReadAndUp) + 1
      BY <1>9, <1>10, <3>1, FS_AddElement
    <3> QED  BY <1>2, <1>10, <1>11, <2>1, <3>2
  <2>2. CASE ~(k \in DOMAIN stat["S"] /\ stat["S"][k] = Status.started)
    <3>1. Cardinality(ReadAndUp) <= Cardinality(ReadAndUp')
      BY <1>9, <1>10, FS_Subset
    <3> QED  BY <1>2, <1>10, <1>11, <2>2, <3>1
  <2> QED  BY <2>1, <2>2
<1>13. PassInv'
  BY <1>1, <1>2, <1>3, <1>4, <1>12 DEF SafeInv, PassInv
<1>14. todo' \subseteq Row /\ ready' \in 0..Len(Rows)
  BY <1>2, <1>3, <1>10, <1>12 DEF WorkTypes
<1>15. WorkTypes' /\ DaemonTypes' /\ StatTypes'
  BY <1>1, <1>3, <1>14 DEF WorkTypes, DaemonTypes, StatTypes, daemonVars
<1> QED  BY <1>7, <1>8, <1>13, <1>15 DEF IInv, SafeInv

LEMMA StartServersStep ==
  ASSUME DaemonsAssumption, IInv, StartServers
  PROVE  IInv'
<1>1. /\ pc = "startS" /\ pc' = "waitS" /\ NextPass
      /\ UNCHANGED <<iperf, launched, halt, link, down, faults, errors, forever,
                     at, ws, conn, stat, userStop, posted>>
      /\ SendTo(Sendable("S"), <<Command("START", "S", 0)>>)
      /\ UNCHANGED <<outcome, gui>> \/ Tell(<< 3 >>)
  BY DEF StartServers, SendStart
<1>2. WorkTypes /\ StatTypes /\ SafeInv /\ DaemonTypes /\ QueueInv
  BY DEF IInv
<1>3. PassInv' /\ todo' \subseteq Row /\ ready' \in 0..Len(Rows)
  BY <1>1, <1>2, NextPassKeeps
<1>4. ~ServersUp /\ ~ServersUp'
  BY <1>1 DEF ServersUp, Late
<1>5. Grow
  BY <1>1, <1>4 DEF Grow
<1>6. QueueInv'
  <2>1. Command("START", "S", 0) \in SafeCommands
    BY DEF Command, Commands, SafeCommands, Role
  <2>2. <<Command("START", "S", 0)>> \in Seq(SafeCommands)
    BY <2>1
  <2>3. up' \in [Conn -> Seq(SafeCommands)]
    BY <1>1, <1>2, <2>2, SendToKeeps DEF QueueInv
  <2> QED  BY <1>1, <1>2, <1>5, <2>3, QueuesGrow DEF QueueInv
<1>7. IperfInv' /\ StatInv'
  BY <1>1, <1>2, <1>4 DEF SafeInv, IperfInv, StatInv
<1>8. outcome' \in Seq(0..4) /\ gui' \in {"ready", "running"}
  <2>1. << 3 >> \in Seq(0..4)
    OBVIOUS
  <2> QED  BY <1>1, <1>2, <2>1, TellTypes
<1>9. WorkTypes' /\ DaemonTypes' /\ StatTypes'
  BY <1>1, <1>2, <1>3, <1>8 DEF WorkTypes, DaemonTypes, StatTypes, Place
<1> QED  BY <1>3, <1>6, <1>7, <1>9 DEF IInv, SafeInv

LEMMA StartClientsStep ==
  ASSUME DaemonsAssumption, IInv, StartClients
  PROVE  IInv'
<1>1. /\ pc = "startC" /\ pc' = "waitC"
      /\ UNCHANGED <<iperf, launched, halt, link, down, faults, errors, forever,
                     at, ws, conn, stat, todo, ready, userStop, posted>>
      /\ SendTo(Sendable("C"), <<Command("START", "C", 0)>>)
      /\ UNCHANGED <<outcome, gui>> \/ Tell(<< 4 >>)
  BY DEF StartClients, SendStart
<1>2. WorkTypes /\ StatTypes /\ SafeInv /\ DaemonTypes /\ QueueInv
  BY DEF IInv
<1>3. ServersUp
  BY <1>1, <1>2 DEF SafeInv, StatInv
<1>4. SafeInv' /\ Grow
  BY <1>1, <1>2, QuietStep DEF Late
<1>5. QueueInv'
  <2>1. Command("START", "C", 0) \in SafeCommands
    BY <1>3 DEF Command, Commands, SafeCommands, Role
  <2>2. <<Command("START", "C", 0)>> \in Seq(SafeCommands)
    BY <2>1
  <2>3. up' \in [Conn -> Seq(SafeCommands)]
    BY <1>1, <1>2, <2>2, SendToKeeps DEF QueueInv
  <2> QED  BY <1>1, <1>2, <1>4, <2>3, QueuesGrow DEF QueueInv
<1>6. outcome' \in Seq(0..4) /\ gui' \in {"ready", "running"}
  <2>1. << 4 >> \in Seq(0..4)
    OBVIOUS
  <2> QED  BY <1>1, <1>2, <2>1, TellTypes
<1>7. WorkTypes' /\ DaemonTypes' /\ StatTypes'
  BY <1>1, <1>2, <1>6 DEF WorkTypes, DaemonTypes, StatTypes, Place
<1> QED  BY <1>4, <1>5, <1>7 DEF IInv

LEMMA LeaveMainStep ==
  ASSUME DaemonsAssumption, IInv, LeaveMain
  PROVE  IInv'
<1> DEFINE C == {c \in {"S"} \X ws["S"] : conn[c] = "open"}
           closed == {"S"} \X ws["S"]
<1>1. /\ pc = "main" /\ Return(<< 0 >>)
      /\ UNCHANGED <<iperf, launched, halt, faults, errors, forever, at, ws, stat, todo, ready, posted>>
      /\ SendTo(C, HaltCommands)
      /\ conn' = [c \in Conn |-> IF c \in closed THEN "closed" ELSE conn[c]]
      /\ link' = [c \in Conn |-> IF c \in C THEN "down" ELSE link[c]]
      /\ down' = [c \in Conn |-> IF c \in C THEN <<>> ELSE down[c]]
      /\ userStop' = TRUE
  BY DEF LeaveMain, OnStop
<1> HIDE DEF C, closed
<1>2. WorkTypes /\ StatTypes /\ SafeInv /\ DaemonTypes /\ QueueInv
  BY DEF IInv
<1>3. pc' = "returned" /\ outcome' \in Seq(0..4) /\ gui' \in {"ready", "running"}
  <2>1. << 0 >> \in Seq(0..4)
    OBVIOUS
  <2> QED  BY <1>1, <1>2, <2>1, ReturnFacts, TellTypes
<1>4. SafeInv' /\ Grow
  BY <1>1, <1>2, <1>3, QuietStep DEF Late
<1>5. QueueInv'
  <2>1. Command("STOP", "S", 0) \in SafeCommands /\ Command("CLEAR", "S", 0) \in SafeCommands
    BY DEF Command, Commands, SafeCommands, Role
  <2>2. HaltCommands \in Seq(SafeCommands)
    BY <2>1 DEF HaltCommands
  <2>3. up' \in [Conn -> Seq(SafeCommands)]
    BY <1>1, <1>2, <2>2, SendToKeeps DEF QueueInv
  <2>4. \A c \in Conn : down[c] \in Seq(SafeReports) /\ <<>> \in Seq(SafeReports)
    BY <1>2 DEF QueueInv
  <2>5. down' \in [Conn -> Seq(SafeReports)]
    BY <1>1, <2>4
  <2> QED  BY <1>4, <2>3, <2>5, QueuesGrow
<1>6. /\ conn' \in [Conn -> {"none", "opening", "open", "closed"}]
      /\ link' \in [Conn -> {"none", "up", "down"}]
  BY <1>1, <1>2 DEF WorkTypes, DaemonTypes
<1>7. WorkTypes' /\ DaemonTypes' /\ StatTypes'
  BY <1>1, <1>2, <1>3, <1>6 DEF WorkTypes, DaemonTypes, StatTypes, Place
<1> QED  BY <1>4, <1>5, <1>7 DEF IInv

-----------------------------------------------------------------------------
LEMMA InitIInv == DaemonsAssumption /\ TpWorkerAssumption /\ Init => IInv
<1> SUFFICES ASSUME DaemonsAssumption, TpWorkerAssumption, Init PROVE IInv
  OBVIOUS
<1> USE DEF Init, DaemonsInit
<1>1. DaemonTypes
  BY DEF DaemonTypes, IperfState, DaemonsAssumption
<1>2. 1 \in Row
  BY DEF DaemonsAssumption, Row
<1>3. WorkTypes
  <2>1. ready \in 0..Len(Rows) /\ todo \subseteq Row
    BY RowFinite
  <2>2. at \in Row \X Role /\ pc \in Place /\ forever \in BOOLEAN
    BY <1>2 DEF Role, Place, TpWorkerAssumption
  <2>3. /\ ws \in [Role -> SUBSET Host] /\ outcome \in Seq(0..4)
        /\ conn \in [Conn -> {"none", "opening", "open", "closed"}]
    OBVIOUS
  <2> QED  BY <2>1, <2>2, <2>3 DEF WorkTypes
<1>4. DOMAIN stat = Role /\ \A r \in Role : stat[r] = EmptyMap /\ DOMAIN stat[r] = {}
  BY DEF EmptyMap
<1>5. StatTypes
  BY <1>4 DEF StatTypes, EmptyMap
<1>6. QueueInv
  BY DEF QueueInv
<1>7. IperfInv
  BY DEF IperfInv, Role
<1>8. StatInv
  BY <1>4 DEF StatInv, Role
<1>9. PassInv
  BY DEF PassInv
<1> QED  BY <1>1, <1>3, <1>5, <1>6, <1>7, <1>8, <1>9 DEF IInv, SafeInv

\* Every step, and a stutter, keeps the inductive invariant.
LEMMA NextIInv == DaemonsAssumption /\ IInv /\ [Next]_vars => IInv'
<1> SUFFICES ASSUME DaemonsAssumption, IInv, [Next]_vars PROVE IInv'
  OBVIOUS
<1>1. CASE Begin \/ UserStops
  BY <1>1, UserStep
<1>2. CASE Work
  BY <1>2, OpenStep, AddStep, ConnectFailsStep, StartServersStep, ReadStep, ServersReadyStep,
     ServersNotReadyStep, StartClientsStep, WaitClientsStep, LeaveMainStep DEF Work
<1>3. CASE Slots
  BY <1>3, UserStep, ConnectionStep, ReportStep DEF Slots
<1>4. CASE DaemonStep /\ UNCHANGED workVars
  BY <1>4, ReceiveStep, LinkStep, IperfStep DEF DaemonStep
<1>5. CASE UNCHANGED vars
  <2>1. UNCHANGED <<iperf, launched, stat, up, down>> /\ UNCHANGED workVars /\ UNCHANGED daemonVars
    BY <1>5 DEF vars, daemonVars, workVars
  <2>2. Grow /\ StatInv' /\ PassInv' /\ WorkTypes' /\ StatTypes'
    BY <2>1, DaemonFrame
  <2>3. IperfInv'
    BY <2>1, <2>2 DEF IInv, SafeInv, IperfInv, Grow
  <2>4. QueueInv'
    BY <2>1, <2>2, QueuesGrow DEF IInv, QueueInv
  <2>5. DaemonTypes'
    BY <2>1 DEF IInv, DaemonTypes, daemonVars
  <2> QED  BY <2>2, <2>3, <2>4, <2>5 DEF IInv, SafeInv
<1> QED  BY <1>1, <1>2, <1>3, <1>4, <1>5 DEF Next

LEMMA Inductive == Spec => []IInv
<1>1. Init => IInv
  BY InitIInv, DaemonsAssumption, TpWorkerAssumption
<1>2. IInv /\ [Next]_vars => IInv'
  BY NextIInv, DaemonsAssumption
<1> QED  BY <1>1, <1>2, PTL DEF Spec

\* Every reachable state of a test is well typed; in particular the count of
\* waitAllServerReady never exceeds the number of pairs.
THEOREM TypeCorrect == Spec => []TypeOK
<1>1. IInv => TypeOK
  <2> SUFFICES ASSUME IInv PROVE TypeOK
    OBVIOUS
  <2>1. SafeCommands \subseteq Commands /\ SafeReports \subseteq Reports
    BY DEF SafeCommands, SafeReports
  <2>2. up \in [Conn -> Seq(Commands)] /\ down \in [Conn -> Seq(Reports)]
    BY <2>1, QueueMono DEF IInv, QueueInv
  <2> QED  BY <2>2 DEF IInv, DaemonTypes, WorkTypes, StatTypes, TypeOK, DaemonsTypeOK
<1> QED  BY <1>1, Inductive, PTL

\* No iperf client is ever started before the server of its pair, on however many
\* hosts and pairs, and whichever connections break (StartClients, waitAllServerReady).
THEOREM ServersGoFirst == Spec => []ServerFirst
<1>1. IInv => ServerFirst
  <2> SUFFICES ASSUME IInv, NEW i \in Row, <<i, "C">> \in launched
               PROVE  <<i, "S">> \in launched
    BY DEF ServerFirst
  <2>1. ServersUp /\ i \in DOMAIN stat["C"]
    BY DEF IInv, SafeInv, IperfInv, Role
  <2>2. i \in DOMAIN stat["S"]
    BY <2>1 DEF IInv, SafeInv, StatInv
  <2> QED  BY <2>1, <2>2 DEF ServersUp
<1> QED  BY <1>1, Inductive, PTL

-----------------------------------------------------------------------------
(* How a test ends.  The commands that add a pair: each is sent once, on    *)
(* the connection of its daemon, and the pair is not there before.          *)
Unborn(m) == iperf[m.row][m.role] = "none" /\ <<m.row, m.role>> \notin launched

AddInv ==
  \A c \in Conn : \A k \in 1..Len(up[c]) :
    up[c][k].act = "ADD" =>
      /\ c = <<up[c][k].role, Rows[up[c][k].row][up[c][k].role]>>
      /\ Unborn(up[c][k])
      /\ \A j \in 1..Len(up[c]) : up[c][j] = up[c][k] => j = k

LEMMA QueueTypes ==
  ASSUME IInv
  PROVE  /\ up \in [Conn -> Seq(Commands)] /\ down \in [Conn -> Seq(Reports)]
         /\ \A c \in Conn : up[c] \in Seq(Commands) /\ down[c] \in Seq(Reports)
<1>1. SafeCommands \subseteq Commands /\ SafeReports \subseteq Reports
  BY DEF SafeCommands, SafeReports
<1>2. up \in [Conn -> Seq(Commands)] /\ down \in [Conn -> Seq(Reports)]
  BY <1>1, QueueMono DEF IInv, QueueInv
<1> QED  BY <1>2

\* A command to add is about a row, one of the statuses.
LEMMA AddIsRow ==
  ASSUME IInv, NEW c \in Conn, NEW k \in 1..Len(up[c]), up[c][k].act = "ADD"
  PROVE  up[c][k].row \in Row /\ up[c][k].role \in Role /\ up[c][k].row \in DOMAIN stat[up[c][k].role]
<1>1. up[c] \in Seq(SafeCommands)
  BY DEF IInv, QueueInv
<1>2. up[c][k] \in SafeCommands
  BY <1>1
<1>3. up[c][k].role \in Role /\ up[c][k].row \in DOMAIN stat[up[c][k].role]
  BY <1>2 DEF SafeCommands, Commands
<1> QED  BY <1>3 DEF IInv, StatTypes

\* Queues that lose messages, or get others than ADD, keep the invariant when
\* the pairs that are still to be added are left alone.
LEMMA AddKeeps ==
  ASSUME up \in [Conn -> Seq(Commands)], AddInv,
         \A c \in Conn :
           \/ up'[c] = up[c] \/ up'[c] = <<>> \/ (up[c] # <<>> /\ up'[c] = Tail(up[c]))
           \/ \E ms \in Seq(Commands) : /\ \A k \in 1..Len(ms) : ms[k].act # "ADD"
                                        /\ up'[c] = up[c] \o ms,
         \A c \in Conn : \A k \in 1..Len(up'[c]) :
           up'[c][k].act = "ADD" /\ Unborn(up'[c][k]) =>
             /\ iperf'[up'[c][k].row][up'[c][k].role] = "none"
             /\ <<up'[c][k].row, up'[c][k].role>> \notin launched'
  PROVE  AddInv'
<1> SUFFICES ASSUME NEW c \in Conn, NEW k \in 1..Len(up'[c]), up'[c][k].act = "ADD"
             PROVE  /\ c = <<up'[c][k].role, Rows[up'[c][k].row][up'[c][k].role]>>
                    /\ iperf'[up'[c][k].row][up'[c][k].role] = "none"
                    /\ <<up'[c][k].row, up'[c][k].role>> \notin launched'
                    /\ \A j \in 1..Len(up'[c]) : up'[c][j] = up'[c][k] => j = k
  BY DEF AddInv, Unborn
<1>1. up[c] \in Seq(Commands)
  OBVIOUS
<1>2. \E d \in Nat : /\ k + d \in 1..Len(up[c]) /\ up[c][k + d] = up'[c][k]
                     /\ \A j \in 1..Len(up'[c]) : up'[c][j] = up'[c][k] =>
                          j + d \in 1..Len(up[c]) /\ up[c][j + d] = up'[c][j]
  <2>1. CASE up'[c] = up[c]
    <3>1. k + 0 \in 1..Len(up[c]) /\ up[c][k + 0] = up'[c][k]
      BY <1>1, <2>1
    <3>2. \A j \in 1..Len(up'[c]) : j + 0 \in 1..Len(up[c]) /\ up[c][j + 0] = up'[c][j]
      BY <1>1, <2>1
    <3> QED  BY <3>1, <3>2
  <2>2. CASE up'[c] = <<>>
    BY <2>2
  <2>3. CASE up[c] # <<>> /\ up'[c] = Tail(up[c])
    <3>1. \A j \in 1..Len(up'[c]) : j + 1 \in 1..Len(up[c]) /\ up[c][j + 1] = up'[c][j]
      BY <1>1, <2>3
    <3> QED  BY <3>1
  <2>4. ASSUME NEW ms \in Seq(Commands), \A l \in 1..Len(ms) : ms[l].act # "ADD",
               up'[c] = up[c] \o ms
        PROVE  \A j \in 1..Len(up'[c]) : up'[c][j].act = "ADD" =>
                 j + 0 \in 1..Len(up[c]) /\ up[c][j + 0] = up'[c][j]
    <3> SUFFICES ASSUME NEW j \in 1..Len(up'[c]), up'[c][j].act = "ADD"
                 PROVE  j \in 1..Len(up[c]) /\ up[c][j] = up'[c][j]
      BY <1>1, <2>4
    <3>1. CASE j <= Len(up[c])
      BY <1>1, <2>4, <3>1
    <3>2. CASE j > Len(up[c])
      <4>1. j - Len(up[c]) \in 1..Len(ms) /\ up'[c][j] = ms[j - Len(up[c])]
        BY <1>1, <2>4, <3>2
      <4> QED  BY <2>4, <4>1
    <3> QED  BY <1>1, <3>1, <3>2
  <2>5. ASSUME NEW ms \in Seq(Commands), \A l \in 1..Len(ms) : ms[l].act # "ADD",
               up'[c] = up[c] \o ms
        PROVE  \E d \in Nat : /\ k + d \in 1..Len(up[c]) /\ up[c][k + d] = up'[c][k]
                             /\ \A j \in 1..Len(up'[c]) : up'[c][j] = up'[c][k] =>
                                  j + d \in 1..Len(up[c]) /\ up[c][j + d] = up'[c][j]
    <3>1. k + 0 \in 1..Len(up[c]) /\ up[c][k + 0] = up'[c][k]
      BY <2>4, <2>5
    <3>2. \A j \in 1..Len(up'[c]) : up'[c][j] = up'[c][k] =>
            j + 0 \in 1..Len(up[c]) /\ up[c][j + 0] = up'[c][j]
      BY <2>4, <2>5
    <3> QED  BY <3>1, <3>2
  <2> QED  BY <2>1, <2>2, <2>3, <2>5, ZenonT(30)
<1>3. PICK d \in Nat : /\ k + d \in 1..Len(up[c]) /\ up[c][k + d] = up'[c][k]
                       /\ \A j \in 1..Len(up'[c]) : up'[c][j] = up'[c][k] =>
                            j + d \in 1..Len(up[c]) /\ up[c][j + d] = up'[c][j]
  BY <1>2
<1>4. /\ c = <<up[c][k + d].role, Rows[up[c][k + d].row][up[c][k + d].role]>>
      /\ Unborn(up[c][k + d])
      /\ \A j \in 1..Len(up[c]) : up[c][j] = up[c][k + d] => j = k + d
  BY <1>3 DEF AddInv
<1>5. \A j \in 1..Len(up'[c]) : up'[c][j] = up'[c][k] => j = k
  <2> SUFFICES ASSUME NEW j \in 1..Len(up'[c]), up'[c][j] = up'[c][k] PROVE j = k
    OBVIOUS
  <2>1. j + d \in 1..Len(up[c]) /\ up[c][j + d] = up[c][k + d]
    BY <1>3
  <2>2. j + d = k + d
    BY <1>4, <2>1
  <2>3. j \in Int /\ k \in Int /\ d \in Int
    OBVIOUS
  <2> QED  BY <2>2, <2>3
<1> QED  BY <1>3, <1>4, <1>5

\* What a command does to the iperfs.
LEMMA ReceiveFacts ==
  ASSUME DaemonsAssumption, IInv, NEW c \in Conn, Receive(c)
  PROVE  /\ Head(up[c]) \in Commands /\ Head(up[c]) = up[c][1]
         /\ UNCHANGED <<launched, link, down, faults>>
         /\ \A i \in Row, r \in Role :
              \/ iperf'[i][r] \in {iperf[i][r], "none"}
              \/ iperf[i][r] \notin {"none", "down"} /\ iperf'[i][r] # "none"
              \/ Head(up[c]).act = "ADD" /\ i = Head(up[c]).row /\ r = Head(up[c]).role
         /\ Head(up[c]).act = "CLEAR" =>
              \A i \in Row, r \in Role : Rows[i][r] = c[2] => iperf'[i][r] = "none"
<1> DEFINE m == Head(up[c])
           h == c[2]
<1>1. up[c] # <<>> /\ UNCHANGED <<launched, link, down, faults>>
  BY DEF Receive
<1>2. up[c] \in Seq(Commands)
  BY QueueTypes
<1>3. m \in Commands /\ m = up[c][1]
  BY <1>1, <1>2
<1>4. m.act \in {"ADD", "START", "STOP", "CLEAR", "RESTART"} /\ m.role \in Role
  BY <1>3 DEF Commands
<1>5. DaemonTypes
  BY DEF IInv
<1>6. m.act = "ADD" => m.row \in Row
  <2>1. 1 \in 1..Len(up[c])
    BY <1>1, <1>2
  <2> QED  BY <1>3, <2>1, AddIsRow
<1>7. \A i \in Row, r \in Role :
        \/ iperf'[i][r] \in {iperf[i][r], "none"}
        \/ iperf[i][r] \notin {"none", "down"} /\ iperf'[i][r] # "none"
        \/ m.act = "ADD" /\ i = m.row /\ r = m.role
  <2> HIDE DEF m, h
  <2>1. CASE m.act = "ADD"
    <3>1. iperf' = [iperf EXCEPT ![m.row][m.role] = "added"]
      BY <2>1 DEF Receive, m
    <3> QED  BY <1>5, <2>1, <3>1 DEF DaemonTypes
  <2>2. CASE m.act = "START"
    <3>1. iperf' = Move(At(h, {m.role}), {"added"}, "starting")
      BY <2>2 DEF Receive, m, h
    <3>2. /\ iperf' \in [Row -> [Role -> IperfState]]
          /\ \A i \in Row, r \in Role :
               iperf'[i][r] = IF <<i, r>> \in At(h, {m.role}) /\ iperf[i][r] \in {"added"}
                              THEN "starting" ELSE iperf[i][r]
      BY <1>5, <3>1, MoveFacts DEF IperfState
    <3> QED  BY <3>2
  <2>3. CASE m.act = "RESTART"
    <3>1. iperf' = Move(At(h, {m.role}), {"up", "retry"}, "restarting")
      BY <2>3 DEF Receive, m, h
    <3>2. /\ iperf' \in [Row -> [Role -> IperfState]]
          /\ \A i \in Row, r \in Role :
               iperf'[i][r] = IF <<i, r>> \in At(h, {m.role}) /\ iperf[i][r] \in {"up", "retry"}
                              THEN "restarting" ELSE iperf[i][r]
      BY <1>5, <3>1, MoveFacts DEF IperfState
    <3> QED  BY <3>2
  <2>4. CASE m.act = "STOP"
    <3>1. iperf' = iperf
      BY <2>4 DEF Receive, m, h
    <3> QED  BY <3>1
  <2>5. CASE m.act = "CLEAR"
    <3>1. iperf' = Move(At(h, Role), IperfState, "none")
      BY <2>5 DEF Receive, m, h
    <3>2. /\ iperf' \in [Row -> [Role -> IperfState]]
          /\ \A i \in Row, r \in Role :
               iperf'[i][r] = IF <<i, r>> \in At(h, Role) /\ iperf[i][r] \in IperfState
                              THEN "none" ELSE iperf[i][r]
      BY <1>5, <3>1, MoveFacts DEF IperfState
    <3> QED  BY <3>2
  <2> QED  BY <1>4, <2>1, <2>2, <2>3, <2>4, <2>5
<1>8. m.act = "CLEAR" => \A i \in Row, r \in Role : Rows[i][r] = c[2] => iperf'[i][r] = "none"
  <2> HIDE DEF m
  <2> SUFFICES ASSUME m.act = "CLEAR"
               PROVE  \A i \in Row, r \in Role : Rows[i][r] = c[2] => iperf'[i][r] = "none"
    OBVIOUS
  <2>1. iperf' = Move(At(c[2], Role), IperfState, "none")
    BY DEF Receive, m
  <2>2. /\ iperf' \in [Row -> [Role -> IperfState]]
        /\ \A i \in Row, r \in Role :
             iperf'[i][r] = IF <<i, r>> \in At(c[2], Role) /\ iperf[i][r] \in IperfState
                            THEN "none" ELSE iperf[i][r]
    BY <1>5, <2>1, MoveFacts DEF IperfState
  <2>3. \A i \in Row, r \in Role : iperf[i][r] \in IperfState
    BY <1>5 DEF DaemonTypes
  <2> QED  BY <2>2, <2>3 DEF At
<1> QED  BY <1>1, <1>3, <1>7, <1>8

\* An iperf starts, ends or complains: it alone changes, and it was on its way.
LEMMA IperfFacts ==
  ASSUME IInv, NEW i \in Row, NEW r \in Role, Launch(i, r) \/ Exit(i, r) \/ Stderr(i, r)
  PROVE  /\ UNCHANGED <<halt, link, up, faults>>
         /\ launched \subseteq launched' /\ launched' \subseteq launched \cup {<<i, r>>}
         /\ iperf[i][r] \in {"starting", "restarting", "up"}
         /\ \A j \in Row, q \in Role : <<j, q>> # <<i, r>> => iperf'[j][q] = iperf[j][q]
<1>1. \E to : iperf' = [iperf EXCEPT ![i][r] = to] \/ iperf' = iperf
  BY DEF Launch, Exit, Stderr
<1>2. /\ UNCHANGED <<halt, link, up, faults>>
      /\ launched \subseteq launched' /\ launched' \subseteq launched \cup {<<i, r>>}
      /\ iperf[i][r] \in {"starting", "restarting", "up"}
  BY DEF Launch, Exit, Stderr
<1> QED  BY <1>1, <1>2 DEF IInv, DaemonTypes

\* Whatever is not a daemon's step leaves the iperfs alone.
LEMMA WhoMoves ==
  ASSUME [Next]_vars
  PROVE  \/ UNCHANGED <<iperf, launched>>
         \/ UNCHANGED workVars /\ \E c \in Conn : Receive(c)
         \/ UNCHANGED workVars /\ \E i \in Row, r \in Role : Launch(i, r) \/ Exit(i, r) \/ Stderr(i, r)
<1>1. CASE Begin \/ UserStops \/ OnSetStop
  BY <1>1 DEF Begin, UserStops, OnSetStop, daemonVars
<1>2. CASE Work
  BY <1>2 DEF Work, OpenWebSocket, AddIperf, ConnectFails, StartServers, ReadServer, ServersReady,
       ServersNotReady, StartClients, WaitClients, LeaveMain, daemonVars
<1>3. ASSUME NEW c \in Conn, Connected(c) \/ Refused(c) \/ OnReport(c) \/ OnDisconnected(c)
      PROVE  UNCHANGED <<iperf, launched>>
  BY <1>3 DEF Connected, Refused, OnReport, OnDisconnected, HostLeaves
<1>4. CASE DaemonStep /\ UNCHANGED workVars
  BY <1>4 DEF DaemonStep, LinkBreaks
<1>5. CASE UNCHANGED vars
  BY <1>5 DEF vars, daemonVars
<1> QED  BY <1>1, <1>2, <1>3, <1>4, <1>5 DEF Next, Slots

\* Once an iperf was started, its end is for good: nothing starts it again.
Over == {"down", "none"}

LEMMA OverStays ==
  ASSUME DaemonsAssumption, IInv, AddInv, [Next]_vars
  PROVE  /\ launched \subseteq launched'
         /\ \A i \in Row, r \in Role :
              <<i, r>> \in launched /\ iperf[i][r] \in Over => iperf'[i][r] \in Over
<1>1. ASSUME NEW c \in Conn, Receive(c)
      PROVE  /\ launched \subseteq launched'
             /\ \A i \in Row, r \in Role :
                  <<i, r>> \in launched /\ iperf[i][r] \in Over => iperf'[i][r] \in Over
  <2>1. up[c] \in Seq(Commands) /\ up[c] # <<>>
    BY <1>1, QueueTypes DEF Receive
  <2>2. 1 \in 1..Len(up[c])
    BY <2>1
  <2>3. Head(up[c]).act = "ADD" => <<Head(up[c]).row, Head(up[c]).role>> \notin launched
    BY <1>1, <2>2, ReceiveFacts DEF AddInv, Unborn
  <2> QED  BY <1>1, <2>3, ReceiveFacts DEF Over
<1>2. ASSUME NEW j \in Row, NEW q \in Role, Launch(j, q) \/ Exit(j, q) \/ Stderr(j, q)
      PROVE  /\ launched \subseteq launched'
             /\ \A i \in Row, r \in Role :
                  <<i, r>> \in launched /\ iperf[i][r] \in Over => iperf'[i][r] \in Over
  BY <1>2, IperfFacts DEF Over
<1> QED  BY <1>1, <1>2, WhoMoves DEF Over

-----------------------------------------------------------------------------
(* Every pair gets its statuses in the order of the rows.                  *)
Connecting == {"idle", "open", "connect"}
Testing == {"startS", "waitS", "startC", "waitC", "main"}

AddedInv ==
  /\ pc \in Connecting =>
       /\ DOMAIN stat["C"] = 1..(at[1] - 1)
       /\ DOMAIN stat["S"] = IF at[2] = "S" THEN 1..(at[1] - 1) ELSE 1..at[1]
  /\ pc \in Testing /\ outcome = <<>> => \A r \in Role : DOMAIN stat[r] = Row

\* What is reported about a pair: a status is init again only after an end
\* without error.
LEMMA ReportFacts ==
  ASSUME DaemonsAssumption, IInv, NEW c \in Conn, OnReport(c)
  PROVE  /\ down[c] # <<>> /\ Head(down[c]) \in Reports
         /\ DOMAIN stat' = Role
         /\ \A r \in Role :
              /\ DOMAIN stat'[r] = DOMAIN stat[r]
              /\ \A i \in DOMAIN stat[r] :
                   /\ stat'[r][i] = Status.started =>
                        stat[r][i] = Status.started \/ <<i, r>> \in launched
                   /\ stat'[r][i] = Status.init =>
                        \/ stat[r][i] = Status.init
                        \/ /\ Head(down[c]).act = "stoped0"
                           /\ Head(down[c]).row = i /\ Head(down[c]).role = r
<1> DEFINE m == Head(down[c])
<1>1. down[c] # <<>> /\ m.act # "disconnected" /\ stat' = [r \in Role |-> StatusAfter(r, m)]
  BY DEF OnReport
<1>2. m \in SafeReports
  BY <1>1, QueueTail DEF IInv, QueueInv
<1> HIDE DEF m
<1>3. m \in Reports /\ m.act \in {"started", "restarted", "stoped0", "stoped1", "extend"}
  BY <1>1, <1>2 DEF SafeReports, Reports
<1>4. \A r \in Role :
        /\ DOMAIN stat'[r] = DOMAIN stat[r]
        /\ \A i \in DOMAIN stat[r] :
             stat'[r][i] = Status.started => stat[r][i] = Status.started \/ <<i, r>> \in launched
  BY <1>1, <1>2, StatusFacts
<1>5. ASSUME NEW r \in Role, NEW i \in DOMAIN stat[r], stat'[r][i] = 0
      PROVE  stat[r][i] = 0 \/ (m.act = "stoped0" /\ m.row = i /\ m.role = r)
  <2>1. StatusAfter(r, m)[i] = 0
    BY <1>1, <1>5
  <2>2. \/ StatusAfter(r, m) = stat[r]
        \/ /\ m.role = r
           /\ \E v \in {0, 1, 2, 3} : /\ StatusAfter(r, m) = MapInsert(stat[r], m.row, v)
                                      /\ v = 0 => m.act = "stoped0"
    <3>1. CASE m.role # r \/ m.act = "extend"
      BY <1>3, <3>1 DEF StatusAfter
    <3>2. CASE m.role = r /\ m.act = "started"
      BY <3>2 DEF StatusAfter, Status
    <3>3. CASE m.role = r /\ m.act = "restarted"
      BY <3>3 DEF StatusAfter, Status
    <3>4. CASE m.role = r /\ m.act = "stoped0"
      BY <3>4 DEF StatusAfter, Status
    <3>5. CASE m.role = r /\ m.act = "stoped1"
      BY <3>5 DEF StatusAfter, Status
    <3> QED  BY <1>3, <3>1, <3>2, <3>3, <3>4, <3>5
  <2>3. ASSUME NEW v \in {0, 1, 2, 3}
        PROVE  MapInsert(stat[r], m.row, v)[i] = IF i = m.row THEN v ELSE stat[r][i]
    BY DEF MapInsert
  <2>4. CASE StatusAfter(r, m) = stat[r]
    BY <2>1, <2>4
  <2>5. ASSUME NEW v \in {0, 1, 2, 3}, StatusAfter(r, m) = MapInsert(stat[r], m.row, v),
               m.role = r, v = 0 => m.act = "stoped0"
        PROVE  stat[r][i] = 0 \/ (m.act = "stoped0" /\ m.row = i /\ m.role = r)
    <3>1. (IF i = m.row THEN v ELSE stat[r][i]) = 0
      BY <2>1, <2>3, <2>5
    <3> QED  BY <2>5, <3>1
  <2>6. CASE /\ m.role = r
             /\ \E v \in {0, 1, 2, 3} : /\ StatusAfter(r, m) = MapInsert(stat[r], m.row, v)
                                        /\ v = 0 => m.act = "stoped0"
    <3>1. PICK v \in {0, 1, 2, 3} : /\ StatusAfter(r, m) = MapInsert(stat[r], m.row, v)
                                    /\ v = 0 => m.act = "stoped0"
      BY <2>6, Zenon
    <3> QED  BY <2>5, <2>6, <3>1, Zenon
  <2> QED  BY <2>2, <2>4, <2>6, Zenon
<1>6. \A r \in Role : \A i \in DOMAIN stat[r] :
        stat'[r][i] = Status.init =>
          stat[r][i] = Status.init \/ (m.act = "stoped0" /\ m.row = i /\ m.role = r)
  BY <1>5 DEF Status
<1> QED  BY <1>1, <1>3, <1>4, <1>6 DEF m

\* The statuses change when a pair is added and when something is reported.
LEMMA WhoCounts ==
  ASSUME [Next]_vars
  PROVE  AddIperf \/ stat' = stat \/ \E c \in Conn : OnReport(c) /\ pc' = pc
<1>1. CASE Begin \/ UserStops \/ OnSetStop
  BY <1>1 DEF Begin, UserStops, OnSetStop
<1>2. CASE Work
  BY <1>2 DEF Work, OpenWebSocket, ConnectFails, StartServers, ReadServer, ServersReady,
       ServersNotReady, StartClients, WaitClients, LeaveMain
<1>3. ASSUME NEW c \in Conn, Connected(c) \/ Refused(c) \/ OnReport(c) \/ OnDisconnected(c)
      PROVE  stat' = stat \/ (OnReport(c) /\ pc' = pc)
  BY <1>3 DEF Connected, Refused, OnReport, OnDisconnected, HostLeaves
<1>4. CASE DaemonStep /\ UNCHANGED workVars
  BY <1>4 DEF workVars
<1>5. CASE UNCHANGED vars
  BY <1>5 DEF vars, workVars
<1> QED  BY <1>1, <1>2, <1>3, <1>4, <1>5 DEF Next, Slots

\* What is told is never taken back, and "no error" is told once, by onStop.
LEMMA OutcomeFacts ==
  ASSUME IInv, [Next]_vars
  PROVE  /\ outcome' = <<>> => outcome = <<>>
         /\ outcome' = << 0 >> => outcome = << 0 >> \/ (outcome = <<>> /\ LeaveMain)
<1>0. outcome \in Seq(0..4)
  BY DEF IInv, WorkTypes
<1>1. \/ outcome' = outcome
      \/ \E errs \in {<< 1 >>, << 3 >>, << 4 >>, <<2, 3>>} : outcome' = outcome \o errs
      \/ LeaveMain /\ outcome' = outcome \o << 0 >>
  <2>1. CASE Begin \/ UserStops \/ OnSetStop
    BY <2>1 DEF Begin, UserStops, OnSetStop
  <2>2. CASE OpenWebSocket \/ AddIperf \/ ReadServer
    BY <2>2 DEF OpenWebSocket, AddIperf, ReadServer
  <2>3. CASE ConnectFails \/ ServersReady \/ ServersNotReady \/ WaitClients
    BY <2>3 DEF ConnectFails, ServersReady, ServersNotReady, WaitClients, Return, Tell
  <2>4. CASE StartServers \/ StartClients
    BY <2>4 DEF StartServers, StartClients, SendStart, Tell
  <2>5. CASE LeaveMain
    <3>1. Return(<< 0 >>)
      BY <2>5 DEF LeaveMain, OnStop
    <3>2. << 0 >> # <<>>
      OBVIOUS
    <3> QED  BY <2>5, <3>1, <3>2 DEF Return, Tell
  <2>6. ASSUME NEW c \in Conn, Connected(c) \/ Refused(c) \/ OnDisconnected(c)
        PROVE  outcome' = outcome
    BY <2>6 DEF Connected, Refused, OnDisconnected, HostLeaves
  <2>7. ASSUME NEW c \in Conn, OnReport(c)
        PROVE  outcome' = outcome \/ outcome' = outcome \o << 4 >>
    BY <2>7 DEF OnReport, Tell
  <2>8. CASE DaemonStep /\ UNCHANGED workVars
    BY <2>8 DEF workVars
  <2>9. CASE UNCHANGED vars
    BY <2>9 DEF vars, workVars
  <2> QED  BY <2>1, <2>2, <2>3, <2>4, <2>5, <2>6, <2>7, <2>8, <2>9 DEF Next, Slots, Work
<1>2. ASSUME NEW errs \in {<< 1 >>, << 3 >>, << 4 >>, <<2, 3>>}, outcome' = outcome \o errs
      PROVE  outcome' # <<>> /\ outcome' # << 0 >>
  <2>1. errs \in Seq(0..4) /\ Len(errs) \in 1..2 /\ errs[Len(errs)] # 0
    <3>1. CASE errs = <<2, 3>>
      BY <3>1
    <3>2. ASSUME NEW n \in {1, 3, 4}, errs = <<n>>
          PROVE  errs \in Seq(0..4) /\ Len(errs) \in 1..2 /\ errs[Len(errs)] # 0
      BY <3>2
    <3> QED  BY <1>2, <3>1, <3>2
  <2>2. /\ Len(outcome') = Len(outcome) + Len(errs)
        /\ outcome'[Len(outcome')] = errs[Len(errs)]
    BY <1>0, <1>2, <2>1
  <2>3. Len(outcome) \in Nat
    BY <1>0
  <2>4. Len(outcome') > 0
    BY <2>1, <2>2, <2>3
  <2>5. Len(<< 0 >>) = 1 /\ << 0 >>[1] = 0 /\ Len(<<>>) = 0
    OBVIOUS
  <2> QED  BY <2>1, <2>2, <2>4, <2>5
<1>3. ASSUME outcome' = outcome \o << 0 >>
      PROVE  outcome' # <<>> /\ (outcome' = << 0 >> => outcome = <<>>)
  BY <1>0, <1>3
<1> QED  BY <1>1, <1>2, <1>3

LEMMA InitAdded == DaemonsAssumption /\ Init => AddedInv /\ AddInv
<1> SUFFICES ASSUME DaemonsAssumption, Init PROVE AddedInv /\ AddInv
  OBVIOUS
<1>1. stat["S"] = EmptyMap /\ stat["C"] = EmptyMap /\ at[1] = 1 /\ at[2] = "S" /\ pc = "idle"
  BY DEF Init, Role
<1>2. AddedInv
  <2>1. DOMAIN EmptyMap = {} /\ 1..(1 - 1) = {}
    BY DEF EmptyMap
  <2> QED  BY <1>1, <2>1 DEF AddedInv, Testing
<1>3. AddInv
  BY DEF Init, DaemonsInit, AddInv
<1> QED  BY <1>2, <1>3

LEMMA NextAdded ==
  ASSUME DaemonsAssumption, IInv, AddedInv, [Next]_vars
  PROVE  AddedInv'
<1>0. /\ outcome' = <<>> => outcome = <<>>
      /\ outcome \in Seq(0..4) /\ at[1] \in Row /\ at[2] \in Role /\ Len(Rows) \in Nat /\ Row = 1..Len(Rows)
  BY OutcomeFacts, RowFinite DEF IInv, WorkTypes, Row
<1>1. ASSUME \A r \in Role : DOMAIN stat'[r] = DOMAIN stat[r], UNCHANGED at,
             pc' \in Connecting => pc \in Connecting,
             pc' \in Testing /\ outcome' = <<>> => pc \in Testing
      PROVE  AddedInv'
  BY <1>0, <1>1 DEF AddedInv, Role
<1>2. CASE AddIperf
  <2>1. /\ pc = "connect" /\ outcome' = outcome
        /\ stat' = [stat EXCEPT ![at[2]] = MapInsert(@, at[1], Status.init)]
        /\ \/ at[2] = "S" /\ at' = <<at[1], "C">> /\ pc' = "open"
           \/ at[2] = "C" /\ at[1] < Len(Rows) /\ at' = <<at[1] + 1, "S">> /\ pc' = "open"
           \/ at[2] = "C" /\ at[1] = Len(Rows) /\ pc' = "startS" /\ UNCHANGED at
    BY <1>2 DEF AddIperf
  <2>2. DOMAIN stat = Role
    BY DEF IInv, StatTypes
  <2>3. /\ DOMAIN stat'[at[2]] = DOMAIN stat[at[2]] \cup {at[1]}
        /\ \A r \in Role : r # at[2] => stat'[r] = stat[r]
    BY <1>0, <2>1, <2>2 DEF MapInsert
  <2>4. /\ DOMAIN stat["C"] = 1..(at[1] - 1)
        /\ DOMAIN stat["S"] = IF at[2] = "S" THEN 1..(at[1] - 1) ELSE 1..at[1]
    BY <2>1 DEF AddedInv, Connecting
  <2>5. 1..(at[1] - 1) \cup {at[1]} = 1..at[1]
    BY <1>0
  <2>6. CASE at[2] = "S" /\ at' = <<at[1], "C">> /\ pc' = "open"
    BY <2>3, <2>4, <2>5, <2>6 DEF AddedInv, Testing, Role
  <2>7. CASE at[2] = "C" /\ at[1] < Len(Rows) /\ at' = <<at[1] + 1, "S">> /\ pc' = "open"
    <3>1. (at[1] + 1) - 1 = at[1]
      BY <1>0
    <3>2. at'[1] - 1 = at[1] /\ at'[2] = "S"
      BY <2>7, <3>1
    <3> QED  BY <2>3, <2>4, <2>5, <2>7, <3>2 DEF AddedInv, Testing, Role
  <2>8. CASE at[2] = "C" /\ at[1] = Len(Rows) /\ pc' = "startS" /\ UNCHANGED at
    <3>1. DOMAIN stat'["C"] = Row /\ DOMAIN stat'["S"] = Row
      BY <1>0, <2>3, <2>4, <2>5, <2>8 DEF Role
    <3> QED  BY <2>8, <3>1 DEF AddedInv, Connecting, Role
  <2> QED  BY <2>1, <2>6, <2>7, <2>8
<1>3. ASSUME NEW c \in Conn, OnReport(c), pc' = pc
      PROVE  AddedInv'
  <2>1. UNCHANGED at /\ \A r \in Role : DOMAIN stat'[r] = DOMAIN stat[r]
    BY <1>3, ReportFacts DEF OnReport
  <2>2. pc' \in Testing /\ outcome' = <<>> => pc \in Testing
    BY <1>3
  <2>3. pc' \in Connecting => pc \in Connecting
    BY <1>3
  <2> QED  BY <1>1, <2>1, <2>2, <2>3
<1>4. CASE stat' = stat /\ ~AddIperf
  <2>1. /\ UNCHANGED at
        /\ pc' \in Connecting => pc \in Connecting
        /\ pc' \in Testing => pc \in Testing \/ outcome' = outcome \o << 1 >>
    <3>1. CASE Begin \/ UserStops \/ OnSetStop
      BY <3>1 DEF Begin, UserStops, OnSetStop, Connecting, Testing
    <3>2. CASE OpenWebSocket \/ ConnectFails
      BY <3>2 DEF OpenWebSocket, ConnectFails, Return, Tell, Connecting, Testing
    <3>3. CASE StartServers \/ ReadServer \/ StartClients
      BY <3>3 DEF StartServers, ReadServer, StartClients, Connecting, Testing
    <3>4. CASE ServersReady \/ ServersNotReady \/ WaitClients
      BY <3>4 DEF ServersReady, ServersNotReady, WaitClients, Return, Connecting, Testing
    <3>5. CASE LeaveMain
      BY <3>5 DEF LeaveMain, OnStop, Return, Connecting, Testing
    <3>6. ASSUME NEW c \in Conn, Connected(c) \/ Refused(c) \/ OnReport(c) \/ OnDisconnected(c)
          PROVE  UNCHANGED <<at, pc>>
      BY <3>6 DEF Connected, Refused, OnReport, OnDisconnected, HostLeaves
    <3>7. CASE DaemonStep /\ UNCHANGED workVars
      BY <3>7 DEF workVars
    <3>8. CASE UNCHANGED vars
      BY <3>8 DEF vars, workVars
    <3> QED  BY <1>4, <3>1, <3>2, <3>3, <3>4, <3>5, <3>6, <3>7, <3>8 DEF Next, Slots, Work
  <2>2. outcome \o << 1 >> # <<>>
    BY <1>0
  <2> QED  BY <1>1, <1>4, <2>1, <2>2
<1> QED  BY <1>2, <1>3, <1>4, WhoCounts

\* A pair is added when it has no status yet: nobody has heard of it.
LEMMA NextAdd ==
  ASSUME DaemonsAssumption, IInv, AddedInv, AddInv, [Next]_vars
  PROVE  AddInv'
<1>0. /\ up \in [Conn -> Seq(Commands)] /\ \A c \in Conn : up[c] \in Seq(Commands)
      /\ WorkTypes /\ StatTypes /\ IperfInv
  BY QueueTypes DEF IInv, SafeInv
<1>1. ASSUME UNCHANGED <<iperf, launched>>,
             \A c \in Conn :
               \/ up'[c] = up[c] \/ up'[c] = <<>> \/ (up[c] # <<>> /\ up'[c] = Tail(up[c]))
               \/ \E ms \in Seq(Commands) : /\ \A k \in 1..Len(ms) : ms[k].act # "ADD"
                                            /\ up'[c] = up[c] \o ms
      PROVE  AddInv'
  <2>1. \A c \in Conn : \A k \in 1..Len(up'[c]) :
          up'[c][k].act = "ADD" /\ Unborn(up'[c][k]) =>
            /\ iperf'[up'[c][k].row][up'[c][k].role] = "none"
            /\ <<up'[c][k].row, up'[c][k].role>> \notin launched'
    BY <1>1 DEF Unborn
  <2> QED  BY <1>0, <1>1, <2>1, AddKeeps
<1>2. ASSUME UNCHANGED <<iperf, launched>>, NEW S, NEW ms \in Seq(Commands),
             \A k \in 1..Len(ms) : ms[k].act # "ADD", SendTo(S, ms)
      PROVE  AddInv'
  <2>1. \A c \in Conn : up'[c] = up[c] \/ up'[c] = up[c] \o ms
    BY <1>2 DEF SendTo
  <2> QED  BY <1>1, <1>2, <2>1
<1>3. \A act \in {"START", "STOP", "CLEAR", "RESTART"}, r \in Role, i \in Row \cup {0} :
        Command(act, r, i) \in Commands /\ Command(act, r, i).act # "ADD"
  BY DEF Command, Commands
<1>4. CASE AddIperf
  <2> DEFINE m == Command("ADD", at[2], at[1])
  <2>1. /\ pc = "connect" /\ UNCHANGED <<iperf, launched>>
        /\ SendTo({Here}, <<m>>)
    BY <1>4 DEF AddIperf
  <2>2. at[1] \in Row /\ at[2] \in Role /\ Here \in Conn
    BY <1>0, HereIsConn
  <2>3. at[1] \notin DOMAIN stat[at[2]]
    <3>1. at[1] \in Int
      BY <2>2 DEF Row
    <3> QED  BY <2>1, <2>2, <3>1 DEF AddedInv, Connecting, Role
  <2>4. m \in Commands /\ m.act = "ADD" /\ m.row = at[1] /\ m.role = at[2]
    BY <2>2 DEF Command, Commands
  <2>5. Unborn(m)
    BY <1>0, <2>2, <2>3, <2>4 DEF IperfInv, Unborn
  <2> HIDE DEF m
  <2>6. \A c \in Conn : up'[c] = up[c] \/ (c = Here /\ up'[c] = up[c] \o <<m>>)
    BY <2>1 DEF SendTo
  <2>7. \A c \in Conn : \A k \in 1..Len(up[c]) : up[c][k] # m
    BY <2>3, <2>4, AddIsRow
  <2> SUFFICES ASSUME NEW c \in Conn, NEW k \in 1..Len(up'[c]), up'[c][k].act = "ADD"
               PROVE  /\ c = <<up'[c][k].role, Rows[up'[c][k].row][up'[c][k].role]>>
                      /\ Unborn(up'[c][k])
                      /\ \A j \in 1..Len(up'[c]) : up'[c][j] = up'[c][k] => j = k
    BY <2>1 DEF AddInv, Unborn
  <2>8. CASE up'[c] = up[c]
    BY <2>8 DEF AddInv
  <2>9. CASE c = Here /\ up'[c] = up[c] \o <<m>>
    <3>1. /\ Len(up'[c]) = Len(up[c]) + 1 /\ up'[c][Len(up[c]) + 1] = m
          /\ \A j \in 1..Len(up[c]) : up'[c][j] = up[c][j]
          /\ \A j \in 1..Len(up'[c]) : j \in 1..Len(up[c]) \/ j = Len(up[c]) + 1
      BY <1>0, <2>4, <2>9
    <3>2. CASE k \in 1..Len(up[c])
      BY <2>7, <3>1, <3>2, SMTT(30) DEF AddInv
    <3>3. CASE k = Len(up[c]) + 1
      <4>1. up'[c][k] = m
        BY <3>1, <3>3
      <4>2. c = <<m.role, Rows[m.row][m.role]>>
        BY <2>4, <2>9 DEF Here
      <4> QED  BY <2>5, <2>7, <3>1, <3>3, <4>1, <4>2
    <3> QED  BY <3>1, <3>2, <3>3
  <2> QED  BY <2>6, <2>8, <2>9
<1>5. CASE OpenWebSocket
  <2>1. /\ UNCHANGED <<iperf, launched>>
        /\ up' = up \/ up' = [up EXCEPT ![Here] = <<>>]
    BY <1>5 DEF OpenWebSocket
  <2> QED  BY <1>0, <1>1, <2>1
<1>6. CASE StartServers \/ StartClients
  <2>1. UNCHANGED <<iperf, launched>> /\ \E S : \E r \in Role : SendTo(S, <<Command("START", r, 0)>>)
    BY <1>6 DEF StartServers, StartClients, SendStart, Role
  <2>2. PICK S : \E r \in Role : SendTo(S, <<Command("START", r, 0)>>)
    BY <2>1
  <2>3. PICK r \in Role : SendTo(S, <<Command("START", r, 0)>>)
    BY <2>2
  <2>4. /\ <<Command("START", r, 0)>> \in Seq(Commands)
        /\ \A k \in 1..Len(<<Command("START", r, 0)>>) : <<Command("START", r, 0)>>[k].act # "ADD"
    BY <1>3
  <2> QED  BY <1>2, <2>1, <2>4, <2>3
<1>7. CASE LeaveMain
  <2>1. UNCHANGED <<iperf, launched>> /\ \E S : SendTo(S, HaltCommands)
    BY <1>7 DEF LeaveMain, OnStop
  <2>2. /\ HaltCommands \in Seq(Commands)
        /\ \A k \in 1..Len(HaltCommands) : HaltCommands[k].act # "ADD"
    BY <1>3 DEF HaltCommands, Role
  <2> QED  BY <1>2, <2>1, <2>2
<1>8. ASSUME NEW c \in Conn, OnReport(c)
      PROVE  AddInv'
  <2>1. UNCHANGED <<iperf, launched>>
    BY <1>8 DEF OnReport
  <2>2. up' = up \/ \E S : SendTo(S, <<Command("RESTART", "S", Head(down[c]).row)>>)
    BY <1>8 DEF OnReport
  <2>3. Head(down[c]) \in Reports
    BY <1>8, ReportFacts
  <2>4. Head(down[c]).row \in Row \cup {0} /\ "S" \in Role
    BY <2>3 DEF Reports, Role
  <2> DEFINE m == Command("RESTART", "S", Head(down[c]).row)
  <2>5. m \in Commands /\ m.act # "ADD"
    BY <1>3, <2>4
  <2>6. up' = up \/ \E S : SendTo(S, <<m>>)
    BY <2>2
  <2> HIDE DEF m
  <2>7. <<m>> \in Seq(Commands) /\ \A k \in 1..Len(<<m>>) : <<m>>[k].act # "ADD"
    BY <2>5
  <2> QED  BY <1>1, <1>2, <2>1, <2>6, <2>7
<1>9. CASE UNCHANGED <<iperf, launched, up>>
  BY <1>1, <1>9
<1>10. ASSUME NEW c \in Conn, LinkBreaks(c)
       PROVE  AddInv'
  <2>1. UNCHANGED <<iperf, launched>> /\ up' = [up EXCEPT ![c] = <<>>]
    BY <1>10 DEF LinkBreaks
  <2> QED  BY <1>0, <1>1, <2>1
<1>11. ASSUME NEW i \in Row, NEW r \in Role, Launch(i, r) \/ Exit(i, r) \/ Stderr(i, r)
       PROVE  AddInv'
  <2>1. /\ up' = up /\ launched' \subseteq launched \cup {<<i, r>>}
        /\ iperf[i][r] # "none"
        /\ \A j \in Row, q \in Role : <<j, q>> # <<i, r>> => iperf'[j][q] = iperf[j][q]
    BY <1>11, IperfFacts
  <2>2. \A d \in Conn : \A k \in 1..Len(up'[d]) :
          up'[d][k].act = "ADD" /\ Unborn(up'[d][k]) =>
            /\ iperf'[up'[d][k].row][up'[d][k].role] = "none"
            /\ <<up'[d][k].row, up'[d][k].role>> \notin launched'
    BY <2>1, AddIsRow, SMTT(30) DEF Unborn
  <2> QED  BY <1>0, <2>1, <2>2, AddKeeps
<1>12. ASSUME NEW c \in Conn, Receive(c)
       PROVE  AddInv'
  <2>1. up[c] # <<>> /\ up' = [up EXCEPT ![c] = Tail(@)]
    BY <1>12 DEF Receive
  <2>2. \A d \in Conn : up'[d] = up[d] \/ (d = c /\ up'[d] = Tail(up[d]))
    BY <1>0, <2>1
  <2> DEFINE m == Head(up[c])
  <2>3. /\ m \in Commands /\ m = up[c][1] /\ launched' = launched
        /\ \A i \in Row, r \in Role :
             iperf[i][r] = "none" => iperf'[i][r] = "none" \/ (m.act = "ADD" /\ i = m.row /\ r = m.role)
    BY <1>12, ReceiveFacts
  <2> HIDE DEF m
  <2>4. ASSUME NEW d \in Conn, NEW k \in 1..Len(up'[d]), up'[d][k].act = "ADD"
        PROVE  /\ up'[d][k].row \in Row /\ up'[d][k].role \in Role
               /\ ~(m.act = "ADD" /\ up'[d][k].row = m.row /\ up'[d][k].role = m.role)
    <3>1. PICK j \in 1..Len(up[d]) : up[d][j] = up'[d][k] /\ (d = c => j # 1)
      <4>1. CASE up'[d] = up[d] /\ d # c
        BY <4>1
      <4>2. CASE d = c /\ up'[d] = Tail(up[d])
        <5>1. k + 1 \in 1..Len(up[d]) /\ up[d][k + 1] = up'[d][k] /\ k + 1 # 1
          BY <1>0, <2>1, <4>2
        <5> QED  BY <5>1
      <4> QED  BY <1>0, <2>1, <4>1, <4>2
    <3>2. up[d][j].act = "ADD"
      BY <2>4, <3>1
    <3>3. up[d][j].row \in Row /\ up[d][j].role \in Role
      BY <3>2, AddIsRow
    <3>4. SUFFICES ASSUME m.act = "ADD", up[d][j].row = m.row, up[d][j].role = m.role PROVE FALSE
      BY <3>1, <3>3
    <3>5. up[d][j] \in Commands
      BY <1>0
    <3>6. up[d][j] = m
      BY <2>3, <3>2, <3>4, <3>5 DEF Commands
    <3>7. 1 \in 1..Len(up[c])
      BY <1>0, <2>1
    <3>8. d = c
      BY <2>3, <3>2, <3>4, <3>6, <3>7 DEF AddInv
    <3> QED  BY <2>3, <3>1, <3>2, <3>6, <3>7, <3>8 DEF AddInv
  <2>5. \A d \in Conn : \A k \in 1..Len(up'[d]) :
          up'[d][k].act = "ADD" /\ Unborn(up'[d][k]) =>
            /\ iperf'[up'[d][k].row][up'[d][k].role] = "none"
            /\ <<up'[d][k].row, up'[d][k].role>> \notin launched'
    BY <2>3, <2>4 DEF Unborn
  <2> QED  BY <1>0, <2>1, <2>2, <2>5, AddKeeps
<1>13. CASE Begin \/ UserStops \/ OnSetStop \/ ConnectFails \/ ReadServer \/ ServersReady
             \/ ServersNotReady \/ WaitClients
  BY <1>9, <1>13 DEF Begin, UserStops, OnSetStop, ConnectFails, ReadServer, ServersReady,
       ServersNotReady, WaitClients, daemonVars
<1>14. ASSUME NEW c \in Conn, Connected(c) \/ Refused(c) \/ OnDisconnected(c)
       PROVE  AddInv'
  BY <1>9, <1>14 DEF Connected, Refused, OnDisconnected, HostLeaves
<1>15. CASE UNCHANGED vars
  BY <1>9, <1>15 DEF vars, daemonVars
<1>16. CASE Work
  BY <1>4, <1>5, <1>6, <1>7, <1>13, <1>16 DEF Work
<1>17. CASE Slots
  BY <1>8, <1>13, <1>14, <1>17 DEF Slots
<1>18. CASE DaemonStep
  BY <1>10, <1>11, <1>12, <1>18 DEF DaemonStep
<1> QED  BY <1>13, <1>15, <1>16, <1>17, <1>18 DEF Next

-----------------------------------------------------------------------------
(* The reports that an iperf ended.                                        *)
\* An end without error is reported when it is for good, and nobody is
\* disconnected while no connection breaks.
TrueReports ==
  {m \in Reports :
     /\ m.act = "stoped0" => <<m.row, m.role>> \in launched /\ iperf[m.row][m.role] \in Over
     /\ m.act = "disconnected" => faults > 0}

\* A process that runs was launched.
UpInv == \A i \in Row, r \in Role : iperf[i][r] = "up" => <<i, r>> \in launched

ReportInv == UpInv /\ down \in [Conn -> Seq(TrueReports)]

LEMMA NextUp ==
  ASSUME DaemonsAssumption, IInv, UpInv, [Next]_vars
  PROVE  UpInv'
<1>1. ASSUME NEW c \in Conn, Receive(c)
      PROVE  UpInv'
  <2>0. DaemonTypes /\ up[c] # <<>> /\ up[c] \in Seq(Commands) /\ UNCHANGED launched
    BY <1>1, QueueTypes DEF IInv, Receive
  <2> DEFINE m == Head(up[c])
             h == c[2]
  <2>1. m \in Commands /\ m = up[c][1] /\ 1 \in 1..Len(up[c])
    BY <2>0
  <2>2. m.act = "ADD" => m.row \in Row /\ m.role \in Role
    BY <2>1, AddIsRow
  <2>3. m.act \in {"ADD", "START", "STOP", "CLEAR", "RESTART"}
    BY <2>1 DEF Commands
  <2>4. \/ m.act = "ADD" /\ iperf' = [iperf EXCEPT ![m.row][m.role] = "added"]
        \/ iperf' = iperf
        \/ \E S, from : \E to \in {"starting", "restarting", "none"} : iperf' = Move(S, from, to)
    <3>1. CASE m.act = "ADD"
      BY <1>1, <3>1 DEF Receive
    <3>2. CASE m.act = "STOP"
      BY <1>1, <3>2 DEF Receive
    <3>3. CASE m.act = "START"
      BY <1>1, <3>3 DEF Receive
    <3>4. CASE m.act = "RESTART"
      BY <1>1, <3>4 DEF Receive
    <3>5. CASE m.act = "CLEAR"
      BY <1>1, <3>5 DEF Receive
    <3> QED  BY <2>3, <3>1, <3>2, <3>3, <3>4, <3>5
  <2> HIDE DEF m, h
  <2>5. \A i \in Row, r \in Role : iperf'[i][r] = "up" => iperf[i][r] = "up"
    <3>1. CASE m.act = "ADD" /\ iperf' = [iperf EXCEPT ![m.row][m.role] = "added"]
      BY <2>0, <2>2, <3>1 DEF DaemonTypes
    <3>2. ASSUME NEW S, NEW from, NEW to \in {"starting", "restarting", "none"},
                 iperf' = Move(S, from, to)
          PROVE  \A i \in Row, r \in Role : iperf'[i][r] = "up" => iperf[i][r] = "up"
      <4>1. /\ Move(S, from, to) \in [Row -> [Role -> IperfState]]
            /\ \A i \in Row, r \in Role :
                 Move(S, from, to)[i][r] =
                   IF <<i, r>> \in S /\ iperf[i][r] \in from THEN to ELSE iperf[i][r]
        BY <2>0, MoveFacts DEF IperfState
      <4> QED  BY <3>2, <4>1
    <3> QED  BY <2>4, <3>1, <3>2
  <2> QED  BY <2>0, <2>5 DEF UpInv
<1>2. ASSUME NEW i \in Row, NEW r \in Role, Launch(i, r) \/ Exit(i, r) \/ Stderr(i, r)
      PROVE  UpInv'
  <2>1. /\ launched \subseteq launched'
        /\ \A j \in Row, q \in Role : <<j, q>> # <<i, r>> => iperf'[j][q] = iperf[j][q]
    BY <1>2, IperfFacts
  <2>2. iperf'[i][r] = "up" => <<i, r>> \in launched'
    <3>0. DaemonTypes
      BY DEF IInv
    <3>1. CASE Launch(i, r)
      BY <3>0, <3>1 DEF Launch, DaemonTypes
    <3>2. CASE Exit(i, r)
      BY <3>0, <3>2 DEF Exit, DaemonTypes
    <3>3. CASE Stderr(i, r)
      BY <3>3 DEF Stderr, UpInv
    <3> QED  BY <1>2, <3>1, <3>2, <3>3
  <2> QED  BY <2>1, <2>2 DEF UpInv
<1> QED  BY <1>1, <1>2, WhoMoves DEF UpInv

LEMMA NextReports ==
  ASSUME DaemonsAssumption, IInv, AddInv, ReportInv, [Next]_vars
  PROVE  ReportInv'
<1>0. /\ DaemonTypes /\ WorkTypes /\ UpInv /\ down \in [Conn -> Seq(TrueReports)]
      /\ \A c \in Conn : down[c] \in Seq(TrueReports)
  BY DEF IInv, ReportInv
<1> SUFFICES down' \in [Conn -> Seq(TrueReports')]
  BY <1>0, NextUp DEF ReportInv
<1>1. /\ launched \subseteq launched'
      /\ \A i \in Row, r \in Role :
           <<i, r>> \in launched /\ iperf[i][r] \in Over => iperf'[i][r] \in Over
  BY OverStays
<1>2. ASSUME faults' = faults \/ faults' = faults + 1 PROVE TrueReports \subseteq TrueReports'
  <2>1. faults > 0 => faults' > 0
    BY <1>0, <1>2 DEF DaemonTypes
  <2>2. \A m \in Reports : <<m.row, m.role>> \in launched => m.row \in Row /\ m.role \in Role
    BY <1>0 DEF DaemonTypes
  <2> QED  BY <1>1, <2>1, <2>2 DEF TrueReports
<1>3. ASSUME faults' = faults, down' \in [Conn -> Seq(TrueReports)]
      PROVE  down' \in [Conn -> Seq(TrueReports')]
  BY <1>2, <1>3, QueueMono
<1>4. ASSUME faults' = faults, down' = down
      PROVE  down' \in [Conn -> Seq(TrueReports')]
  BY <1>0, <1>3, <1>4
<1>5. ASSUME faults' = faults, NEW c \in Conn, down[c] # <<>>, down' = [down EXCEPT ![c] = Tail(@)]
      PROVE  down' \in [Conn -> Seq(TrueReports')]
  <2>1. down' \in [Conn -> Seq(TrueReports)]
    BY <1>0, <1>5, QueueTail
  <2> QED  BY <1>3, <1>5, <2>1
<1>6. ASSUME NEW i \in Row, NEW r \in Role, Launch(i, r) \/ Exit(i, r) \/ Stderr(i, r)
      PROVE  down' \in [Conn -> Seq(TrueReports')]
  <2>1. faults' = faults
    BY <1>6, IperfFacts
  <2>2. down \in [Conn -> Seq(TrueReports')]
    BY <1>0, <1>2, <2>1, QueueMono
  <2>3. \A act \in {"started", "restarted", "stoped1", "extend"} : Report(act, r, i) \in TrueReports'
    BY DEF Report, Reports, TrueReports
  <2>4. \/ down' = down
        \/ \E act \in {"started", "restarted", "stoped1", "extend"} :
             down' = Broadcast(Rows[i][r], <<Report(act, r, i)>>)
        \/ down' = Broadcast(Rows[i][r], <<Report("restarted", r, i), Report("started", r, i)>>)
        \/ /\ down' = Broadcast(Rows[i][r], <<Report("stoped0", r, i)>>)
           /\ iperf[i][r] = "up" /\ iperf' = [iperf EXCEPT ![i][r] = "down"] /\ launched' = launched
    <3>1. CASE Launch(i, r)
      BY <3>1 DEF Launch
    <3>2. CASE Exit(i, r)
      BY <3>2 DEF Exit
    <3>3. CASE Stderr(i, r)
      BY <3>3 DEF Stderr
    <3> QED  BY <1>6, <3>1, <3>2, <3>3
  <2>5. CASE down' = down
    BY <2>2, <2>5
  <2>6. ASSUME NEW act \in {"started", "restarted", "stoped1", "extend"},
               down' = Broadcast(Rows[i][r], <<Report(act, r, i)>>)
        PROVE  down' \in [Conn -> Seq(TrueReports')]
    <3>1. <<Report(act, r, i)>> \in Seq(TrueReports')
      BY <2>3
    <3> QED  BY <2>2, <2>6, <3>1, BroadcastKeeps
  <2>7. CASE down' = Broadcast(Rows[i][r], <<Report("restarted", r, i), Report("started", r, i)>>)
    <3>1. <<Report("restarted", r, i), Report("started", r, i)>> \in Seq(TrueReports')
      BY <2>3
    <3> QED  BY <2>2, <2>7, <3>1, BroadcastKeeps
  <2>8. CASE /\ down' = Broadcast(Rows[i][r], <<Report("stoped0", r, i)>>)
             /\ iperf[i][r] = "up" /\ iperf' = [iperf EXCEPT ![i][r] = "down"] /\ launched' = launched
    <3>1. <<i, r>> \in launched' /\ iperf'[i][r] = "down"
      BY <1>0, <2>8 DEF UpInv, DaemonTypes
    <3>2. Report("stoped0", r, i) \in TrueReports'
      BY <3>1 DEF Report, Reports, TrueReports, Over
    <3>3. <<Report("stoped0", r, i)>> \in Seq(TrueReports')
      BY <3>2
    <3> QED  BY <2>2, <2>8, <3>3, BroadcastKeeps
  <2> QED  BY <2>4, <2>5, <2>6, <2>7, <2>8
<1>7. ASSUME NEW c \in Conn, LinkBreaks(c)
      PROVE  down' \in [Conn -> Seq(TrueReports')]
  <2>1. faults' = faults + 1 /\ down' = [down EXCEPT ![c] = Append(@, Report("disconnected", c[1], 0))]
    BY <1>7 DEF LinkBreaks
  <2>2. down \in [Conn -> Seq(TrueReports')]
    BY <1>0, <1>2, <2>1, QueueMono
  <2>3. faults' > 0 /\ c[1] \in Role
    BY <1>0, <2>1 DEF DaemonTypes, Conn
  <2>4. Report("disconnected", c[1], 0) \in TrueReports'
    BY <2>3 DEF Report, Reports, TrueReports
  <2>5. Append(down[c], Report("disconnected", c[1], 0)) \in Seq(TrueReports')
    BY <2>2, <2>4
  <2> QED  BY <2>1, <2>2, <2>5
<1>8. ASSUME NEW c \in Conn, Receive(c)
      PROVE  down' \in [Conn -> Seq(TrueReports')]
  BY <1>4, <1>8 DEF Receive
<1>9. CASE OpenWebSocket
  <2>1. faults' = faults /\ (down' = down \/ down' = [down EXCEPT ![Here] = <<>>])
    BY <1>9 DEF OpenWebSocket
  <2>2. [down EXCEPT ![Here] = <<>>] \in [Conn -> Seq(TrueReports)]
    <3>1. <<>> \in Seq(TrueReports)
      OBVIOUS
    <3> QED  BY <1>0, <3>1
  <2> QED  BY <1>3, <1>4, <2>1, <2>2
<1>10. CASE LeaveMain
  <2>1. faults' = faults /\ \E S : down' = [c \in Conn |-> IF c \in S THEN <<>> ELSE down[c]]
    BY <1>10 DEF LeaveMain, OnStop
  <2>2. <<>> \in Seq(TrueReports)
    OBVIOUS
  <2>3. down' \in [Conn -> Seq(TrueReports)]
    BY <1>0, <2>1, <2>2
  <2> QED  BY <1>3, <2>1, <2>3
<1>11. ASSUME NEW c \in Conn, Connected(c) \/ Refused(c) \/ OnReport(c) \/ OnDisconnected(c)
       PROVE  down' \in [Conn -> Seq(TrueReports')]
  <2>1. faults' = faults /\ (down' = down \/ (down[c] # <<>> /\ down' = [down EXCEPT ![c] = Tail(@)]))
    BY <1>11 DEF Connected, Refused, OnReport, OnDisconnected, HostLeaves
  <2> QED  BY <1>4, <1>5, <2>1
<1>12. CASE Begin \/ UserStops \/ OnSetStop \/ AddIperf \/ ConnectFails \/ StartServers
             \/ ReadServer \/ ServersReady \/ ServersNotReady \/ StartClients \/ WaitClients
  BY <1>4, <1>12 DEF Begin, UserStops, OnSetStop, AddIperf, ConnectFails, StartServers,
       ReadServer, ServersReady, ServersNotReady, StartClients, WaitClients, daemonVars
<1>13. CASE UNCHANGED vars
  BY <1>4, <1>13 DEF vars, daemonVars
<1>14. CASE Work
  BY <1>9, <1>10, <1>12, <1>14 DEF Work
<1>15. CASE Slots
  BY <1>11, <1>12, <1>15 DEF Slots
<1>16. CASE DaemonStep
  BY <1>6, <1>7, <1>8, <1>16 DEF DaemonStep
<1> QED  BY <1>12, <1>13, <1>14, <1>15, <1>16 DEF Next

-----------------------------------------------------------------------------
(* The statuses that waitAllServerReady and waitAllClientReady have seen.  *)
\* The iperf was launched, and its status is init again only when it ended.
Counted(i, r) ==
  <<i, r>> \in launched /\ (stat[r][i] = Status.init => iperf[i][r] \in Over)

\* The servers that this pass has read and that were seen to be started.
ReadAndCounted == {i \in DOMAIN stat["S"] \ todo : Counted(i, "S")}

CountInv ==
  /\ \A r \in Role : \A i \in DOMAIN stat[r] : stat[r][i] = Status.started => <<i, r>> \in launched
  /\ pc = "waitS" => ready <= Cardinality(ReadAndCounted)
  /\ pc \in {"startC", "waitC", "main"} => \A i \in DOMAIN stat["S"] : Counted(i, "S")
  /\ pc = "main" => \A i \in DOMAIN stat["C"] : Counted(i, "C")

LEMMA InitCount == DaemonsAssumption /\ Init => ReportInv /\ CountInv
<1> SUFFICES ASSUME DaemonsAssumption, Init PROVE ReportInv /\ CountInv
  OBVIOUS
<1>1. pc = "idle" /\ \A r \in Role : stat[r] = EmptyMap /\ DOMAIN stat[r] = {}
  BY DEF Init, EmptyMap
<1>2. ReportInv
  BY DEF Init, DaemonsInit, ReportInv, UpInv
<1>3. CountInv
  BY <1>1 DEF CountInv
<1> QED  BY <1>2, <1>3

\* What AddIperf does to the statuses: the other pairs keep theirs.
LEMMA AddStatus ==
  ASSUME DaemonsAssumption, IInv, AddedInv, AddIperf
  PROVE  /\ pc = "connect" /\ at[1] \in Row /\ at[2] \in Role /\ at[1] \notin DOMAIN stat[at[2]]
         /\ \A r \in Role : \A i \in DOMAIN stat'[r] :
              \/ i \in DOMAIN stat[r] /\ stat'[r][i] = stat[r][i]
              \/ i = at[1] /\ r = at[2] /\ stat'[r][i] = Status.init
         /\ \A r \in Role : \A i \in DOMAIN stat[r] :
              i \in DOMAIN stat'[r] /\ stat'[r][i] = stat[r][i]
<1>1. WorkTypes /\ StatTypes /\ pc = "connect"
  BY DEF IInv, AddIperf
<1>2. at[1] \in Row /\ at[2] \in Role
  BY <1>1, HereIsConn
<1>3. at[1] \notin DOMAIN stat[at[2]]
  <2>1. at[1] \in Int
    BY <1>2 DEF Row
  <2> QED  BY <1>1, <1>2, <2>1 DEF AddedInv, Connecting, Role
<1>4. \A r \in Role :
        stat'[r] = IF r = at[2] THEN MapInsert(stat[r], at[1], Status.init) ELSE stat[r]
  BY <1>1 DEF AddIperf, StatTypes
<1>5. \A r \in Role :
        /\ DOMAIN MapInsert(stat[r], at[1], Status.init) = DOMAIN stat[r] \cup {at[1]}
        /\ \A i \in DOMAIN stat[r] \cup {at[1]} :
             MapInsert(stat[r], at[1], Status.init)[i] =
               IF i = at[1] THEN Status.init ELSE stat[r][i]
  BY DEF MapInsert
<1>6. ASSUME NEW r \in Role
      PROVE  /\ \A i \in DOMAIN stat'[r] :
                  \/ i \in DOMAIN stat[r] /\ stat'[r][i] = stat[r][i]
                  \/ i = at[1] /\ r = at[2] /\ stat'[r][i] = Status.init
             /\ \A i \in DOMAIN stat[r] : i \in DOMAIN stat'[r] /\ stat'[r][i] = stat[r][i]
  <2>1. CASE r = at[2]
    <3>1. stat'[r] = MapInsert(stat[r], at[1], Status.init)
      BY <1>4, <2>1
    <3>2. /\ DOMAIN stat'[r] = DOMAIN stat[r] \cup {at[1]}
          /\ \A i \in DOMAIN stat[r] \cup {at[1]} :
               stat'[r][i] = IF i = at[1] THEN Status.init ELSE stat[r][i]
      BY <1>5, <3>1
    <3>3. at[1] \notin DOMAIN stat[r]
      BY <1>3, <2>1
    <3> QED  BY <2>1, <3>2, <3>3
  <2>2. CASE r # at[2]
    <3>1. stat'[r] = stat[r]
      BY <1>4, <2>2
    <3> QED  BY <3>1
  <2> QED  BY <2>1, <2>2
<1> QED  BY <1>1, <1>2, <1>3, <1>6

\* An iperf that was seen to be started stays so.
LEMMA CountedStays ==
  ASSUME DaemonsAssumption, IInv, AddedInv, AddInv, ReportInv, [Next]_vars
  PROVE  \A r \in Role : \A i \in DOMAIN stat[r] : Counted(i, r) => Counted(i, r)'
<1> SUFFICES ASSUME NEW r \in Role, NEW i \in DOMAIN stat[r], Counted(i, r)
             PROVE  Counted(i, r)'
  OBVIOUS
<1>1. i \in Row
  BY DEF IInv, StatTypes
<1>2. /\ <<i, r>> \in launched /\ <<i, r>> \in launched'
      /\ iperf[i][r] \in Over => iperf'[i][r] \in Over
  BY <1>1, OverStays DEF Counted
<1>3. stat'[r][i] = Status.init => stat[r][i] = Status.init \/ iperf[i][r] \in Over
  <2>1. CASE AddIperf
    BY <2>1, AddStatus
  <2>2. CASE stat' = stat
    BY <2>2
  <2>3. ASSUME NEW c \in Conn, OnReport(c)
        PROVE  stat'[r][i] = Status.init => stat[r][i] = Status.init \/ iperf[i][r] \in Over
    <3>1. down[c] # <<>> /\ down[c] \in Seq(TrueReports)
      BY <2>3, ReportFacts DEF ReportInv
    <3>2. Head(down[c]) \in TrueReports
      BY <3>1, SeqFacts
    <3>3. Head(down[c]).act = "stoped0" => iperf[Head(down[c]).row][Head(down[c]).role] \in Over
      BY <3>2 DEF TrueReports
    <3>4. stat'[r][i] = Status.init =>
            \/ stat[r][i] = Status.init
            \/ /\ Head(down[c]).act = "stoped0"
               /\ Head(down[c]).row = i /\ Head(down[c]).role = r
      <4>1. /\ down[c] # <<>> /\ Head(down[c]) \in Reports
            /\ DOMAIN stat' = Role
            /\ \A q \in Role :
                 /\ DOMAIN stat'[q] = DOMAIN stat[q]
                 /\ \A j \in DOMAIN stat[q] :
                      /\ stat'[q][j] = Status.started =>
                           stat[q][j] = Status.started \/ <<j, q>> \in launched
                      /\ stat'[q][j] = Status.init =>
                           \/ stat[q][j] = Status.init
                           \/ /\ Head(down[c]).act = "stoped0"
                              /\ Head(down[c]).row = j /\ Head(down[c]).role = q
        BY <2>3, ReportFacts
      <4> QED  BY <4>1
    <3> QED  BY <3>3, <3>4
  <2> QED  BY <2>1, <2>2, <2>3, WhoCounts
<1> QED  BY <1>2, <1>3 DEF Counted

\* The same servers, or more of them, were read and counted.
LEMMA CountGrows ==
  ASSUME DaemonsAssumption, IInv, StatTypes', ready \in Nat, ready <= Cardinality(ReadAndCounted),
         ReadAndCounted \subseteq ReadAndCounted', ready' = ready
  PROVE  ready' <= Cardinality(ReadAndCounted')
<1>1. ReadAndCounted' \in SUBSET Row /\ ReadAndCounted \in SUBSET Row
  BY DEF ReadAndCounted, IInv, StatTypes, Role
<1>2. IsFiniteSet(ReadAndCounted') /\ Cardinality(ReadAndCounted') \in Nat /\ Cardinality(ReadAndCounted) \in Nat
  BY <1>1, RowFinite
<1>3. Cardinality(ReadAndCounted) <= Cardinality(ReadAndCounted')
  BY <1>2, FS_Subset
<1> QED  BY <1>2, <1>3

\* A pass that is over and found enough servers has counted all of them.
LEMMA EnoughAreCounted ==
  ASSUME DaemonsAssumption, IInv, CountInv, pc = "waitS", EnoughServers
  PROVE  \A i \in DOMAIN stat["S"] : Counted(i, "S")
<1> DEFINE D == DOMAIN stat["S"]
<1>1. D \in SUBSET Row /\ ReadAndCounted \in SUBSET D
  BY DEF IInv, StatTypes, Role, ReadAndCounted
<1>2. ready <= Cardinality(ReadAndCounted) /\ ready >= Cardinality(D) /\ ready \in Nat
  BY RowFinite DEF IInv, CountInv, EnoughServers, MapCount, WorkTypes
<1>3. IsFiniteSet(D) /\ Cardinality(D) \in Nat /\ Cardinality(ReadAndCounted) \in Nat
  BY <1>1, RowFinite
<1>4. Cardinality(ReadAndCounted) <= Cardinality(D)
  BY <1>1, <1>3, FS_Subset
<1>5. Cardinality(D) = Cardinality(ReadAndCounted)
  BY <1>2, <1>3, <1>4
<1>6. D = ReadAndCounted
  BY <1>1, <1>3, <1>5, FS_Subset
<1> QED  BY <1>6 DEF ReadAndCounted

LEMMA NextCount ==
  ASSUME DaemonsAssumption, IInv, IInv', AddedInv, AddInv, ReportInv, CountInv, [Next]_vars
  PROVE  CountInv'
<1>0. /\ WorkTypes /\ StatTypes /\ StatTypes' /\ ready \in Nat /\ launched \subseteq launched'
      /\ \A r \in Role : \A i \in DOMAIN stat[r] : Counted(i, r) => Counted(i, r)'
  <2>1. WorkTypes /\ StatTypes /\ StatTypes'
    BY DEF IInv
  <2>2. ready \in Nat
    BY <2>1, RowFinite DEF WorkTypes
  <2>3. /\ launched \subseteq launched'
        /\ \A r \in Role : \A i \in DOMAIN stat[r] : Counted(i, r) => Counted(i, r)'
    BY CountedStays, OverStays
  <2> QED  BY <2>1, <2>2, <2>3
<1>1. \A r \in Role : \A i \in DOMAIN stat'[r] :
        stat'[r][i] = Status.started => <<i, r>> \in launched'
  <2>1. CASE AddIperf
    <3>1. Status.init # Status.started
      BY DEF Status
    <3> QED  BY <1>0, <2>1, <3>1, AddStatus DEF CountInv
  <2>2. CASE stat' = stat
    BY <1>0, <2>2 DEF CountInv
  <2>3. ASSUME NEW c \in Conn, OnReport(c)
        PROVE  \A r \in Role : \A i \in DOMAIN stat'[r] :
                 stat'[r][i] = Status.started => <<i, r>> \in launched'
    BY <1>0, <2>3, ReportFacts DEF CountInv
  <2> QED  BY <2>1, <2>2, <2>3, WhoCounts
<1>2. ASSUME \A r \in Role : DOMAIN stat'[r] = DOMAIN stat[r], UNCHANGED <<todo, ready>>,
             pc' = "waitS" => pc = "waitS"
      PROVE  pc' = "waitS" => ready' <= Cardinality(ReadAndCounted')
  <2> SUFFICES ASSUME pc' = "waitS" PROVE ready' <= Cardinality(ReadAndCounted')
    OBVIOUS
  <2>1. ReadAndCounted \subseteq ReadAndCounted'
    BY <1>0, <1>2 DEF ReadAndCounted, Role
  <2>2. ready <= Cardinality(ReadAndCounted)
    BY <1>2 DEF CountInv
  <2> QED  BY <1>0, <1>2, <2>1, <2>2, CountGrows
<1>3. ASSUME \A r \in Role : DOMAIN stat'[r] = DOMAIN stat[r],
             pc' \in {"startC", "waitC", "main"} => pc \in {"startC", "waitC", "main"},
             pc' = "main" => pc = "main",
             pc' = "waitS" => ready' <= Cardinality(ReadAndCounted')
      PROVE  CountInv'
  <2>1. /\ pc' \in {"startC", "waitC", "main"} => \A i \in DOMAIN stat'["S"] : Counted(i, "S")'
        /\ pc' = "main" => \A i \in DOMAIN stat'["C"] : Counted(i, "C")'
    BY <1>0, <1>3 DEF CountInv, Role
  <2> QED  BY <1>1, <1>3, <2>1 DEF CountInv
<1>4. ASSUME \A r \in Role : DOMAIN stat'[r] = DOMAIN stat[r], UNCHANGED <<todo, ready>>,
             pc' = pc \/ pc' \in {"open", "connect", "startS", "returned"}
                      \/ (pc = "startC" /\ pc' = "waitC")
      PROVE  CountInv'
  <2>1. /\ pc' = "waitS" => pc = "waitS"
        /\ pc' \in {"startC", "waitC", "main"} => pc \in {"startC", "waitC", "main"}
        /\ pc' = "main" => pc = "main"
    BY <1>4
  <2> QED  BY <1>2, <1>3, <1>4, <2>1
<1>5. ASSUME NextPass, stat' = stat, pc' = "waitS"
      PROVE  CountInv'
  <2>1. ReadAndCounted' = {} /\ ready' = 0
    BY <1>5 DEF ReadAndCounted, NextPass
  <2>2. Cardinality(ReadAndCounted') = 0
    BY <2>1, FS_EmptySet
  <2> QED  BY <1>3, <1>5, <2>1, <2>2
<1>6. CASE StartServers
  BY <1>5, <1>6 DEF StartServers
<1>7. CASE ServersNotReady
  <2>1. CASE NextPass /\ pc' = pc
    BY <1>5, <1>7, <2>1 DEF ServersNotReady
  <2>2. CASE pc' = "returned" /\ UNCHANGED <<todo, ready>>
    BY <1>4, <1>7, <2>2 DEF ServersNotReady
  <2> QED  BY <1>7, <2>1, <2>2 DEF ServersNotReady, Return
<1>8. CASE ReadServer
  <2>1. PICK k \in todo :
          /\ todo' = todo \ {k}
          /\ ready' = IF k \in DOMAIN stat["S"] /\ stat["S"][k] = Status.started
                      THEN ready + 1 ELSE ready
    BY <1>8 DEF ReadServer
  <2>2. pc = "waitS" /\ pc' = "waitS" /\ stat' = stat
    BY <1>8 DEF ReadServer
  <2>3. ready <= Cardinality(ReadAndCounted)
    BY <2>2 DEF CountInv
  <2>4. ReadAndCounted \subseteq ReadAndCounted' /\ k \notin ReadAndCounted
    BY <1>0, <2>1, <2>2 DEF ReadAndCounted, Role
  <2>5. ReadAndCounted' \in SUBSET Row /\ ReadAndCounted \in SUBSET Row
    BY <1>0 DEF ReadAndCounted, StatTypes, Role
  <2>6. /\ IsFiniteSet(ReadAndCounted) /\ IsFiniteSet(ReadAndCounted')
        /\ Cardinality(ReadAndCounted) \in Nat /\ Cardinality(ReadAndCounted') \in Nat
    BY <2>5, RowFinite
  <2>7. ready' <= Cardinality(ReadAndCounted')
    <3>1. CASE k \in DOMAIN stat["S"] /\ stat["S"][k] = Status.started
      <4>1. Counted(k, "S")
        BY <3>1 DEF CountInv, Counted, Status, Role
      <4>2. Counted(k, "S")'
        BY <1>0, <3>1, <4>1 DEF Role
      <4>3. k \in ReadAndCounted'
        BY <2>1, <2>2, <3>1, <4>2 DEF ReadAndCounted
      <4>4. /\ ReadAndCounted \cup {k} \subseteq ReadAndCounted'
            /\ IsFiniteSet(ReadAndCounted \cup {k})
            /\ Cardinality(ReadAndCounted \cup {k}) = Cardinality(ReadAndCounted) + 1
        BY <2>4, <2>6, <4>3, FS_AddElement
      <4>5. Cardinality(ReadAndCounted \cup {k}) <= Cardinality(ReadAndCounted')
        BY <2>6, <4>4, FS_Subset
      <4> QED  BY <1>0, <2>1, <2>3, <2>6, <3>1, <4>4, <4>5
    <3>2. CASE ~(k \in DOMAIN stat["S"] /\ stat["S"][k] = Status.started)
      <4>1. Cardinality(ReadAndCounted) <= Cardinality(ReadAndCounted')
        BY <2>4, <2>6, FS_Subset
      <4> QED  BY <1>0, <2>1, <2>3, <2>6, <3>2, <4>1
    <3> QED  BY <3>1, <3>2
  <2> QED  BY <1>3, <2>2, <2>7
<1>9. CASE ServersReady
  <2>1. stat' = stat /\ UNCHANGED <<todo, ready>> /\ pc = "waitS" /\ EnoughServers
    BY <1>9 DEF ServersReady
  <2>2. \A i \in DOMAIN stat["S"] : Counted(i, "S")'
    BY <1>0, <2>1, EnoughAreCounted DEF Role
  <2>3. CASE pc' = "startC"
    BY <1>1, <2>1, <2>2, <2>3 DEF CountInv
  <2>4. CASE pc' = "returned"
    BY <1>4, <2>1, <2>4
  <2> QED  BY <1>9, <2>3, <2>4 DEF ServersReady, Return
<1>10. CASE WaitClients
  <2>1. stat' = stat /\ UNCHANGED <<todo, ready>> /\ pc = "waitC"
    BY <1>10 DEF WaitClients
  <2>2. CASE AllClientsStarted /\ pc' = "main"
    <3>1. \A i \in DOMAIN stat["C"] : Counted(i, "C")
      <4>1. \A i \in DOMAIN stat["C"] : stat["C"][i] = Status.started
        BY <2>2 DEF AllClientsStarted
      <4>2. \A i \in DOMAIN stat["C"] : <<i, "C">> \in launched
        BY <4>1 DEF CountInv, Role
      <4>3. Status.started # Status.init
        BY DEF Status
      <4> QED  BY <4>1, <4>2, <4>3 DEF Counted
    <3>2. \A i \in DOMAIN stat["S"] : Counted(i, "S")
      BY <2>1 DEF CountInv
    <3> QED  BY <1>0, <1>1, <2>1, <2>2, <3>1, <3>2 DEF CountInv, Role
  <2>3. CASE pc' = "returned"
    BY <1>4, <2>1, <2>3
  <2> QED  BY <1>10, <2>2, <2>3 DEF WaitClients, Return
<1>11. CASE AddIperf
  <2>1. pc' \in {"open", "startS"}
    BY <1>11 DEF AddIperf
  <2> QED  BY <1>1, <2>1 DEF CountInv
<1>12. CASE Begin \/ UserStops \/ OnSetStop \/ OpenWebSocket \/ ConnectFails \/ StartClients \/ LeaveMain
  <2>1. /\ stat' = stat /\ UNCHANGED <<todo, ready>>
        /\ pc' = pc \/ pc' \in {"open", "connect", "startS", "returned"}
                    \/ (pc = "startC" /\ pc' = "waitC")
    <3>1. CASE Begin \/ UserStops \/ OnSetStop \/ OpenWebSocket
      BY <3>1 DEF Begin, UserStops, OnSetStop, OpenWebSocket
    <3>2. CASE ConnectFails
      BY <3>2 DEF ConnectFails, Return
    <3>3. CASE StartClients
      BY <3>3 DEF StartClients
    <3>4. CASE LeaveMain
      BY <3>4 DEF LeaveMain, OnStop, Return
    <3> QED  BY <1>12, <3>1, <3>2, <3>3, <3>4
  <2> QED  BY <1>4, <2>1
<1>13. ASSUME NEW c \in Conn, Connected(c) \/ Refused(c) \/ OnReport(c) \/ OnDisconnected(c)
       PROVE  CountInv'
  <2>1. UNCHANGED <<todo, ready, pc>>
    BY <1>13 DEF Connected, Refused, OnReport, OnDisconnected, HostLeaves
  <2>2. \A r \in Role : DOMAIN stat'[r] = DOMAIN stat[r]
    <3>1. CASE OnReport(c)
      BY <3>1, ReportFacts
    <3>2. CASE Connected(c) \/ Refused(c) \/ OnDisconnected(c)
      BY <3>2 DEF Connected, Refused, OnDisconnected, HostLeaves
    <3> QED  BY <1>13, <3>1, <3>2
  <2> QED  BY <1>4, <2>1, <2>2
<1>14. CASE UNCHANGED workVars
  BY <1>4, <1>14 DEF workVars
<1>15. CASE UNCHANGED vars
  BY <1>14, <1>15 DEF vars
<1>16. CASE Work
  BY <1>6, <1>7, <1>8, <1>9, <1>10, <1>11, <1>12, <1>16 DEF Work
<1>17. CASE Slots
  BY <1>12, <1>13, <1>17 DEF Slots
<1> QED  BY <1>12, <1>14, <1>15, <1>16, <1>17 DEF Next

-----------------------------------------------------------------------------
(* The connections of a test in which none breaks.                         *)
\* While nothing went wrong, only the connection that work() waits for is not
\* open, and the connections of all pairs that were added are, unless the one
\* that work() waits for was refused, which removes its host from both maps.
ConnInv ==
  faults = 0 =>
    /\ \A c \in Conn : conn[c] = "open" => link[c] = "up"
    /\ outcome = <<>> /\ pc # "returned" =>
         /\ \A c \in Conn : conn[c] = "opening" => pc = "connect" /\ c = Here
         /\ \/ pc = "connect" /\ ~IsKept
            \/ \A r \in Role : \A i \in DOMAIN stat[r] :
                 Rows[i][r] \in ws[r] /\ conn[<<r, Rows[i][r]>>] = "open"

LEMMA InitConn == Init => ConnInv
<1> SUFFICES ASSUME Init PROVE ConnInv
  OBVIOUS
<1>1. \A r \in Role : DOMAIN stat[r] = {}
  BY DEF Init, EmptyMap
<1>2. \A c \in Conn : conn[c] = "none"
  BY DEF Init
<1> QED  BY <1>1, <1>2 DEF ConnInv

LEMMA NextConn ==
  ASSUME DaemonsAssumption, IInv, AddedInv, ReportInv, ConnInv, [Next]_vars
  PROVE  ConnInv'
<1>0. /\ WorkTypes /\ StatTypes /\ DaemonTypes
      /\ outcome' = <<>> => outcome = <<>>
  BY OutcomeFacts DEF IInv
<1>h. Here \in Conn /\ at[1] \in Row /\ at[2] \in Role /\ Here[2] \in Host /\ Here = <<at[2], Here[2]>>
  BY <1>0, HereIsConn DEF Here
<1>c. \A r \in Role : \A i \in DOMAIN stat[r] : <<r, Rows[i][r]>> \in Conn /\ i \in Row
  BY <1>0, RowFacts DEF StatTypes
<1>1. ASSUME UNCHANGED <<conn, link, ws, at, faults>>, \A r \in Role : DOMAIN stat'[r] = DOMAIN stat[r],
             pc' = pc \/ (pc # "connect" /\ pc # "returned")
      PROVE  ConnInv'
  BY <1>0, <1>1 DEF ConnInv, Here, IsKept
<1>2. CASE Begin \/ UserStops \/ OnSetStop
  <2>1. UNCHANGED <<conn, link, ws, at, faults, stat>> /\ (pc' = pc \/ pc = "idle")
    BY <1>2 DEF Begin, UserStops, OnSetStop, daemonVars
  <2> QED  BY <1>1, <2>1
<1>3. CASE StartServers \/ ReadServer \/ ServersReady \/ ServersNotReady \/ StartClients \/ WaitClients
  <2>1. UNCHANGED <<conn, link, ws, at, faults, stat>> /\ (pc' = pc \/ (pc # "connect" /\ pc # "returned"))
    BY <1>3 DEF StartServers, ReadServer, ServersReady, ServersNotReady, StartClients, WaitClients,
         daemonVars
  <2> QED  BY <1>1, <2>1
<1>4. CASE ConnectFails
  <2>1. UNCHANGED <<conn, link, faults>> /\ (pc' = "returned" \/ outcome' = outcome \o << 1 >>)
    BY <1>4 DEF ConnectFails, Return, Tell, daemonVars
  <2>2. outcome \in Seq(0..4)
    BY <1>0 DEF WorkTypes
  <2>3. outcome \o << 1 >> # <<>>
    BY <2>2
  <2> QED  BY <2>1, <2>3 DEF ConnInv
<1>5. CASE OpenWebSocket
  <2>1. pc = "open" /\ pc' = "connect" /\ UNCHANGED <<at, stat, faults, outcome>>
    BY <1>5 DEF OpenWebSocket
  <2>2. CASE UNCHANGED <<ws, conn, link>>
    BY <2>1, <2>2 DEF ConnInv, Here, IsKept
  <2>3. CASE ~IsKept
    <3>1. /\ ws' = [ws EXCEPT ![at[2]] = @ \cup {Here[2]}]
          /\ conn' = [conn EXCEPT ![Here] = "opening"]
          /\ link' = [link EXCEPT ![Here] = "none"]
      BY <1>5, <2>3 DEF OpenWebSocket
    <3>2. /\ \A c \in Conn : c # Here => conn'[c] = conn[c] /\ link'[c] = link[c]
          /\ conn'[Here] = "opening"
          /\ \A r \in Role : ws[r] \subseteq ws'[r]
      BY <1>0, <1>h, <3>1 DEF WorkTypes, DaemonTypes
    <3>3. Here' = Here
      BY <2>1 DEF Here
    <3>4. \A r \in Role : \A i \in DOMAIN stat[r] :
            Rows[i][r] \in ws[r] => <<r, Rows[i][r]>> # Here
      <4>1. Here[2] \notin ws[at[2]]
        BY <2>3 DEF IsKept
      <4> QED  BY <1>h, <4>1
    <3>5. ASSUME faults = 0, outcome = <<>>
          PROVE  \A r \in Role : \A i \in DOMAIN stat[r] :
                   Rows[i][r] \in ws'[r] /\ conn'[<<r, Rows[i][r]>>] = "open"
      <4>1. \A r \in Role : \A i \in DOMAIN stat[r] :
              Rows[i][r] \in ws[r] /\ conn[<<r, Rows[i][r]>>] = "open"
        BY <2>1, <3>5 DEF ConnInv
      <4> QED  BY <1>c, <3>2, <3>4, <4>1
    <3>6. ASSUME faults = 0, outcome = <<>>
          PROVE  \A c \in Conn : conn'[c] = "opening" => c = Here
      BY <2>1, <3>2, <3>6 DEF ConnInv
    <3>7. faults = 0 => \A c \in Conn : conn'[c] = "open" => link'[c] = "up"
      BY <3>2 DEF ConnInv
    <3> QED  BY <2>1, <3>3, <3>5, <3>6, <3>7 DEF ConnInv
  <2> QED  BY <1>5, <2>2, <2>3 DEF OpenWebSocket
<1>6. CASE AddIperf
  <2>1. /\ pc = "connect" /\ IsKept /\ conn[Here] = "open"
        /\ pc' \in {"open", "startS"} /\ UNCHANGED <<conn, link, ws, faults, outcome>>
    BY <1>6 DEF AddIperf
  <2>2. ASSUME faults = 0, outcome = <<>>
        PROVE  /\ \A c \in Conn : conn[c] # "opening"
               /\ \A r \in Role : \A i \in DOMAIN stat'[r] :
                    Rows[i][r] \in ws[r] /\ conn[<<r, Rows[i][r]>>] = "open"
    <3>1. \A c \in Conn : conn[c] # "opening"
      BY <2>1, <2>2 DEF ConnInv
    <3>2. \A r \in Role : \A i \in DOMAIN stat[r] :
            Rows[i][r] \in ws[r] /\ conn[<<r, Rows[i][r]>>] = "open"
      BY <2>1, <2>2 DEF ConnInv
    <3>3. Rows[at[1]][at[2]] \in ws[at[2]] /\ conn[<<at[2], Rows[at[1]][at[2]]>>] = "open"
      BY <2>1 DEF IsKept, Here
    <3>4. \A r \in Role : \A i \in DOMAIN stat'[r] : i \in DOMAIN stat[r] \/ (i = at[1] /\ r = at[2])
      BY <1>6, AddStatus
    <3> QED  BY <3>1, <3>2, <3>3, <3>4
  <2> QED  BY <2>1, <2>2 DEF ConnInv
<1>7. CASE LeaveMain
  <2> DEFINE S == {"S"} \X ws["S"]
  <2>1. /\ pc' = "returned" /\ UNCHANGED faults
        /\ conn' = [c \in Conn |-> IF c \in S THEN "closed" ELSE conn[c]]
        /\ \A c \in Conn : c \notin S => link'[c] = link[c]
    BY <1>7 DEF LeaveMain, OnStop, Return
  <2> HIDE DEF S
  <2>2. \A c \in Conn : conn'[c] = "open" => conn[c] = "open" /\ c \notin S
    BY <2>1
  <2> QED  BY <2>1, <2>2 DEF ConnInv
<1>8. ASSUME NEW c \in Conn, Connected(c)
      PROVE  ConnInv'
  <2>1. /\ conn[c] = "opening" /\ UNCHANGED <<ws, at, stat, faults, pc, outcome>>
        /\ conn' = [conn EXCEPT ![c] = "open"] /\ link' = [link EXCEPT ![c] = "up"]
    BY <1>8 DEF Connected
  <2>2. /\ conn'[c] = "open" /\ link'[c] = "up"
        /\ \A d \in Conn : d # c => conn'[d] = conn[d] /\ link'[d] = link[d]
    BY <1>0, <2>1 DEF WorkTypes, DaemonTypes
  <2>3. Here' = Here /\ IsKept' = IsKept
    BY <2>1 DEF Here, IsKept
  <2>4. ASSUME faults = 0, outcome = <<>>, pc # "returned"
        PROVE  /\ \A d \in Conn : conn'[d] = "opening" => pc = "connect" /\ d = Here
               /\ \/ pc = "connect" /\ ~IsKept
                  \/ \A r \in Role : \A i \in DOMAIN stat[r] :
                       Rows[i][r] \in ws[r] /\ conn'[<<r, Rows[i][r]>>] = "open"
    BY <1>c, <2>2, <2>4 DEF ConnInv
  <2>5. faults = 0 => \A d \in Conn : conn'[d] = "open" => link'[d] = "up"
    BY <2>2 DEF ConnInv
  <2> QED  BY <2>1, <2>3, <2>4, <2>5 DEF ConnInv
<1>9. ASSUME NEW c \in Conn, Refused(c)
      PROVE  ConnInv'
  <2>1. /\ conn[c] = "opening" /\ UNCHANGED <<at, stat, faults, pc, outcome, link>>
        /\ conn' = [conn EXCEPT ![c] = "closed"] /\ ws' = [r \in Role |-> ws[r] \ {c[2]}]
    BY <1>9 DEF Refused, HostLeaves
  <2>2. /\ conn'[c] = "closed" /\ \A d \in Conn : d # c => conn'[d] = conn[d]
    BY <1>0, <2>1 DEF WorkTypes
  <2>3. Here' = Here
    BY <2>1 DEF Here
  <2>4. ASSUME faults = 0, outcome = <<>>, pc # "returned"
        PROVE  /\ \A d \in Conn : conn'[d] = "opening" => pc = "connect" /\ d = Here
               /\ pc = "connect" /\ ~IsKept'
    <3>1. pc = "connect" /\ c = Here
      BY <2>1, <2>4 DEF ConnInv
    <3>2. Here'[2] \notin ws'[at'[2]]
      BY <1>h, <2>1, <2>3, <3>1
    <3> QED  BY <2>2, <2>4, <3>1, <3>2 DEF ConnInv, IsKept
  <2>5. faults = 0 => \A d \in Conn : conn'[d] = "open" => link'[d] = "up"
    BY <2>1, <2>2 DEF ConnInv
  <2> QED  BY <2>1, <2>3, <2>4, <2>5 DEF ConnInv
<1>10. ASSUME NEW c \in Conn, OnDisconnected(c)
       PROVE  ConnInv'
  <2>1. down[c] # <<>> /\ Head(down[c]).act = "disconnected" /\ faults' = faults
    BY <1>10 DEF OnDisconnected, HostLeaves
  <2>2. Head(down[c]) \in TrueReports
    BY <2>1, SeqFacts DEF ReportInv
  <2>3. faults > 0
    BY <2>1, <2>2 DEF TrueReports
  <2> QED  BY <2>1, <2>3 DEF ConnInv
<1>11. ASSUME NEW c \in Conn, OnReport(c)
       PROVE  ConnInv'
  <2>1. UNCHANGED <<conn, link, ws, at, faults, pc>>
    BY <1>11 DEF OnReport
  <2>2. \A r \in Role : DOMAIN stat'[r] = DOMAIN stat[r]
    BY <1>11, ReportFacts
  <2> QED  BY <1>1, <2>1, <2>2
<1>12. ASSUME NEW c \in Conn, LinkBreaks(c)
       PROVE  ConnInv'
  <2>1. faults' = faults + 1 /\ faults \in Nat
    BY <1>0, <1>12 DEF LinkBreaks, DaemonTypes, DaemonsAssumption
  <2>2. faults' # 0
    BY <2>1
  <2> QED  BY <2>2 DEF ConnInv
<1>13. CASE DaemonStep /\ UNCHANGED workVars
  <2>1. ASSUME NEW c \in Conn, Receive(c)
        PROVE  UNCHANGED <<link, faults>>
    BY <2>1 DEF Receive
  <2>2. ASSUME NEW i \in Row, NEW r \in Role, Launch(i, r) \/ Exit(i, r) \/ Stderr(i, r)
        PROVE  UNCHANGED <<link, faults>>
    BY <2>2, IperfFacts
  <2>3. UNCHANGED <<conn, ws, at, pc, stat>>
    BY <1>13 DEF workVars
  <2> QED  BY <1>1, <1>12, <1>13, <2>1, <2>2, <2>3 DEF DaemonStep
<1>14. CASE UNCHANGED vars
  BY <1>1, <1>14 DEF vars, workVars, daemonVars
<1>15. CASE Work
  BY <1>3, <1>4, <1>5, <1>6, <1>7, <1>15 DEF Work
<1>16. CASE Slots
  BY <1>2, <1>8, <1>9, <1>10, <1>11, <1>16 DEF Slots
<1> QED  BY <1>2, <1>13, <1>14, <1>15, <1>16 DEF Next

-----------------------------------------------------------------------------
(* A test that has ended without an error.                                 *)
NotAdd == {m \in Commands : m.act # "ADD"}

\* The CLEAR of a host is on its way.
ClearComes(h) == \E k \in DOMAIN up[<<"S", h>>] : up[<<"S", h>>][k].act = "CLEAR"

OverInv ==
  /\ outcome = << 0 >> => pc = "returned" /\ up \in [Conn -> Seq(NotAdd)]
  /\ EndIsClean

LEMMA SeqElements ==
  ASSUME NEW S, NEW T, NEW s \in Seq(S), \A k \in 1..Len(s) : s[k] \in T
  PROVE  s \in Seq(T)
OBVIOUS

LEMMA SecondJoined ==
  ASSUME NEW S, NEW s \in Seq(S), NEW t \in Seq(S), Len(t) = 2
  PROVE  Len(s) + 2 \in DOMAIN (s \o t) /\ (s \o t)[Len(s) + 2] = t[2]
<1>1. /\ s \o t \in Seq(S) /\ Len(s \o t) = Len(s) + Len(t)
      /\ \A j \in 1..(Len(s) + Len(t)) :
           (s \o t)[j] = IF j <= Len(s) THEN s[j] ELSE t[j - Len(s)]
  BY ConcatProperties
<1>2. Len(s) \in Nat /\ DOMAIN (s \o t) = 1..Len(s \o t)
  BY <1>1
<1>3. Len(s) + 2 \in 1..(Len(s) + Len(t)) /\ ~(Len(s) + 2 <= Len(s)) /\ (Len(s) + 2) - Len(s) = 2
  BY <1>2
<1> QED  BY <1>1, <1>2, <1>3

LEMMA TailElement ==
  ASSUME NEW S, NEW s \in Seq(S), s # <<>>, NEW k \in 1..Len(s), k # 1
  PROVE  k - 1 \in DOMAIN Tail(s) /\ Tail(s)[k - 1] = s[k]
<1>1. /\ Len(Tail(s)) = Len(s) - 1 /\ Len(s) \in Nat /\ DOMAIN Tail(s) = 1..Len(Tail(s))
      /\ \A j \in 1..(Len(s) - 1) : Tail(s)[j] = s[j + 1]
  OBVIOUS
<1>2. k - 1 \in 1..(Len(s) - 1) /\ (k - 1) + 1 = k
  BY <1>1
<1> QED  BY <1>1, <1>2

\* When the main loop runs, every pair of the test was launched: no command to
\* add one is on its way.
LEMMA MainAddsNone ==
  ASSUME IInv, AddInv, CountInv, pc = "main"
  PROVE  up \in [Conn -> Seq(NotAdd)]
<1>1. \A c \in Conn : \A k \in 1..Len(up[c]) : up[c][k].act # "ADD"
  <2> SUFFICES ASSUME NEW c \in Conn, NEW k \in 1..Len(up[c]), up[c][k].act = "ADD" PROVE FALSE
    OBVIOUS
  <2>1. up[c][k].role \in Role /\ up[c][k].row \in DOMAIN stat[up[c][k].role]
    BY AddIsRow
  <2>2. <<up[c][k].row, up[c][k].role>> \in launched
    BY <2>1 DEF CountInv, Counted, Role
  <2> QED  BY <2>2 DEF AddInv, Unborn
<1>2. up \in [Conn -> Seq(Commands)] /\ \A c \in Conn : up[c] \in Seq(Commands)
  BY QueueTypes
<1>3. \A c \in Conn : \A k \in 1..Len(up[c]) : up[c][k] \in NotAdd
  BY <1>1, <1>2 DEF NotAdd
<1>4. \A c \in Conn : up[c] \in Seq(NotAdd)
  BY <1>2, <1>3, SeqElements
<1> QED  BY <1>2, <1>4

\* What is sent comes after what is on its way.
LEMMA ClearStays ==
  ASSUME up \in [Conn -> Seq(Commands)], NEW S, NEW ms \in Seq(Commands), SendTo(S, ms),
         NEW h \in Host, ClearComes(h)
  PROVE  ClearComes(h)'
<1> DEFINE c == <<"S", h>>
<1>1. c \in Conn
  BY DEF Conn, Role
<1>2. up[c] \in Seq(Commands)
  BY <1>1
<1>3. up'[c] = up[c] \/ up'[c] = up[c] \o ms
  BY <1>1 DEF SendTo
<1>4. PICK k \in 1..Len(up[c]) : up[c][k].act = "CLEAR"
  BY <1>2 DEF ClearComes
<1> HIDE DEF c
<1>5. k \in DOMAIN up'[c] /\ up'[c][k] = up[c][k]
  BY <1>2, <1>3
<1>6. \E j \in DOMAIN up'[c] : up'[c][j].act = "CLEAR"
  BY <1>4, <1>5
<1> QED  BY <1>6 DEF ClearComes, c

\* onStop sends the CLEAR of every host that has a server.
LEMMA StopClears ==
  ASSUME DaemonsAssumption, IInv, AddedInv, AddInv, CountInv, ConnInv, LeaveMain, outcome = <<>>
  PROVE  /\ up' \in [Conn -> Seq(NotAdd)]
         /\ faults = 0 => \A j \in Row : ClearComes(Rows[j].S)'
<1> DEFINE C == {c \in {"S"} \X ws["S"] : conn[c] = "open"}
<1>1. pc = "main" /\ SendTo(C, HaltCommands)
  BY DEF LeaveMain, OnStop
<1>2. up \in [Conn -> Seq(NotAdd)] /\ up \in [Conn -> Seq(Commands)]
  BY <1>1, MainAddsNone, QueueTypes
<1>3. /\ Command("STOP", "S", 0) \in NotAdd /\ Command("CLEAR", "S", 0) \in NotAdd
      /\ Command("CLEAR", "S", 0).act = "CLEAR"
  BY DEF Command, Commands, NotAdd, Role
<1>4. /\ HaltCommands \in Seq(NotAdd) /\ Len(HaltCommands) = 2
      /\ HaltCommands[2] = Command("CLEAR", "S", 0)
  BY <1>3 DEF HaltCommands
<1>5. up' \in [Conn -> Seq(NotAdd)]
  <2> HIDE DEF C
  <2> QED  BY <1>1, <1>2, <1>4, SendToKeeps
<1>6. ASSUME faults = 0, NEW j \in Row
      PROVE  ClearComes(Rows[j].S)'
  <2> DEFINE c == <<"S", Rows[j].S>>
  <2>1. c \in Conn /\ "S" \in Role
    BY RowFacts DEF Role
  <2>2. \A r \in Role : DOMAIN stat[r] = Row
    BY <1>1 DEF AddedInv, Testing
  <2>3. \A r \in Role : \A i \in DOMAIN stat[r] :
          Rows[i][r] \in ws[r] /\ conn[<<r, Rows[i][r]>>] = "open"
    BY <1>1, <1>6 DEF ConnInv
  <2>4. Rows[j].S \in ws["S"] /\ conn[c] = "open"
    BY <2>1, <2>2, <2>3
  <2>5. link[c] = "up"
    BY <1>6, <2>1, <2>4 DEF ConnInv
  <2>6. c \in C
    BY <2>4
  <2> HIDE DEF c, C
  <2>7. up'[c] = up[c] \o HaltCommands
    BY <1>1, <2>1, <2>5, <2>6 DEF SendTo
  <2>8. up[c] \in Seq(NotAdd)
    BY <1>2, <2>1
  <2>9. /\ Len(up[c]) + 2 \in DOMAIN up'[c]
        /\ up'[c][Len(up[c]) + 2] = HaltCommands[2]
    BY <1>4, <2>7, <2>8, SecondJoined
  <2>10. \E k \in DOMAIN up'[c] : up'[c][k].act = "CLEAR"
    BY <1>3, <1>4, <2>9
  <2> QED  BY <2>10 DEF ClearComes, c
<1> QED  BY <1>5, <1>6

LEMMA InitOver == Init => OverInv
<1> SUFFICES ASSUME Init PROVE OverInv
  OBVIOUS
<1>1. outcome = <<>> /\ <<>> # << 0 >>
  BY DEF Init
<1> QED  BY <1>1 DEF OverInv, EndIsClean

\* Nothing but work() leaves a place other than the end, and an end stays.
LEMMA ReturnedStays ==
  ASSUME [Next]_vars, pc = "returned"
  PROVE  /\ pc' = "returned" /\ ~LeaveMain
         /\ \/ UNCHANGED <<iperf, up, faults>>
            \/ \E c \in Conn : LinkBreaks(c) \/ OnReport(c) \/ Receive(c)
            \/ \E i \in Row, r \in Role : Launch(i, r) \/ Exit(i, r) \/ Stderr(i, r)
<1>1. ~Begin /\ ~Work
  BY DEF Begin, Work, OpenWebSocket, AddIperf, ConnectFails, StartServers, ReadServer, ServersReady,
       ServersNotReady, StartClients, WaitClients, LeaveMain
<1>2. ~LeaveMain
  BY <1>1 DEF Work
<1>3. CASE UserStops \/ OnSetStop
  BY <1>2, <1>3 DEF UserStops, OnSetStop, daemonVars
<1>4. ASSUME NEW c \in Conn, Connected(c) \/ Refused(c) \/ OnReport(c) \/ OnDisconnected(c)
      PROVE  pc' = pc /\ (UNCHANGED <<iperf, up, faults>> \/ OnReport(c))
  BY <1>4 DEF Connected, Refused, OnReport, OnDisconnected, HostLeaves
<1>5. CASE DaemonStep /\ UNCHANGED workVars
  BY <1>2, <1>5 DEF DaemonStep, workVars
<1>6. CASE UNCHANGED vars
  BY <1>2, <1>6 DEF vars, workVars, daemonVars
<1> QED  BY <1>1, <1>2, <1>3, <1>4, <1>5, <1>6 DEF Next, Slots

LEMMA NextOver ==
  ASSUME DaemonsAssumption, IInv, AddedInv, AddInv, CountInv, ConnInv, OverInv, [Next]_vars
  PROVE  OverInv'
<1>0. /\ up \in [Conn -> Seq(Commands)] /\ \A c \in Conn : up[c] \in Seq(Commands)
      /\ \A i \in Row, r \in Role : Rows[i][r] \in Host
  BY QueueTypes, RowFacts
<1>1. outcome' = << 0 >> => outcome = << 0 >> \/ (outcome = <<>> /\ LeaveMain)
  BY OutcomeFacts
<1> SUFFICES ASSUME outcome' = << 0 >> PROVE OverInv'
  BY DEF OverInv, EndIsClean
<1>2. CASE outcome = <<>> /\ LeaveMain
  <2>1. pc' = "returned" /\ UNCHANGED faults
    BY <1>2 DEF LeaveMain, OnStop, Return
  <2>2. up' \in [Conn -> Seq(NotAdd)] /\ (faults = 0 => \A j \in Row : ClearComes(Rows[j].S)')
    BY <1>2, StopClears
  <2>3. EndIsClean'
    <3> SUFFICES ASSUME (faults = 0)', NEW i \in Row, NEW r \in Role,
                        NEW j \in Row, Rows[i][r] = Rows[j].S
                 PROVE  ClearComes(Rows[i][r])'
      BY DEF EndIsClean, ClearComes
    <3>1. ClearComes(Rows[j].S)'
      BY <2>1, <2>2
    <3> QED  BY <3>1 DEF ClearComes
  <2> QED  BY <2>1, <2>2, <2>3 DEF OverInv
<1>3. CASE outcome = << 0 >>
  <2>1. pc = "returned" /\ up \in [Conn -> Seq(NotAdd)]
    BY <1>3 DEF OverInv
  <2>2. pc' = "returned"
    BY <2>1, ReturnedStays
  <2>3. faults = 0 =>
          \A i \in Row, r \in Role :
            \/ iperf[i][r] = "none"
            \/ Rows[i][r] \notin {Rows[j].S : j \in Row}
            \/ ClearComes(Rows[i][r])
    BY <1>3, <2>1 DEF OverInv, EndIsClean, ClearComes
  <2>4. ASSUME faults' = faults, up' \in [Conn -> Seq(NotAdd)],
               \A i \in Row, r \in Role :
                 \/ iperf[i][r] = "none" => iperf'[i][r] = "none"
                 \/ ClearComes(Rows[i][r]),
               \A i \in Row, r \in Role :
                 ClearComes(Rows[i][r]) => ClearComes(Rows[i][r])' \/ iperf'[i][r] = "none"
        PROVE  OverInv'
    <3>1. faults = 0 =>
            \A i \in Row, r \in Role :
              \/ iperf'[i][r] = "none"
              \/ Rows[i][r] \notin {Rows[j].S : j \in Row}
              \/ ClearComes(Rows[i][r])'
      BY <2>3, <2>4
    <3> QED  BY <2>2, <2>4, <3>1 DEF OverInv, EndIsClean, ClearComes
  <2>5. CASE UNCHANGED <<iperf, up, faults>>
    BY <2>1, <2>4, <2>5 DEF ClearComes
  <2>6. ASSUME NEW c \in Conn, LinkBreaks(c)
        PROVE  OverInv'
    <3>1. faults' = faults + 1 /\ faults \in Nat /\ up' = [up EXCEPT ![c] = <<>>]
      BY <2>6 DEF LinkBreaks, IInv, DaemonTypes, DaemonsAssumption
    <3>2. faults' # 0
      BY <3>1
    <3>3. <<>> \in Seq(NotAdd)
      OBVIOUS
    <3>4. up' \in [Conn -> Seq(NotAdd)]
      BY <2>1, <3>1, <3>3
    <3> QED  BY <2>2, <3>2, <3>4 DEF OverInv, EndIsClean
  <2>7. ASSUME NEW c \in Conn, OnReport(c)
        PROVE  OverInv'
    <3>1. UNCHANGED <<iperf, faults>>
      BY <2>7 DEF OnReport
    <3>2. up' = up \/ \E S : SendTo(S, <<Command("RESTART", "S", Head(down[c]).row)>>)
      BY <2>7 DEF OnReport
    <3>3. Head(down[c]) \in Reports
      BY <2>7, ReportFacts
    <3>4. Command("RESTART", "S", Head(down[c]).row) \in NotAdd
      BY <3>3 DEF Reports, Command, Commands, NotAdd, Role
    <3> DEFINE m == Command("RESTART", "S", Head(down[c]).row)
    <3>5. up' = up \/ \E S : SendTo(S, <<m>>)
      BY <3>2
    <3>6. m \in NotAdd /\ m \in Commands
      BY <3>4 DEF NotAdd
    <3> HIDE DEF m
    <3>7. <<m>> \in Seq(NotAdd) /\ <<m>> \in Seq(Commands)
      BY <3>6
    <3>8. up' \in [Conn -> Seq(NotAdd)]
      BY <2>1, <3>5, <3>7, SendToKeeps
    <3>9. \A h \in Host : ClearComes(h) => ClearComes(h)'
      <4>1. CASE up' = up
        BY <4>1 DEF ClearComes
      <4>2. ASSUME NEW S, SendTo(S, <<m>>)
            PROVE  \A h \in Host : ClearComes(h) => ClearComes(h)'
        BY <1>0, <3>7, <4>2, ClearStays
      <4> QED  BY <3>5, <4>1, <4>2
    <3> QED  BY <1>0, <2>4, <3>1, <3>8, <3>9
  <2>8. ASSUME NEW c \in Conn, Receive(c)
        PROVE  OverInv'
    <3>1. up[c] # <<>> /\ up' = [up EXCEPT ![c] = Tail(@)] /\ UNCHANGED faults
      BY <2>8 DEF Receive
    <3>2. Head(up[c]) \in NotAdd /\ up' \in [Conn -> Seq(NotAdd)]
      BY <2>1, <3>1, QueueTail
    <3>3. Head(up[c]).act # "ADD"
      BY <3>2 DEF NotAdd
    <3>4. \A i \in Row, r \in Role : iperf[i][r] = "none" => iperf'[i][r] = "none"
      BY <2>8, <3>3, ReceiveFacts
    <3>5. ASSUME NEW i \in Row, NEW r \in Role, ClearComes(Rows[i][r])
          PROVE  ClearComes(Rows[i][r])' \/ iperf'[i][r] = "none"
      <4> DEFINE d == <<"S", Rows[i][r]>>
      <4>1. d \in Conn /\ up[d] \in Seq(Commands)
        BY <1>0 DEF Conn, Role
      <4>2. PICK k \in 1..Len(up[d]) : up[d][k].act = "CLEAR"
        BY <3>5, <4>1 DEF ClearComes
      <4>3. CASE d # c
        <5>1. up'[d] = up[d]
          BY <1>0, <3>1, <4>1, <4>3
        <5> QED  BY <3>5, <5>1 DEF ClearComes
      <4>4. CASE d = c /\ k = 1
        <5>1. Head(up[c]).act = "CLEAR" /\ c[2] = Rows[i][r]
          BY <2>8, <4>2, <4>4, ReceiveFacts
        <5> QED  BY <2>8, <5>1, ReceiveFacts
      <4>5. CASE d = c /\ k # 1
        <5>1. up'[d] = Tail(up[d]) /\ up[d] # <<>>
          BY <1>0, <3>1, <4>5
        <5> HIDE DEF d
        <5>2. k - 1 \in DOMAIN up'[d] /\ up'[d][k - 1] = up[d][k]
          BY <4>1, <4>5, <5>1, TailElement
        <5>3. \E j \in DOMAIN up'[d] : up'[d][j].act = "CLEAR"
          BY <4>2, <5>2
        <5> QED  BY <5>3 DEF ClearComes, d
      <4> QED  BY <4>3, <4>4, <4>5
    <3> QED  BY <2>4, <3>1, <3>2, <3>4, <3>5
  <2>9. ASSUME NEW i \in Row, NEW r \in Role, Launch(i, r) \/ Exit(i, r) \/ Stderr(i, r)
        PROVE  OverInv'
    <3>1. /\ UNCHANGED <<up, faults>> /\ iperf[i][r] # "none"
          /\ \A j \in Row, q \in Role : <<j, q>> # <<i, r>> => iperf'[j][q] = iperf[j][q]
      BY <2>9, IperfFacts
    <3>2. \A j \in Row, q \in Role : iperf[j][q] = "none" => iperf'[j][q] = "none"
      BY <3>1
    <3> QED  BY <2>1, <2>4, <3>1, <3>2 DEF ClearComes
  <2> QED  BY <2>1, <2>5, <2>6, <2>7, <2>8, <2>9, ReturnedStays
<1> QED  BY <1>1, <1>2, <1>3

-----------------------------------------------------------------------------
(* The sum of the statuses is 0 when every status is.                      *)
LEMMA SumIsZero ==
  ASSUME DaemonsAssumption, IInv, NEW r \in Role, StatusSum(r) = 0
  PROVE  \A i \in DOMAIN stat[r] : stat[r][i] = Status.init
<1>1. stat[r] \in [DOMAIN stat[r] -> 0..3] /\ DOMAIN stat[r] \subseteq Row
  BY DEF IInv, StatTypes
<1>2. \A s \in 0..3 : IsFiniteSet(WithStatus(r, s)) /\ Cardinality(WithStatus(r, s)) \in Nat
  <2>1. \A s \in 0..3 : WithStatus(r, s) \in SUBSET Row
    BY <1>1 DEF WithStatus
  <2> QED  BY <2>1, RowFinite
<1>3. Cardinality(WithStatus(r, 1)) * 1 + Cardinality(WithStatus(r, 2)) * 2
        + Cardinality(WithStatus(r, 3)) * 3 = 0
  BY DEF StatusSum, Status
<1>4. \A s \in 1..3 : Cardinality(WithStatus(r, s)) = 0
  <2>1. /\ Cardinality(WithStatus(r, 1)) \in Nat /\ Cardinality(WithStatus(r, 2)) \in Nat
        /\ Cardinality(WithStatus(r, 3)) \in Nat
    BY <1>2
  <2>2. /\ Cardinality(WithStatus(r, 1)) = 0 /\ Cardinality(WithStatus(r, 2)) = 0
        /\ Cardinality(WithStatus(r, 3)) = 0
    BY <1>3, <2>1
  <2>3. \A s \in 1..3 : s = 1 \/ s = 2 \/ s = 3
    OBVIOUS
  <2> QED  BY <2>2, <2>3
<1>5. \A s \in 1..3 : WithStatus(r, s) = {}
  BY <1>2, <1>4, FS_EmptySet
<1>6. ASSUME NEW i \in DOMAIN stat[r] PROVE stat[r][i] = 0
  <2>1. stat[r][i] \in 0..3
    BY <1>1
  <2>2. stat[r][i] \notin 1..3
    BY <1>5 DEF WithStatus
  <2> QED  BY <2>1, <2>2
<1> QED  BY <1>6 DEF Status

\* The main loop that finds all statuses to be 0 has seen every iperf start and end.
LEMMA AllEndedIsEnd ==
  ASSUME DaemonsAssumption, IInv, CountInv, pc = "main", AllEnded
  PROVE  \A i \in Row, r \in Role : iperf[i][r] \notin {"starting", "restarting", "up"}
<1> SUFFICES ASSUME NEW i \in Row, NEW r \in Role
             PROVE  iperf[i][r] \in Over
  BY DEF Over
<1>1. CASE i \in DOMAIN stat[r]
  <2>1. Counted(i, r)
    BY <1>1 DEF CountInv, Role
  <2>2. stat[r][i] = Status.init
    BY <1>1, SumIsZero DEF AllEnded
  <2> QED  BY <2>1, <2>2 DEF Counted
<1>2. CASE i \notin DOMAIN stat[r]
  BY <1>2 DEF IInv, SafeInv, IperfInv, Over
<1> QED  BY <1>1, <1>2

EndInv == AddedInv /\ AddInv /\ ReportInv /\ CountInv /\ ConnInv /\ OverInv

LEMMA EndInductive == Spec => []EndInv
<1>1. Init => EndInv
  BY InitAdded, InitCount, InitConn, InitOver, DaemonsAssumption DEF EndInv
<1>2. IInv /\ IInv' /\ EndInv /\ [Next]_vars => EndInv'
  BY NextAdded, NextAdd, NextReports, NextCount, NextConn, NextOver, DaemonsAssumption DEF EndInv
<1> QED  BY <1>1, <1>2, Inductive, PTL DEF Spec

\* The main loop never takes a test that still runs for one that has ended: when
\* it leaves because all statuses are 0, no iperf of the test runs or is about to
\* (getStatusServers and getStatusClients, TpWorker::work).
THEOREM EarlyEndsAreEnds == Spec => EarlyEndIsEnd
<1>1. IInv /\ EndInv /\ [Next]_vars =>
        [pc = "main" /\ pc' = "returned" /\ AllEnded =>
           \A i \in Row, r \in Role : iperf[i][r] \notin {"starting", "restarting", "up"}]_vars
  BY AllEndedIsEnd, DaemonsAssumption DEF EndInv
<1> QED  BY <1>1, Inductive, EndInductive, PTL DEF Spec, EarlyEndIsEnd

\* A test that ended without an error, on connections that did not break, leaves
\* no iperf behind on a host that has a server: the CLEAR that onStop sent is still
\* to come, and nothing was added behind it (TpWorker::onStop, AddIperf).
THEOREM EndsAreClean == Spec => []EndIsClean
<1>1. EndInv => EndIsClean
  BY DEF EndInv, OverInv
<1> QED  BY <1>1, EndInductive, PTL
=============================================================================
