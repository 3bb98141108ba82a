---------------------------- MODULE FileTransfer ----------------------------
(***************************************************************************)
(* The upload of iperf logs: the log files on the daemon's host, the       *)
(* FileClients of the daemon (qiperfd/src/fileclient.cpp, one per console  *)
(* that ever connected), the TCP connections, and the FileSaveSockets of   *)
(* the console (qiperfc/src/filesaveSocket.cpp, one per connection).       *)
(* A file is a number of chunks; chunk i of inode n is told from others by *)
(* n and i.                                                                *)
(***************************************************************************)
EXTENDS Naturals, Sequences, FiniteSets, Functions

CONSTANTS
  Logs,         \* names of log files: one per bind address and port
  Ragged,       \* the logs whose last line has no newline
  MaxRuns,      \* how many log files are created, and how many are handed in
  Chunks,       \* how many chunks a log grows to
  MaxClients,   \* how many consoles ever connect
  MaxBreaks,    \* how many connections break or fail
  MaxFails      \* how many files the console fails to open

ASSUME FileTransferAssumption ==
  /\ Ragged \subseteq Logs
  /\ {MaxRuns, Chunks, MaxClients, MaxBreaks, MaxFails} \subseteq Nat

VARIABLES
  inodes,    \* the files ever created: name and size
  dir,       \* dir[l]: the inode that name l stands for, 0 if none
  fd,        \* fd[l]: the inode that a running iperf appends to, 0 if none
  clients,   \* the FileClients; m_fileclient is the last one
  conns,     \* the connections, with the FileSaveSocket at the console's end
  owner,     \* owner[t]: the FileClient whose enqueueFile was the t-th
  saved,     \* the files that a FileSaveSocket reported finished
  breaks, fails

vars == <<inodes, dir, fd, clients, conns, owner, saved, breaks, fails>>
disk == <<inodes, dir, fd>>

Header(l, n, t) == [kind |-> "header", log |-> l, size |-> n, ticket |-> t]
Body(n, i, nl) == [kind |-> "body", ino |-> n, i |-> i, nl |-> nl]
NoFile == [log |-> "none", size |-> 0, ticket |-> 0]

FreshClient ==
  [sock |-> "connecting", conn |-> 0, queue |-> <<>>, cur |-> 0, pos |-> 0,
   ticket |-> 0, wbuf |-> <<>>]
FreshConn(c) ==
  [client |-> c, up |-> TRUE, net |-> <<>>, unread |-> <<>>, reading |-> FALSE,
   file |-> NoFile, got |-> <<>>, glue |-> FALSE]

Init ==
  /\ inodes = <<>> /\ dir = [l \in Logs |-> 0] /\ fd = dir
  /\ clients = <<>> /\ conns = <<>> /\ owner = <<>> /\ saved = <<>>
  /\ breaks = 0 /\ fails = 0

-----------------------------------------------------------------------------
(* FileClient *)

AtEnd(c) == c.pos = inodes[c.cur].size
BytesToWrite(c) == Cardinality({i \in DOMAIN c.wbuf : c.wbuf[i].kind = "body"})
Chunk(n, i) == Body(n, i, i < inodes[n].size \/ inodes[n].name \notin Ragged)

\* Mutant: the loop does not stop at the end of the file.
FillPastEnd(c) ==
  LET n == IF BytesToWrite(c) < 2 THEN 2 - BytesToWrite(c) ELSE 0
  IN  [c EXCEPT !.pos = @ + n,
                !.wbuf = @ \o [i \in 1..n |-> Chunk(c.cur, c.pos + i)]]

(* The loop of onBytesWritten: at most two chunks wait in the socket.      *)
Fill(c) ==
  LET room == IF BytesToWrite(c) < 2 THEN 2 - BytesToWrite(c) ELSE 0
      left == inodes[c.cur].size - c.pos
      n == IF room < left THEN room ELSE left
  IN  [c EXCEPT !.pos = @ + n,
                !.wbuf = @ \o [i \in 1..n |-> Chunk(c.cur, c.pos + i)]]

(* sendNextFile, with d for what names stand for: files that cannot be     *)
(* opened are skipped.                                                     *)
SendNextFile(c, d) ==
  LET S == {i \in DOMAIN c.queue : d[c.queue[i].log] # 0}
      k == CHOOSE i \in S : \A j \in S : i <= j
      e == c.queue[k]
  IN  IF S = {} THEN [c EXCEPT !.queue = <<>>]
      ELSE Fill([c EXCEPT
             !.queue = SubSeq(@, k + 1, Len(@)),
             !.cur = d[e.log], !.pos = 0, !.ticket = e.ticket,
             !.wbuf = Append(@, Header(e.log, inodes[d[e.log]].size, e.ticket))])

Closed(c) == [c EXCEPT !.cur = 0, !.pos = 0, !.ticket = 0]

\* Mutant: the next file is not sent when one is done.
OnBytesWrittenStops(k, c) ==
  IF c.cur # 0 /\ AtEnd(c) /\ c.wbuf = <<>>
  THEN /\ dir' = [dir EXCEPT ![inodes[c.cur].name] = 0]
       /\ clients' = [clients EXCEPT ![k] = Closed(c)]
  ELSE /\ clients' = [clients EXCEPT ![k] = IF c.cur = 0 THEN c ELSE Fill(c)]
       /\ UNCHANGED dir

(* onBytesWritten: the file is removed, by its name, once the socket has   *)
(* taken its last byte.                                                    *)
OnBytesWritten(k, c) ==
  IF c.cur # 0 /\ AtEnd(c) /\ c.wbuf = <<>>
  THEN /\ dir' = [dir EXCEPT ![inodes[c.cur].name] = 0]
       /\ clients' = [clients EXCEPT ![k] = SendNextFile(Closed(c), dir')]
  ELSE /\ clients' = [clients EXCEPT ![k] = IF c.cur = 0 THEN c ELSE Fill(c)]
       /\ UNCHANGED dir

\* Mutant: the file is put in front of the queue.
EnqueueFileFirst(c, l, t) ==
  LET q == [c EXCEPT !.queue = <<[log |-> l, ticket |-> t]>> \o @]
  IN  CASE c.sock = "unconnected" -> [q EXCEPT !.sock = "connecting"]
        [] c.sock = "connected" /\ c.cur = 0 -> SendNextFile(q, dir)
        [] OTHER -> q

EnqueueFile(c, l, t) ==
  LET q == [c EXCEPT !.queue = Append(@, [log |-> l, ticket |-> t])]
  IN  CASE c.sock = "unconnected" -> [q EXCEPT !.sock = "connecting"]
        [] c.sock = "connected" /\ c.cur = 0 -> SendNextFile(q, dir)
        [] OTHER -> q

(* The socket is connected, and the console accepts.                       *)
OnConnected(k) ==
  /\ clients[k].sock = "connecting"
  /\ conns' = Append(conns, FreshConn(k))
  /\ LET c == [clients[k] EXCEPT !.sock = "connected", !.conn = Len(conns')]
     IN  clients' = [clients EXCEPT ![k] = IF c.cur = 0 THEN SendNextFile(c, dir) ELSE c]
  /\ UNCHANGED <<disk, owner, saved, breaks, fails>>

(* The attempt fails: no slot is connected to that.                        *)
ConnectFails(k) ==
  /\ clients[k].sock = "connecting" /\ breaks < MaxBreaks
  /\ clients' = [clients EXCEPT ![k].sock = "unconnected"]
  /\ breaks' = breaks + 1
  /\ UNCHANGED <<disk, conns, owner, saved, fails>>

\* Mutant: a file whose transfer was cut off is put back into the queue.
OnDisconnectedRequeues(k) ==
  /\ clients[k].sock = "connected" /\ ~conns[clients[k].conn].up
  /\ LET c == clients[k]
         q == IF c.cur = 0 THEN <<>>
              ELSE <<[log |-> inodes[c.cur].name, ticket |-> c.ticket]>>
     IN  clients' = [clients EXCEPT
           ![k] = Closed([c EXCEPT !.sock = "unconnected", !.wbuf = <<>>, !.queue = q \o @])]
  /\ UNCHANGED <<disk, conns, owner, saved, breaks, fails>>

OnDisconnected(k) ==
  /\ clients[k].sock = "connected" /\ ~conns[clients[k].conn].up
  /\ clients' = [clients EXCEPT
       ![k] = Closed([@ EXCEPT !.sock = "unconnected", !.wbuf = <<>>])]
  /\ UNCHANGED <<disk, conns, owner, saved, breaks, fails>>

(* The system takes something from the socket, and bytesWritten is emitted.*)
(* It takes it from a connection that broke unnoticed, too.                *)
Written(k) ==
  LET c == clients[k]
  IN  /\ c.sock = "connected" /\ c.wbuf # <<>>
      /\ conns' = IF conns[c.conn].up
                  THEN [conns EXCEPT ![c.conn].net = Append(@, Head(c.wbuf))]
                  ELSE conns
      /\ OnBytesWritten(k, [c EXCEPT !.wbuf = Tail(@)])
      /\ UNCHANGED <<inodes, fd, owner, saved, breaks, fails>>

-----------------------------------------------------------------------------
(* The daemon *)

(* A console connects: onNewClient puts a new FileClient in the place of   *)
(* the last one, which goes on.                                            *)
OnNewClient ==
  /\ Len(clients) < MaxClients
  /\ clients' = Append(clients, FreshClient)
  /\ UNCHANGED <<disk, conns, owner, saved, breaks, fails>>

(* An iperf starts: onStarted opens its log to append to it.               *)
OpenLog(l) ==
  /\ clients # <<>> /\ fd[l] = 0 /\ Len(inodes) < MaxRuns
  /\ IF dir[l] = 0
     THEN /\ inodes' = Append(inodes, [name |-> l, size |-> 0])
          /\ dir' = [dir EXCEPT ![l] = Len(inodes')]
     ELSE UNCHANGED <<inodes, dir>>
  /\ fd' = [fd EXCEPT ![l] = dir'[l]]
  /\ UNCHANGED <<clients, conns, owner, saved, breaks, fails>>

ToLogFile(l) ==
  /\ fd[l] # 0 /\ inodes[fd[l]].size < Chunks
  /\ inodes' = [inodes EXCEPT ![fd[l]].size = @ + 1]
  /\ UNCHANGED <<dir, fd, clients, conns, owner, saved, breaks, fails>>

(* The iperf ends: the log is closed, and handed to m_fileclient if it     *)
(* still exists.                                                           *)
OnFinished(l) ==
  /\ fd[l] # 0 /\ Len(owner) < MaxRuns
  /\ fd' = [fd EXCEPT ![l] = 0]
  /\ IF dir[l] # 0
     THEN /\ owner' = Append(owner, Len(clients))
          /\ clients' = [clients EXCEPT
               ![Len(clients)] = EnqueueFile(@, l, Len(owner'))]
     ELSE UNCHANGED <<owner, clients>>
  /\ UNCHANGED <<inodes, dir, conns, saved, breaks, fails>>

-----------------------------------------------------------------------------
(* The network, and the console *)

(* A connection breaks; some of what was sent still arrives.               *)
Break(j) ==
  /\ conns[j].up /\ breaks < MaxBreaks
  /\ \E n \in 0..Len(conns[j].net) :
       conns' = [conns EXCEPT ![j].up = FALSE, ![j].net = SubSeq(@, 1, n)]
  /\ breaks' = breaks + 1
  /\ UNCHANGED <<disk, clients, owner, saved, fails>>

(* Data arrives at a FileSaveSocket, and onReadyRead begins its loop; the   *)
(* console's thread runs one such loop at a time.                          *)
OnReadyRead(j) ==
  LET s == conns[j]
  IN  /\ \A i \in DOMAIN conns : conns[i].client = s.client => ~conns[i].reading
      /\ \E n \in 1..Len(s.net) :
           conns' = [conns EXCEPT
             ![j] = [s EXCEPT !.net = SubSeq(@, n + 1, Len(@)),
                              !.unread = @ \o SubSeq(s.net, 1, n), !.reading = TRUE]]
      /\ UNCHANGED <<disk, clients, owner, saved, breaks, fails>>

\* Mutant: a file is closed one read too late.
StoreLate(j, r) ==
  IF Len(r.got) <= r.file.size
  THEN conns' = [conns EXCEPT ![j] = r] /\ UNCHANGED saved
  ELSE /\ conns' = [conns EXCEPT ![j] = [r EXCEPT !.file = NoFile, !.got = <<>>]]
       /\ saved' = Append(saved, [conn |-> j, ticket |-> r.file.ticket,
                                  log |-> r.file.log, got |-> r.got])

(* The end of a turn of the loop, when r.got is there of r.file.           *)
Store(j, r) ==
  IF Len(r.got) < r.file.size
  THEN conns' = [conns EXCEPT ![j] = r] /\ UNCHANGED saved
  ELSE /\ conns' = [conns EXCEPT ![j] = [r EXCEPT !.file = NoFile, !.got = <<>>]]
       /\ saved' = Append(saved, [conn |-> j, ticket |-> r.file.ticket,
                                  log |-> r.file.log, got |-> r.got])

Opened(x) == [log |-> x.log, size |-> x.size, ticket |-> x.ticket]

\* Mutant: an empty file is not finished by its header.
ReadHeaderWaits(j, r, x) ==
  \/ /\ conns' = [conns EXCEPT ![j] = [r EXCEPT !.file = Opened(x)]]
     /\ UNCHANGED <<saved, fails>>
  \/ /\ fails < MaxFails
     /\ fails' = fails + 1
     /\ conns' = [conns EXCEPT ![j] = [r EXCEPT !.reading = FALSE]]
     /\ UNCHANGED saved

(* A header: if the file cannot be opened, onReadyRead returns, and the    *)
(* rest waits for more data to arrive.                                     *)
ReadHeader(j, r, x) ==
  \/ Store(j, [r EXCEPT !.file = Opened(x)]) /\ UNCHANGED fails
  \/ /\ fails < MaxFails
     /\ fails' = fails + 1
     /\ conns' = [conns EXCEPT ![j] = [r EXCEPT !.reading = FALSE]]
     /\ UNCHANGED saved

(* One turn of the loop, x being next in the socket: with a file, it takes *)
(* no more than what is missing of it; without, it reads a line, which is  *)
(* a header, or is skipped.  A line without its newline becomes one line   *)
(* with the header behind it.                                              *)
ReadNext(j) ==
  LET s == conns[j]
      x == Head(s.unread)
      r == [s EXCEPT !.unread = Tail(@), !.reading = Len(s.unread) > 1]
  IN  /\ s.reading
      /\ CASE s.file # NoFile ->
               Store(j, [r EXCEPT !.got = Append(@, x)]) /\ UNCHANGED fails
           [] s.file = NoFile /\ (x.kind = "body" \/ s.glue) ->
               /\ conns' = [conns EXCEPT ![j] = [r EXCEPT !.glue = x.kind = "body" /\ ~x.nl]]
               /\ UNCHANGED <<saved, fails>>
           [] OTHER -> ReadHeader(j, r, x)
      /\ UNCHANGED <<disk, clients, owner, breaks>>

-----------------------------------------------------------------------------
(* What the event loops of the daemon and of the console do by themselves. *)
Serve ==
  \/ \E k \in DOMAIN clients : OnConnected(k) \/ OnDisconnected(k) \/ Written(k)
  \/ \E j \in DOMAIN conns : OnReadyRead(j) \/ ReadNext(j)

Next ==
  \/ Serve
  \/ OnNewClient
  \/ \E l \in Logs : OpenLog(l) \/ ToLogFile(l) \/ OnFinished(l)
  \/ \E k \in DOMAIN clients : ConnectFails(k)
  \/ \E j \in DOMAIN conns : Break(j)

(* Event loops go on: some socket is served while one waits for it.        *)
(* Nothing is said of iperf and of the consoles.                           *)
Spec == Init /\ [][Next]_vars /\ WF_vars(Serve)

-----------------------------------------------------------------------------
Tickets == 1..MaxRuns
Inodes == 1..MaxRuns
Items ==
  [kind : {"header"}, log : Logs, size : 0..Chunks, ticket : Tickets]
    \cup [kind : {"body"}, ino : Inodes, i : 1..Chunks, nl : BOOLEAN]

(* The state of files, file clients, connections and file save sockets.    *)
TypeOK ==
  /\ inodes \in Seq([name : Logs, size : 0..Chunks])
  /\ dir \in [Logs -> 0..Len(inodes)]
  /\ fd \in [Logs -> 0..Len(inodes)]
  /\ clients \in Seq([sock : {"unconnected", "connecting", "connected"},
                      conn : 0..Len(conns),
                      queue : Seq([log : Logs, ticket : Tickets]),
                      cur : 0..Len(inodes), pos : 0..Chunks,
                      ticket : Tickets \cup {0}, wbuf : Seq(Items)])
  /\ conns \in Seq([client : 1..Len(clients), up : BOOLEAN, net : Seq(Items),
                    unread : Seq(Items), reading : BOOLEAN,
                    file : [log : Logs, size : 0..Chunks, ticket : Tickets] \cup {NoFile},
                    got : Seq(Items), glue : BOOLEAN])
  /\ owner \in Seq(1..MaxClients)
  /\ saved \in Seq([conn : 1..Len(conns), ticket : Tickets, log : Logs, got : Seq(Items)])
  /\ breaks \in 0..MaxBreaks /\ fails \in 0..MaxFails

(* A file that the console reports finished holds the beginning of one log *)
(* of that name, in order and with nothing of another file in it, whatever *)
(* broke, was skipped, or was written meanwhile (onReadyRead's qMin and    *)
(* its header line; onBytesWritten, sendNextFile).                         *)
FinishedIsWhole ==
  \A s \in Range(saved) : \E n \in DOMAIN inodes :
    /\ inodes[n].name = s.log
    /\ \A i \in DOMAIN s.got :
         s.got[i].kind = "body" /\ s.got[i].ino = n /\ s.got[i].i = i

(* The requests that are somewhere between the queue and the console's disk. *)
HeaderTickets(q) == {x.ticket : x \in {y \in Range(q) : y.kind = "header"}}
HeldBy(c) ==
  {e.ticket : e \in Range(c.queue)} \cup HeaderTickets(c.wbuf)
    \cup (IF c.cur = 0 THEN {} ELSE {c.ticket})
OnTheWay(s) ==
  HeaderTickets(s.net \o s.unread) \cup (IF s.file = NoFile THEN {} ELSE {s.file.ticket})
Arrived == [i \in DOMAIN saved |-> <<saved[i].ticket, conns[saved[i].conn].client>>]
Open ==
  ((UNION {HeldBy(c) : c \in Range(clients)}) \cup (UNION {OnTheWay(s) : s \in Range(conns)}))
    \ {s.ticket : s \in Range(saved)}

Delivery == INSTANCE LogDelivery
              WITH Consoles <- 1..MaxClients, open <- Open, arrived <- Arrived

(* The logs that one connection brings are finished in the order in which  *)
(* the daemon handed them in, whatever was skipped (the queue of           *)
(* FileClient, the loop of onReadyRead).                                   *)
InRequestOrder ==
  \A b \in DOMAIN saved, a \in DOMAIN saved :
    a < b /\ saved[a].conn = saved[b].conn => saved[a].ticket < saved[b].ticket

(* The upload implements LogDelivery: no log is stored twice for one       *)
(* request, nor at another console than m_fileclient's, nor after the      *)
(* request was given up (the queue of FileClient, the states of            *)
(* FileSaveSocket).                                                        *)
AtMostOnce == Delivery!Spec

(* Connected file clients work their queues off: bytesWritten, which drives *)
(* them, never ceases while something waits (onBytesWritten, sendNextFile, *)
(* enqueueFile).                                                           *)
Waiting ==
  \E k \in DOMAIN clients : clients[k].sock = "connected" /\ clients[k].queue # <<>>
QueueDrains == Waiting ~> ~Waiting

(* While no connection breaks and the console opens every file, no request *)
(* is held up for ever, in either program.                                 *)
Held == Open # {} /\ breaks + fails = 0
EveryRequestEnds == Held ~> ~Held
=============================================================================
