-------------------------- MODULE FileTransferProofs --------------------------
(***************************************************************************)
(* Proofs about FileTransfer, for every set of logs, every number of       *)
(* consoles, files, chunks, broken connections and files that cannot be    *)
(* opened: what arrives is whole, each request is served at most once and  *)
(* in order, and the upload implements LogDelivery.                        *)
(***************************************************************************)
EXTENDS FileTransfer, FiniteSetTheorems, WellFoundedInduction, TLAPS

(* The invariant is stated of given clients, connections, requests, saved  *)
(* and log files, because a step of a client is two steps of it: what came *)
(* to the client, and what the client then goes on to send.                *)

QueueEntry == [log : Logs, ticket : Tickets]
Client(m, n) ==
  [sock : {"unconnected", "connecting", "connected"}, conn : 0..m,
   queue : Seq(QueueEntry), cur : 0..n, pos : 0..Chunks,
   ticket : Tickets \cup {0}, wbuf : Seq(Items)]
Conn(m) ==
  [client : 1..m, up : BOOLEAN, net : Seq(Items), unread : Seq(Items), reading : BOOLEAN,
   file : [log : Logs, size : 0..Chunks, ticket : Tickets] \cup {NoFile},
   got : Seq(Items), glue : BOOLEAN]
SavedFile(m) == [conn : 1..m, ticket : Tickets, log : Logs, got : Seq(Items)]
Files(ino) == ino \in Seq([name : Logs, size : 0..Chunks])

Typed(cl, co, ow, sa, ino) ==
  /\ Files(ino) /\ Len(ino) <= MaxRuns
  /\ cl \in Seq(Client(Len(co), Len(ino))) /\ Len(cl) <= MaxClients
  /\ co \in Seq(Conn(Len(cl)))
  /\ ow \in Seq(1..MaxClients) /\ Len(ow) <= MaxRuns
  /\ sa \in Seq(SavedFile(Len(co)))

ClientOK(c, ino) ==
  /\ c.cur = 0 => c.wbuf = <<>>
  /\ c.cur # 0 => c.sock = "connected" /\ c.pos <= ino[c.cur].size
ReaderOK(s) ==
  /\ s.file # NoFile => Len(s.got) < s.file.size
  /\ s.file = NoFile => s.got = <<>>
  /\ s.reading => s.unread # <<>>

\* A connection that is up is its client's, and no other of it is younger.
LinkInv(cl, co) ==
  /\ \A j \in DOMAIN co :
       /\ co[j].up => cl[co[j].client].conn = j /\ cl[co[j].client].sock = "connected"
       /\ j <= cl[co[j].client].conn
  /\ \A k \in DOMAIN cl :
       /\ cl[k].sock = "connected" => cl[k].conn # 0
       /\ cl[k].conn # 0 => co[cl[k].conn].client = k

\* What is on the line of connection j, from the file that is begun at the
\* console to what the daemon's socket still holds.
Begun(s) ==
  IF s.file = NoFile THEN <<>>
  ELSE <<Header(s.file.log, s.file.size, s.file.ticket)>> \o s.got
InFlight(s) == Begun(s) \o (s.unread \o s.net)
Line(cl, co, j) == InFlight(co[j]) \o (IF co[j].up THEN cl[co[j].client].wbuf ELSE <<>>)

\* Behind each header come the chunks of one file of that name, in order; if
\* they are not all there, the client is sending that file, and got so far.
Follows(L, p, n) ==
  \A i \in DOMAIN L : p < i /\ i <= p + L[p].size =>
    L[i].kind = "body" /\ L[i].ino = n /\ L[i].i = i - p
Heads(L, p, n, live, cur, pos, ino) ==
  /\ ino[n].name = L[p].log /\ L[p].size <= ino[n].size
  /\ Follows(L, p, n)
  /\ live /\ Len(L) < p + L[p].size => cur = n /\ pos = Len(L) - p
Wired(L, live, cur, pos, ino) ==
  \A p \in DOMAIN L : L[p].kind = "header" =>
    \E n \in DOMAIN ino : Heads(L, p, n, live, cur, pos, ino)
WireInv(cl, co, ino) ==
  \A j \in DOMAIN co :
    Wired(Line(cl, co, j), co[j].up, cl[co[j].client].cur, cl[co[j].client].pos, ino)

\* The requests that connection j took: stored, or with a header on its line.
Stored(sa, j) == {sa[i].ticket : i \in {i \in DOMAIN sa : sa[i].conn = j}}
Lined(L) == {L[p].ticket : p \in {p \in DOMAIN L : L[p].kind = "header"}}
Took(cl, co, sa, j) == Stored(sa, j) \cup Lined(Line(cl, co, j))
Queued(c) == {c.queue[i].ticket : i \in DOMAIN c.queue}
Below(S, T) == \A a \in S, b \in T : a < b
OwnedBy(S, k, ow) == \A t \in S : t \in DOMAIN ow /\ ow[t] = k
Rising(L) ==
  \A p, q \in DOMAIN L :
    p < q /\ L[p].kind = "header" /\ L[q].kind = "header" => L[p].ticket < L[q].ticket
QueueRises(q) == \A a, b \in DOMAIN q : a < b => q[a].ticket < q[b].ticket

QueueInv(cl, ow) ==
  \A k \in DOMAIN cl : QueueRises(cl[k].queue) /\ OwnedBy(Queued(cl[k]), k, ow)
OrderInv(cl, co, ow, sa) ==
  \A j \in DOMAIN co :
    /\ Rising(Line(cl, co, j)) /\ Below(Stored(sa, j), Lined(Line(cl, co, j)))
    /\ OwnedBy(Took(cl, co, sa, j), co[j].client, ow)
    /\ Below(Took(cl, co, sa, j), Queued(cl[co[j].client]))
ConnOrderInv(cl, co, sa) ==
  \A i, j \in DOMAIN co :
    i < j /\ co[i].client = co[j].client => Below(Took(cl, co, sa, i), Took(cl, co, sa, j))

Core(cl, co, ow, sa, ino) ==
  /\ Typed(cl, co, ow, sa, ino)
  /\ \A k \in DOMAIN cl : ClientOK(cl[k], ino)
  /\ \A j \in DOMAIN co : ReaderOK(co[j])
  /\ LinkInv(cl, co) /\ WireInv(cl, co, ino)
  /\ QueueInv(cl, ow) /\ OrderInv(cl, co, ow, sa) /\ ConnOrderInv(cl, co, sa)

DiskInv ==
  \A l \in Logs : /\ dir[l] # 0 => inodes[dir[l]].name = l
                  /\ fd[l] # 0 => clients # <<>>

IInv ==
  /\ TypeOK /\ Core(clients, conns, owner, saved, inodes) /\ DiskInv
  /\ FinishedIsWhole /\ InRequestOrder
-----------------------------------------------------------------------------
(* Sequences *)

LEMMA SeqFacts ==
  ASSUME NEW S, NEW s \in Seq(S)
  PROVE  /\ Len(s) \in Nat /\ DOMAIN s = 1..Len(s)
         /\ \A i \in DOMAIN s : s[i] \in S
         /\ s \o <<>> = s /\ <<>> \o s = s
         /\ <<>> \in Seq(S)
OBVIOUS

LEMMA SameSeq ==
  ASSUME NEW S, NEW s \in Seq(S), NEW t \in Seq(S), Len(s) = Len(t),
         \A i \in 1..Len(s) : s[i] = t[i]
  PROVE  s = t
OBVIOUS

LEMMA ConcatFacts ==
  ASSUME NEW S, NEW s \in Seq(S), NEW t \in Seq(S)
  PROVE  /\ s \o t \in Seq(S)
         /\ Len(s \o t) = Len(s) + Len(t) /\ Len(s) \in Nat /\ Len(t) \in Nat
         /\ DOMAIN (s \o t) = 1..(Len(s) + Len(t))
         /\ \A i \in 1..Len(s) : (s \o t)[i] = s[i]
         /\ \A i \in 1..Len(t) : (s \o t)[Len(s) + i] = t[i]
         /\ \A i \in (Len(s) + 1)..(Len(s) + Len(t)) : (s \o t)[i] = t[i - Len(s)]
OBVIOUS

LEMMA ConcatAssoc ==
  ASSUME NEW S, NEW s \in Seq(S), NEW t \in Seq(S), NEW u \in Seq(S)
  PROVE  (s \o t) \o u = s \o (t \o u)
OBVIOUS

LEMMA AppendFacts ==
  ASSUME NEW S, NEW s \in Seq(S), NEW e \in S
  PROVE  /\ Append(s, e) \in Seq(S) /\ Append(s, e) = s \o <<e>>
         /\ <<e>> \in Seq(S) /\ Len(<<e>>) = 1 /\ <<e>>[1] = e
         /\ Len(Append(s, e)) = Len(s) + 1 /\ Len(s) \in Nat
         /\ DOMAIN Append(s, e) = 1..(Len(s) + 1)
         /\ \A i \in 1..Len(s) : Append(s, e)[i] = s[i]
         /\ Append(s, e)[Len(s) + 1] = e
OBVIOUS

LEMMA HeadTail ==
  ASSUME NEW S, NEW s \in Seq(S), s # <<>>
  PROVE  /\ Head(s) \in S /\ Tail(s) \in Seq(S) /\ Head(s) = s[1]
         /\ s = <<Head(s)>> \o Tail(s) /\ <<Head(s)>> \in Seq(S)
         /\ Len(Tail(s)) = Len(s) - 1 /\ Len(s) \in Nat /\ Len(s) # 0
         /\ \A i \in 1..Len(Tail(s)) : Tail(s)[i] = s[i + 1]
OBVIOUS

LEMMA SubSeqFacts ==
  ASSUME NEW S, NEW s \in Seq(S), NEW m \in Nat, NEW n \in Nat, 1 <= m, n <= Len(s)
  PROVE  /\ SubSeq(s, m, n) \in Seq(S)
         /\ Len(SubSeq(s, m, n)) = IF m <= n THEN n - m + 1 ELSE 0
         /\ \A i \in 1..Len(SubSeq(s, m, n)) : SubSeq(s, m, n)[i] = s[m + i - 1]
OBVIOUS

LEMMA Splits ==
  ASSUME NEW S, NEW s \in Seq(S), NEW n \in 0..Len(s)
  PROVE  SubSeq(s, 1, n) \o SubSeq(s, n + 1, Len(s)) = s
<1>1. Len(s) \in Nat /\ n \in Nat
  OBVIOUS
<1>2. /\ SubSeq(s, 1, n) \in Seq(S) /\ Len(SubSeq(s, 1, n)) = n
      /\ \A i \in 1..n : SubSeq(s, 1, n)[i] = s[i]
  BY <1>1, SubSeqFacts
<1>3. /\ SubSeq(s, n + 1, Len(s)) \in Seq(S)
      /\ Len(SubSeq(s, n + 1, Len(s))) = Len(s) - n
      /\ \A i \in 1..(Len(s) - n) : SubSeq(s, n + 1, Len(s))[i] = s[n + i]
  BY <1>1, SubSeqFacts
<1> DEFINE t == SubSeq(s, 1, n)
           u == SubSeq(s, n + 1, Len(s))
<1> HIDE DEF t, u
<1>4. /\ t \in Seq(S) /\ u \in Seq(S) /\ Len(t) = n /\ Len(u) = Len(s) - n
      /\ \A i \in 1..n : t[i] = s[i]
      /\ \A i \in 1..(Len(s) - n) : u[i] = s[n + i]
  BY <1>2, <1>3 DEF t, u
<1>5. t \o u \in Seq(S) /\ Len(t \o u) = Len(s)
  BY <1>1, <1>4, ConcatFacts
<1>6. \A i \in 1..n : (t \o u)[i] = s[i]
  BY <1>1, <1>4, ConcatFacts
<1>7. \A i \in (n + 1)..Len(s) : (t \o u)[i] = s[i]
  <2> TAKE i \in (n + 1)..Len(s)
  <2>1. i - n \in 1..(Len(s) - n) /\ n + (i - n) = i
    BY <1>1
  <2>2. (t \o u)[i] = u[i - n]
    BY <1>1, <1>4, ConcatFacts
  <2> QED  BY <1>4, <2>1, <2>2
<1>8. \A i \in 1..Len(s) : (t \o u)[i] = s[i]
  <2> TAKE i \in 1..Len(s)
  <2>1. i \in 1..n \/ i \in (n + 1)..Len(s)
    BY <1>1
  <2> QED  BY <1>6, <1>7, <2>1
<1>9. t \o u = s
  BY <1>5, <1>8, SameSeq
<1> QED  BY <1>9 DEF t, u
-----------------------------------------------------------------------------
(* Items, and what is on a line *)

LEMMA ItemsAssoc == \A s, t, u \in Seq(Items) : (s \o t) \o u = s \o (t \o u)
BY ConcatAssoc

LEMMA ItemsAppend ==
  \A s \in Seq(Items), e \in Items : Append(s, e) \in Seq(Items) /\ Append(s, e) = s \o <<e>>
BY AppendFacts

LEMMA ItemFacts ==
  ASSUME NEW x \in Items
  PROVE  /\ x.kind = "header" \/ x.kind = "body"
         /\ x.kind = "header" =>
              /\ x.log \in Logs /\ x.size \in 0..Chunks /\ x.ticket \in Tickets
              /\ x = Header(x.log, x.size, x.ticket)
BY DEF Items, Header

LEMMA HeaderIsItem ==
  ASSUME NEW l \in Logs, NEW n \in 0..Chunks, NEW t \in Tickets
  PROVE  /\ Header(l, n, t) \in Items
         /\ Header(l, n, t).kind = "header" /\ Header(l, n, t).log = l
         /\ Header(l, n, t).size = n /\ Header(l, n, t).ticket = t
BY DEF Items, Header

LEMMA BodyIsItem ==
  ASSUME NEW n \in Inodes, NEW i \in 1..Chunks, NEW nl \in BOOLEAN
  PROVE  /\ Body(n, i, nl) \in Items /\ Body(n, i, nl).kind = "body"
         /\ Body(n, i, nl).ino = n /\ Body(n, i, nl).i = i
BY DEF Items, Body

\* The first items are taken off the line.
LEMMA WireDrop ==
  ASSUME NEW L \in Seq(Items), NEW M \in Seq(Items), NEW m \in Nat,
         Len(L) = m + Len(M), \A i \in 1..Len(M) : M[i] = L[m + i],
         NEW live \in BOOLEAN, NEW cur, NEW pos, NEW ino,
         Wired(L, live, cur, pos, ino)
  PROVE  Wired(M, live, cur, pos, ino)
<1> SUFFICES ASSUME NEW p \in DOMAIN M, M[p].kind = "header"
             PROVE  \E n \in DOMAIN ino : Heads(M, p, n, live, cur, pos, ino)
  BY DEF Wired
<1>1. Len(L) \in Nat /\ Len(M) \in Nat /\ p \in 1..Len(M) /\ m + p \in DOMAIN L /\ DOMAIN L = 1..Len(L)
      /\ DOMAIN M = 1..Len(M)
  OBVIOUS
<1>2. M[p] = L[m + p]
  BY <1>1
<1>3. PICK n \in DOMAIN ino : Heads(L, m + p, n, live, cur, pos, ino)
  BY <1>1, <1>2 DEF Wired
<1>4. L[m + p] \in Items /\ L[m + p].size \in Nat
  <2>1. L[m + p] \in Items
    BY <1>1
  <2>2. L[m + p].size \in 0..Chunks
    BY <1>2, <2>1, ItemFacts
  <2> QED  BY <2>1, <2>2, FileTransferAssumption
<1>5. Follows(M, p, n)
  <2> SUFFICES ASSUME NEW i \in DOMAIN M, p < i, i <= p + M[p].size
               PROVE  M[i].kind = "body" /\ M[i].ino = n /\ M[i].i = i - p
    BY DEF Follows
  <2>1. /\ m + i \in DOMAIN L /\ M[i] = L[m + i] /\ m + p < m + i
        /\ m + i <= (m + p) + L[m + p].size /\ (m + i) - (m + p) = i - p
    BY <1>1, <1>2, <1>4, SMTT(30)
  <2> QED  BY <1>3, <2>1 DEF Heads, Follows
<1>6. live /\ Len(M) < p + M[p].size => cur = n /\ pos = Len(M) - p
  <2> SUFFICES ASSUME live, Len(M) < p + M[p].size
               PROVE  cur = n /\ pos = Len(M) - p
    OBVIOUS
  <2>1. Len(L) < (m + p) + L[m + p].size /\ Len(L) - (m + p) = Len(M) - p
    BY <1>1, <1>2, <1>4
  <2> QED  BY <1>3, <2>1 DEF Heads
<1>7. ino[n].name = M[p].log /\ M[p].size <= ino[n].size
  BY <1>2, <1>3 DEF Heads
<1> QED  BY <1>5, <1>6, <1>7 DEF Heads

\* The connection breaks, and the end of the line is lost.
LEMMA WireCut ==
  ASSUME NEW L \in Seq(Items), NEW M \in Seq(Items),
         Len(M) <= Len(L), \A i \in 1..Len(M) : M[i] = L[i],
         NEW live, NEW cur, NEW pos, NEW c, NEW q, NEW ino,
         Wired(L, live, cur, pos, ino)
  PROVE  Wired(M, FALSE, c, q, ino)
<1> SUFFICES ASSUME NEW p \in DOMAIN M, M[p].kind = "header"
             PROVE  \E n \in DOMAIN ino : Heads(M, p, n, FALSE, c, q, ino)
  BY DEF Wired
<1>1. /\ \A i \in DOMAIN M : i \in DOMAIN L /\ M[i] = L[i]
      /\ p \in DOMAIN L /\ M[p] = L[p]
  OBVIOUS
<1>2. PICK n \in DOMAIN ino : Heads(L, p, n, live, cur, pos, ino)
  BY <1>1 DEF Wired
<1>3. Follows(M, p, n)
  BY <1>1, <1>2 DEF Heads, Follows
<1>4. ino[n].name = M[p].log /\ M[p].size <= ino[n].size
  BY <1>1, <1>2 DEF Heads
<1> QED  BY <1>3, <1>4 DEF Heads

\* Chunks of the file that is being sent are added.
LEMMA WireFill ==
  ASSUME NEW L \in Seq(Items), NEW M \in Seq(Items), NEW m \in Nat,
         NEW cur, NEW pos \in Nat, NEW ino, NEW live,
         Len(M) = Len(L) + m, \A i \in 1..Len(L) : M[i] = L[i],
         \A i \in 1..m : /\ M[Len(L) + i].kind = "body"
                         /\ M[Len(L) + i].ino = cur /\ M[Len(L) + i].i = pos + i,
         Wired(L, TRUE, cur, pos, ino)
  PROVE  Wired(M, live, cur, pos + m, ino)
<1> SUFFICES ASSUME NEW p \in DOMAIN M, M[p].kind = "header"
             PROVE  \E n \in DOMAIN ino : Heads(M, p, n, live, cur, pos + m, ino)
  BY DEF Wired
<1>1. Len(L) \in Nat /\ p \in 1..(Len(L) + m) /\ DOMAIN L = 1..Len(L) /\ DOMAIN M = 1..(Len(L) + m)
  OBVIOUS
<1>2. p \in 1..Len(L)
  <2>1. CASE p > Len(L)
    <3>1. p - Len(L) \in 1..m /\ Len(L) + (p - Len(L)) = p
      BY <1>1, <2>1
    <3>2. M[p].kind = "body"
      BY <3>1
    <3> QED  BY <3>2
  <2> QED  BY <1>1, <2>1
<1>3. M[p] = L[p]
  BY <1>2
<1>4. PICK n \in DOMAIN ino : Heads(L, p, n, TRUE, cur, pos, ino)
  BY <1>1, <1>2, <1>3 DEF Wired
<1>5. L[p].size \in Nat
  <2>1. L[p] \in Items
    BY <1>1, <1>2
  <2>2. L[p].size \in 0..Chunks
    BY <1>3, <2>1, ItemFacts
  <2> QED  BY <2>2, FileTransferAssumption
<1>6. Len(L) < p + L[p].size => cur = n /\ pos = Len(L) - p
  BY <1>4 DEF Heads
<1>7. Follows(M, p, n)
  <2> SUFFICES ASSUME NEW i \in DOMAIN M, p < i, i <= p + M[p].size
               PROVE  M[i].kind = "body" /\ M[i].ino = n /\ M[i].i = i - p
    BY DEF Follows
  <2>1. CASE i <= Len(L)
    <3>1. i \in DOMAIN L /\ M[i] = L[i] /\ i <= p + L[p].size
      BY <1>1, <1>3, <2>1
    <3> QED  BY <1>4, <3>1 DEF Heads, Follows
  <2>2. CASE i > Len(L)
    <3>1. i - Len(L) \in 1..m /\ Len(L) + (i - Len(L)) = i
      BY <1>1, <2>2
    <3>2. M[i].kind = "body" /\ M[i].ino = cur /\ M[i].i = pos + (i - Len(L))
      BY <3>1
    <3>3. cur = n /\ pos = Len(L) - p
      BY <1>1, <1>2, <1>3, <1>5, <1>6, <2>2
    <3>4. pos + (i - Len(L)) = i - p
      BY <1>1, <1>2, <3>3
    <3> QED  BY <3>2, <3>3, <3>4
  <2> QED  BY <1>1, <2>1, <2>2
<1>8. live /\ Len(M) < p + M[p].size => cur = n /\ pos + m = Len(M) - p
  <2> SUFFICES ASSUME Len(M) < p + M[p].size
               PROVE  cur = n /\ pos + m = Len(M) - p
    OBVIOUS
  <2>1. Len(L) < p + L[p].size
    BY <1>1, <1>2, <1>3, <1>5
  <2> QED  BY <1>1, <1>2, <1>6, <2>1
<1>9. ino[n].name = M[p].log /\ M[p].size <= ino[n].size
  BY <1>3, <1>4 DEF Heads
<1> QED  BY <1>7, <1>8, <1>9 DEF Heads

\* The file that was being sent, if any, is on the line with all its chunks.
LEMMA WireClosed ==
  ASSUME NEW L \in Seq(Items), NEW cur \in Nat, NEW pos, NEW ino, Files(ino), NEW live,
         cur = 0 \/ pos = ino[cur].size, Wired(L, TRUE, cur, pos, ino),
         NEW c, NEW q
  PROVE  /\ Wired(L, live, c, q, ino)
         /\ \A p \in DOMAIN L : L[p].kind = "header" => p + L[p].size <= Len(L)
<1>1. ASSUME NEW p \in DOMAIN L, L[p].kind = "header"
      PROVE  /\ \E n \in DOMAIN ino : Heads(L, p, n, live, c, q, ino)
             /\ p + L[p].size <= Len(L)
  <2>1. PICK n \in DOMAIN ino : Heads(L, p, n, TRUE, cur, pos, ino)
    BY <1>1 DEF Wired
  <2>2. p \in 1..Len(L) /\ Len(L) \in Nat /\ L[p] \in Items
    OBVIOUS
  <2>3. L[p].size \in Nat
    BY <1>1, <2>2, ItemFacts, FileTransferAssumption
  <2>4. n # 0 /\ ino[n].size \in Nat
    <3>1. ino[n] \in [name : Logs, size : 0..Chunks] /\ DOMAIN ino = 1..Len(ino)
      BY SeqFacts DEF Files
    <3>2. ino[n].size \in 0..Chunks
      BY <3>1
    <3> QED  BY <3>1, <3>2, FileTransferAssumption
  <2>5. p + L[p].size <= Len(L)
    <3>1. CASE Len(L) < p + L[p].size
      <4>1. cur = n /\ pos = Len(L) - p /\ L[p].size <= ino[n].size
        BY <2>1, <3>1 DEF Heads
      <4> QED  BY <2>2, <2>3, <2>4, <3>1, <4>1
    <3> QED  BY <2>2, <2>3, <3>1
  <2>6. ~(Len(L) < p + L[p].size)
    BY <2>2, <2>3, <2>5
  <2> QED  BY <2>1, <2>5, <2>6 DEF Heads
<1> QED  BY <1>1 DEF Wired

\* The header of the next file is added.
LEMMA WireHeader ==
  ASSUME NEW L \in Seq(Items), NEW h \in Items, NEW ino, Files(ino), NEW n \in DOMAIN ino,
         NEW live, NEW c, NEW q, Wired(L, live, c, q, ino),
         \A p \in DOMAIN L : L[p].kind = "header" => p + L[p].size <= Len(L),
         h.kind = "header", ino[n].name = h.log, h.size <= ino[n].size
  PROVE  Wired(Append(L, h), TRUE, n, 0, ino)
<1> DEFINE M == Append(L, h)
<1> HIDE DEF M
<1>1. /\ M \in Seq(Items) /\ Len(M) = Len(L) + 1 /\ Len(L) \in Nat /\ DOMAIN M = 1..(Len(L) + 1)
      /\ \A i \in 1..Len(L) : M[i] = L[i]
      /\ M[Len(L) + 1] = h /\ DOMAIN L = 1..Len(L)
  BY DEF M
<1>2. ASSUME NEW p \in DOMAIN M, M[p].kind = "header"
      PROVE  \E k \in DOMAIN ino : Heads(M, p, k, TRUE, n, 0, ino)
  <2>1. CASE p = Len(L) + 1
    <3>1. Follows(M, p, n)
      BY <1>1, <2>1 DEF Follows
    <3>2. Len(M) - p = 0
      BY <1>1, <2>1
    <3> QED  BY <1>1, <2>1, <3>1, <3>2 DEF Heads
  <2>2. CASE p # Len(L) + 1
    <3>1. p \in DOMAIN L /\ M[p] = L[p]
      BY <1>1, <2>2
    <3>2. PICK k \in DOMAIN ino : Heads(L, p, k, live, c, q, ino)
      BY <1>2, <3>1 DEF Wired
    <3>3. p + L[p].size <= Len(L) /\ L[p].size \in Nat
      <4>1. L[p] \in Items
        BY <3>1
      <4> QED  BY <1>2, <3>1, <4>1, ItemFacts, FileTransferAssumption
    <3>4. Follows(M, p, k)
      <4>1. \A i \in DOMAIN M : i <= p + M[p].size => i \in DOMAIN L /\ M[i] = L[i]
        BY <1>1, <3>1, <3>3
      <4> QED  BY <3>1, <3>2, <4>1 DEF Heads, Follows
    <3>5. ~(Len(M) < p + M[p].size)
      BY <1>1, <3>1, <3>3
    <3> QED  BY <3>1, <3>2, <3>4, <3>5 DEF Heads
  <2> QED  BY <2>1, <2>2
<1> QED  BY <1>2 DEF Wired, M

\* Files are created, and grow.
LEMMA WireGrow ==
  ASSUME NEW L \in Seq(Items), NEW live, NEW cur, NEW pos, NEW ino, NEW ino2,
         Files(ino), Files(ino2),
         \A n \in DOMAIN ino : /\ n \in DOMAIN ino2 /\ ino2[n].name = ino[n].name
                               /\ ino[n].size <= ino2[n].size,
         Wired(L, live, cur, pos, ino)
  PROVE  Wired(L, live, cur, pos, ino2)
<1> SUFFICES ASSUME NEW p \in DOMAIN L, L[p].kind = "header"
             PROVE  \E n \in DOMAIN ino2 : Heads(L, p, n, live, cur, pos, ino2)
  BY DEF Wired
<1>1. PICK n \in DOMAIN ino : Heads(L, p, n, live, cur, pos, ino)
  BY DEF Wired
<1>2. L[p].size \in Nat
  <2>1. L[p] \in Items
    OBVIOUS
  <2> QED  BY <2>1, ItemFacts, FileTransferAssumption
<1>3. ino[n].size \in Nat /\ ino2[n].size \in Nat
  <2>1. ino[n] \in [name : Logs, size : 0..Chunks] /\ ino2[n] \in [name : Logs, size : 0..Chunks]
    BY SeqFacts DEF Files
  <2>2. ino[n].size \in 0..Chunks /\ ino2[n].size \in 0..Chunks
    BY <2>1
  <2> QED  BY <2>2, FileTransferAssumption
<1>4. ino2[n].name = L[p].log /\ L[p].size <= ino2[n].size
  BY <1>1, <1>2, <1>3 DEF Heads
<1> QED  BY <1>1, <1>4 DEF Heads
-----------------------------------------------------------------------------
(* What a FileClient writes to its socket *)

DirOK(d) ==
  /\ d \in [Logs -> 0..Len(inodes)]
  /\ \A l \in Logs : d[l] # 0 => inodes[d[l]].name = l
\* f is c with k chunks of its file read and written.
Filled(c, f, k) ==
  /\ f.sock = c.sock /\ f.conn = c.conn /\ f.queue = c.queue
  /\ f.cur = c.cur /\ f.ticket = c.ticket /\ f.pos = c.pos + k
  /\ Len(f.wbuf) = Len(c.wbuf) + k
  /\ \A i \in 1..Len(c.wbuf) : f.wbuf[i] = c.wbuf[i]
  /\ \A i \in 1..k : /\ f.wbuf[Len(c.wbuf) + i].kind = "body"
                     /\ f.wbuf[Len(c.wbuf) + i].ino = c.cur
                     /\ f.wbuf[Len(c.wbuf) + i].i = c.pos + i

LEMMA FileFacts ==
  ASSUME Files(inodes), NEW n \in 1..Len(inodes)
  PROVE  /\ inodes[n].name \in Logs /\ inodes[n].size \in 0..Chunks
         /\ inodes[n].size \in Nat /\ Chunks \in Nat /\ MaxRuns \in Nat
         /\ Len(inodes) \in Nat /\ DOMAIN inodes = 1..Len(inodes)
<1>1. inodes[n] \in [name : Logs, size : 0..Chunks]
  <2>1. inodes \in Seq([name : Logs, size : 0..Chunks])
    BY DEF Files
  <2>2. n \in DOMAIN inodes
    BY <2>1
  <2> QED  BY <2>1, <2>2, SeqFacts
<1>2. inodes[n].name \in Logs /\ inodes[n].size \in 0..Chunks
  BY <1>1
<1>3. Len(inodes) \in Nat /\ DOMAIN inodes = 1..Len(inodes)
  BY DEF Files
<1> QED  BY <1>2, <1>3, FileTransferAssumption

LEMMA FillFacts ==
  ASSUME Files(inodes), Len(inodes) <= MaxRuns, NEW m \in Nat,
         NEW c \in Client(m, Len(inodes)), c.cur # 0, c.pos <= inodes[c.cur].size
  PROVE  /\ Fill(c) \in Client(m, Len(inodes))
         /\ \E k \in Nat : Filled(c, Fill(c), k) /\ c.pos + k <= inodes[c.cur].size
<1> DEFINE B == {i \in DOMAIN c.wbuf : c.wbuf[i].kind = "body"}
           room == IF BytesToWrite(c) < 2 THEN 2 - BytesToWrite(c) ELSE 0
           left == inodes[c.cur].size - c.pos
           k == IF room < left THEN room ELSE left
           added == [i \in 1..k |-> Chunk(c.cur, c.pos + i)]
<1>1. /\ c.wbuf \in Seq(Items) /\ c.cur \in 1..Len(inodes) /\ c.pos \in Nat
      /\ c.pos \in 0..Chunks /\ c.queue \in Seq(QueueEntry) /\ c.conn \in 0..m
      /\ c.sock \in {"unconnected", "connecting", "connected"}
      /\ c.ticket \in Tickets \cup {0}
  <2>1. Len(inodes) \in Nat /\ Chunks \in Nat
    BY FileTransferAssumption DEF Files
  <2> QED  BY <2>1 DEF Client
<1>2. /\ inodes[c.cur].size \in Nat /\ inodes[c.cur].size <= Chunks /\ Chunks \in Nat
      /\ c.cur \in Inodes
  <2>1. inodes[c.cur].size \in 0..Chunks /\ Chunks \in Nat /\ MaxRuns \in Nat /\ Len(inodes) \in Nat
    BY <1>1, FileFacts
  <2> QED  BY <1>1, <2>1 DEF Inodes
<1>3. BytesToWrite(c) \in Nat
  <2>1. IsFiniteSet(1..Len(c.wbuf))
    BY <1>1, FS_Interval
  <2>2. B \subseteq 1..Len(c.wbuf)
    BY <1>1
  <2>3. IsFiniteSet(B)
    BY <2>1, <2>2, FS_Subset
  <2> QED  BY <2>3, FS_CardinalityType DEF BytesToWrite
<1>4. room \in Nat /\ left \in Nat
  <2>1. left \in Nat
    BY <1>1, <1>2
  <2>2. room \in Nat
    BY <1>3
  <2> QED  BY <2>1, <2>2
<1>5. k \in Nat /\ c.pos + k <= inodes[c.cur].size
  BY <1>1, <1>2, <1>4, SMTT(30)
<1>6. Fill(c) = [c EXCEPT !.pos = c.pos + k, !.wbuf = c.wbuf \o added]
  BY Zenon DEF Fill
<1> HIDE DEF room, left, k
<1>7. \A i \in 1..k : /\ Chunk(c.cur, c.pos + i) \in Items
                      /\ Chunk(c.cur, c.pos + i).kind = "body"
                      /\ Chunk(c.cur, c.pos + i).ino = c.cur
                      /\ Chunk(c.cur, c.pos + i).i = c.pos + i
  <2> TAKE i \in 1..k
  <2>1. c.pos + i \in 1..Chunks
    <3>1. i \in Nat /\ 1 <= i /\ i <= k
      BY <1>5
    <3>2. c.pos + i <= inodes[c.cur].size /\ 1 <= c.pos + i /\ c.pos + i \in Nat
      BY <1>1, <1>2, <1>5, <3>1, SMTT(30)
    <3> QED  BY <1>2, <3>2
  <2>2. (c.pos + i < inodes[c.cur].size \/ inodes[c.cur].name \notin Ragged) \in BOOLEAN
    OBVIOUS
  <2> QED  BY <1>2, <2>1, <2>2, BodyIsItem, ZenonT(30) DEF Chunk
<1>8. /\ added \in Seq(Items) /\ Len(added) = k
      /\ \A i \in 1..k : added[i] = Chunk(c.cur, c.pos + i)
  BY <1>5, <1>7
<1> HIDE DEF added
<1>9. /\ c.wbuf \o added \in Seq(Items) /\ Len(c.wbuf \o added) = Len(c.wbuf) + k
      /\ \A i \in 1..Len(c.wbuf) : (c.wbuf \o added)[i] = c.wbuf[i]
      /\ \A i \in 1..k : (c.wbuf \o added)[Len(c.wbuf) + i] = added[i]
  <2> DEFINE w == c.wbuf
  <2> HIDE DEF w
  <2>1. w \in Seq(Items)
    BY <1>1 DEF w
  <2>2. /\ w \o added \in Seq(Items) /\ Len(w \o added) = Len(w) + Len(added)
        /\ \A i \in 1..Len(w) : (w \o added)[i] = w[i]
        /\ \A i \in 1..Len(added) : (w \o added)[Len(w) + i] = added[i]
    <3>1. added \in Seq(Items)
      BY <1>8
    <3> QED  BY <2>1, <3>1, ConcatFacts
  <2> QED  BY <1>8, <2>2 DEF w
<1>10. c.pos + k \in 0..Chunks
  BY <1>1, <1>2, <1>5, SMTT(30)
<1>11. Fill(c) \in Client(m, Len(inodes))
  BY <1>1, <1>6, <1>9, <1>10 DEF Client
<1>12. /\ Fill(c).sock = c.sock /\ Fill(c).conn = c.conn /\ Fill(c).queue = c.queue
       /\ Fill(c).cur = c.cur /\ Fill(c).ticket = c.ticket /\ Fill(c).pos = c.pos + k
       /\ Fill(c).wbuf = c.wbuf \o added
  BY <1>6 DEF Client
<1>13. Filled(c, Fill(c), k)
  BY <1>7, <1>8, <1>9, <1>12 DEF Filled
<1> QED  BY <1>5, <1>11, <1>13

\* The client with the i-th file of its queue opened, and its header written.
Opens(c, i, d) ==
  [c EXCEPT !.queue = SubSeq(c.queue, i + 1, Len(c.queue)),
            !.cur = d[c.queue[i].log], !.pos = 0, !.ticket = c.queue[i].ticket,
            !.wbuf = Append(c.wbuf, Header(c.queue[i].log, inodes[d[c.queue[i].log]].size,
                                           c.queue[i].ticket))]

Less == {pair \in Nat \X Nat : pair[1] < pair[2]}

LEMMA LeastExists ==
  ASSUME NEW S \in SUBSET Nat, S # {}
  PROVE  (CHOOSE i \in S : \A j \in S : i <= j) \in S
<1>1. IsWellFoundedOn(Less, Nat)
  BY Zenon, NatLessThanWellFounded DEF OpToRel, Less
<1>2. PICK x \in S : \A y \in S : ~ (<<y, x>> \in Less)
  BY <1>1, WFMin, Zenon
<1>3. \A x1, y1 \in Nat : <<y1, x1>> \in Less <=> y1 < x1
  BY DEF Less
<1>4. \A y \in S : ~ (y < x) /\ y \in Nat /\ x \in Nat
  BY <1>2, <1>3
<1>5. \A y \in S : x <= y
  BY <1>4
<1> QED  BY <1>5

LEMMA SendFacts ==
  ASSUME NEW c, c.queue \in Seq(QueueEntry), NEW d
  PROVE  \/ SendNextFile(c, d) = [c EXCEPT !.queue = <<>>]
         \/ \E i \in DOMAIN c.queue :
              /\ d[c.queue[i].log] # 0
              /\ SendNextFile(c, d) = Fill(Opens(c, i, d))
<1> DEFINE S == {i \in DOMAIN c.queue : d[c.queue[i].log] # 0}
           k == CHOOSE i \in S : \A j \in S : i <= j
<1>1. CASE S = {}
  BY <1>1, Zenon DEF SendNextFile
<1>2. CASE S # {}
  <2>1. S \subseteq Nat
    OBVIOUS
  <2>2. k \in S
    BY <1>2, <2>1, LeastExists
  <2>3. SendNextFile(c, d) = Fill(Opens(c, k, d))
    BY <1>2, Zenon DEF SendNextFile, Opens
  <2> QED  BY <2>2, <2>3
<1> QED  BY <1>1, <1>2

\* g is c with the i-th file of its queue opened, and h written.
Opening(c, i, m, g, h) ==
  /\ g \in Client(m, Len(inodes)) /\ h \in Items
  /\ g.cur \in DOMAIN inodes /\ g.cur # 0 /\ g.pos = 0 /\ g.pos <= inodes[g.cur].size
  /\ g.sock = c.sock /\ g.conn = c.conn /\ g.ticket = c.queue[i].ticket
  /\ h.kind = "header" /\ h.log = inodes[g.cur].name /\ h.size = inodes[g.cur].size
  /\ h.ticket = c.queue[i].ticket
  /\ g.wbuf = Append(c.wbuf, h)
  /\ \A a \in DOMAIN g.queue : a + i \in DOMAIN c.queue /\ g.queue[a] = c.queue[a + i]

LEMMA OpensFacts ==
  ASSUME Files(inodes), Len(inodes) <= MaxRuns, NEW m \in Nat,
         NEW c \in Client(m, Len(inodes)), NEW d, DirOK(d),
         NEW i \in DOMAIN c.queue, d[c.queue[i].log] # 0
  PROVE  Opening(c, i, m, Opens(c, i, d),
                 Header(c.queue[i].log, inodes[d[c.queue[i].log]].size, c.queue[i].ticket))
<1> DEFINE g == Opens(c, i, d)
           e == c.queue[i]
           n == d[c.queue[i].log]
           h == Header(e.log, inodes[n].size, e.ticket)
           q == SubSeq(c.queue, i + 1, Len(c.queue))
<1>1. /\ c.queue \in Seq(QueueEntry) /\ c.wbuf \in Seq(Items) /\ c.conn \in 0..m
      /\ c.sock \in {"unconnected", "connecting", "connected"}
  BY DEF Client
<1>2. e \in QueueEntry /\ i \in 1..Len(c.queue) /\ Len(c.queue) \in Nat
  BY <1>1
<1>3. e.log \in Logs /\ e.ticket \in Tickets
  BY <1>2 DEF QueueEntry
<1>4. n \in 1..Len(inodes) /\ inodes[n].name = e.log
  <2>1. Len(inodes) \in Nat
    BY DEF Files
  <2> QED  BY <1>3, <2>1 DEF DirOK
<1>5. /\ inodes[n].size \in 0..Chunks /\ inodes[n].size \in Nat /\ Chunks \in Nat
      /\ Len(inodes) \in Nat /\ DOMAIN inodes = 1..Len(inodes)
  BY <1>4, FileFacts
<1>6. h \in Items /\ h.kind = "header" /\ h.log = e.log /\ h.size = inodes[n].size /\ h.ticket = e.ticket
  <2>1. \A l \in Logs, s \in 0..Chunks, t \in Tickets :
          /\ Header(l, s, t) \in Items
          /\ Header(l, s, t).kind = "header" /\ Header(l, s, t).log = l
          /\ Header(l, s, t).size = s /\ Header(l, s, t).ticket = t
    BY HeaderIsItem
  <2>2. inodes[n].size \in 0..Chunks
    BY <1>5
  <2> HIDE DEF e, n
  <2> QED  BY <1>3, <2>1, <2>2 DEF h
<1>7. /\ q \in Seq(QueueEntry) /\ Len(q) = Len(c.queue) - i
      /\ \A a \in 1..Len(q) : q[a] = c.queue[a + i]
  <2>1. i + 1 \in Nat /\ 1 <= i + 1
    BY <1>2
  <2>2. /\ q \in Seq(QueueEntry)
        /\ Len(q) = IF i + 1 <= Len(c.queue) THEN Len(c.queue) - (i + 1) + 1 ELSE 0
        /\ \A a \in 1..Len(q) : q[a] = c.queue[(i + 1) + a - 1]
    BY <1>1, <1>2, <2>1, SubSeqFacts, SMTT(30)
  <2>3. Len(q) = Len(c.queue) - i
    BY <1>2, <2>2
  <2>4. \A a \in 1..Len(q) : (i + 1) + a - 1 = a + i
    BY <1>2, <2>2
  <2> QED  BY <2>2, <2>3, <2>4
<1>8. Append(c.wbuf, h) \in Seq(Items)
  BY <1>1, <1>6, AppendFacts
<1>9. g = [c EXCEPT !.queue = q, !.cur = n, !.pos = 0, !.ticket = e.ticket, !.wbuf = Append(c.wbuf, h)]
  BY Zenon DEF Opens
<1> HIDE DEF g, e, n, h, q
<1>10. g \in Client(m, Len(inodes))
  <2>1. n \in 0..Len(inodes) /\ 0 \in 0..Chunks
    BY <1>4, <1>5
  <2> QED  BY <1>1, <1>3, <1>7, <1>8, <1>9, <2>1 DEF Client
<1>11. /\ g.sock = c.sock /\ g.conn = c.conn /\ g.ticket = e.ticket /\ g.cur = n /\ g.pos = 0
       /\ g.wbuf = Append(c.wbuf, h) /\ g.queue = q
  BY <1>9 DEF Client
<1>12. \A a \in DOMAIN q : a + i \in DOMAIN c.queue /\ q[a] = c.queue[a + i]
  <2>1. DOMAIN q = 1..Len(q) /\ DOMAIN c.queue = 1..Len(c.queue)
    BY <1>1, <1>7
  <2>2. \A a \in 1..(Len(c.queue) - i) : a + i \in 1..Len(c.queue)
    BY <1>2
  <2> QED  BY <1>7, <2>1, <2>2
<1>13. n # 0 /\ 0 <= inodes[n].size
  BY <1>4, <1>5
<1>14. Opening(c, i, m, g, h)
  BY <1>4, <1>5, <1>6, <1>10, <1>11, <1>12, <1>13 DEF e, Opening
<1> QED  BY <1>14 DEF g, e, n, h
-----------------------------------------------------------------------------
(* The requests on a line, and in a queue *)

LEMMA LinedConcat ==
  ASSUME NEW s \in Seq(Items), NEW t \in Seq(Items)
  PROVE  Lined(s \o t) = Lined(s) \cup Lined(t)
<1> DEFINE u == s \o t
<1> HIDE DEF u
<1>1. /\ Len(u) = Len(s) + Len(t) /\ Len(s) \in Nat /\ Len(t) \in Nat
      /\ DOMAIN u = 1..(Len(s) + Len(t))
      /\ \A i \in 1..Len(s) : u[i] = s[i]
      /\ \A i \in 1..Len(t) : u[Len(s) + i] = t[i]
      /\ \A i \in (Len(s) + 1)..(Len(s) + Len(t)) : u[i] = t[i - Len(s)]
      /\ DOMAIN s = 1..Len(s) /\ DOMAIN t = 1..Len(t)
  BY ConcatFacts DEF u
<1>2. ASSUME NEW x \in Lined(u) PROVE x \in Lined(s) \cup Lined(t)
  <2>1. PICK p \in DOMAIN u : u[p].kind = "header" /\ x = u[p].ticket
    BY DEF Lined
  <2>2. CASE p \in 1..Len(s)
    BY <1>1, <2>1, <2>2 DEF Lined
  <2>3. CASE p \in (Len(s) + 1)..(Len(s) + Len(t))
    <3>1. p - Len(s) \in DOMAIN t
      BY <1>1, <2>3
    <3> QED  BY <1>1, <2>1, <2>3, <3>1 DEF Lined
  <2> QED  BY <1>1, <2>1, <2>2, <2>3
<1>3. ASSUME NEW x \in Lined(s) PROVE x \in Lined(u)
  <2>1. PICK p \in DOMAIN s : s[p].kind = "header" /\ x = s[p].ticket
    BY DEF Lined
  <2>2. p \in DOMAIN u /\ u[p] = s[p]
    BY <1>1
  <2> QED  BY <2>1, <2>2 DEF Lined
<1>4. ASSUME NEW x \in Lined(t) PROVE x \in Lined(u)
  <2>1. PICK p \in DOMAIN t : t[p].kind = "header" /\ x = t[p].ticket
    BY DEF Lined
  <2>2. Len(s) + p \in DOMAIN u /\ u[Len(s) + p] = t[p]
    BY <1>1
  <2> QED  BY <2>1, <2>2 DEF Lined
<1> QED  BY <1>2, <1>3, <1>4 DEF u

\* A part of a line holds no more requests, and in the same order.
LEMMA LinePart ==
  ASSUME NEW L \in Seq(Items), NEW M \in Seq(Items), NEW m \in Nat,
         m + Len(M) <= Len(L), \A i \in 1..Len(M) : M[i] = L[m + i]
  PROVE  Lined(M) \subseteq Lined(L) /\ (Rising(L) => Rising(M))
<1>1. \A i \in DOMAIN M : m + i \in DOMAIN L /\ M[i] = L[m + i] /\ i \in Nat
  OBVIOUS
<1>2. Lined(M) \subseteq Lined(L)
  BY <1>1 DEF Lined
<1>3. ASSUME Rising(L) PROVE Rising(M)
  <2> SUFFICES ASSUME NEW p \in DOMAIN M, NEW q \in DOMAIN M, p < q,
                      M[p].kind = "header", M[q].kind = "header"
               PROVE  M[p].ticket < M[q].ticket
    BY DEF Rising
  <2>1. m + p < m + q
    BY <1>1
  <2> QED  BY <1>1, <1>3, <2>1 DEF Rising
<1> QED  BY <1>2, <1>3

\* Chunks change nothing.
LEMMA LineBodies ==
  ASSUME NEW L \in Seq(Items), NEW M \in Seq(Items), NEW m \in Nat,
         Len(M) = Len(L) + m, \A i \in 1..Len(L) : M[i] = L[i],
         \A i \in 1..m : M[Len(L) + i].kind = "body"
  PROVE  Lined(M) = Lined(L) /\ (Rising(L) => Rising(M))
<1>1. \A p \in DOMAIN M : M[p].kind = "header" => p \in DOMAIN L /\ M[p] = L[p]
  <2> SUFFICES ASSUME NEW p \in DOMAIN M, M[p].kind = "header"
               PROVE  p \in DOMAIN L /\ M[p] = L[p]
    OBVIOUS
  <2>1. Len(L) \in Nat /\ p \in 1..(Len(L) + m) /\ DOMAIN L = 1..Len(L)
    OBVIOUS
  <2>2. CASE p > Len(L)
    <3>1. p - Len(L) \in 1..m /\ Len(L) + (p - Len(L)) = p
      BY <2>1, <2>2
    <3>2. M[p].kind = "body"
      BY <3>1
    <3> QED  BY <3>2
  <2> QED  BY <2>1, <2>2
<1>2. \A p \in DOMAIN L : p \in DOMAIN M /\ M[p] = L[p]
  OBVIOUS
<1>3. Lined(M) = Lined(L)
  BY <1>1, <1>2 DEF Lined
<1> QED  BY <1>1, <1>3 DEF Rising

\* A later request's header is added.
LEMMA LineHeader ==
  ASSUME NEW L \in Seq(Items), NEW h \in Items, h.kind = "header"
  PROVE  /\ Lined(Append(L, h)) = Lined(L) \cup {h.ticket}
         /\ Rising(L) /\ (\A t \in Lined(L) : t < h.ticket) => Rising(Append(L, h))
<1> DEFINE M == Append(L, h)
<1> HIDE DEF M
<1>1. /\ DOMAIN M = 1..(Len(L) + 1) /\ DOMAIN L = 1..Len(L) /\ Len(L) \in Nat
      /\ \A i \in 1..Len(L) : M[i] = L[i]
      /\ M[Len(L) + 1] = h
  BY AppendFacts DEF M
<1>2. \A p \in DOMAIN M : p = Len(L) + 1 \/ (p \in DOMAIN L /\ M[p] = L[p])
  <2> TAKE p \in DOMAIN M
  <2>1. p = Len(L) + 1 \/ p \in 1..Len(L)
    BY <1>1
  <2>2. p \in 1..Len(L) => p \in DOMAIN L /\ M[p] = L[p]
    BY <1>1
  <2> QED  BY <2>1, <2>2
<1>3. Len(L) + 1 \in DOMAIN M /\ \A p \in DOMAIN L : p \in DOMAIN M /\ M[p] = L[p]
  BY <1>1
<1>4. Lined(M) = Lined(L) \cup {h.ticket}
  BY <1>1, <1>2, <1>3 DEF Lined
<1>5. ASSUME Rising(L), \A t \in Lined(L) : t < h.ticket
      PROVE  Rising(M)
  <2> SUFFICES ASSUME NEW p \in DOMAIN M, NEW q \in DOMAIN M, p < q,
                      M[p].kind = "header", M[q].kind = "header"
               PROVE  M[p].ticket < M[q].ticket
    BY DEF Rising
  <2>1. p \in DOMAIN L /\ M[p] = L[p]
    BY <1>1, <1>2
  <2>2. CASE q = Len(L) + 1
    BY <1>1, <1>5, <2>1, <2>2 DEF Lined
  <2>3. CASE q # Len(L) + 1
    BY <1>2, <1>5, <2>1, <2>3 DEF Rising
  <2> QED  BY <2>2, <2>3
<1> QED  BY <1>4, <1>5 DEF M

\* A client goes on: with its file, or with the next one.
Serves(c, f, d) ==
  \/ c.cur = 0 /\ f = SendNextFile(c, d)
  \/ c.cur # 0 /\ f = Fill(c)
  \/ f = c

LEMMA HeldByFacts ==
  ASSUME NEW c
  PROVE  HeldBy(c) = Queued(c) \cup Lined(c.wbuf) \cup (IF c.cur = 0 THEN {} ELSE {c.ticket})
<1>1. {e.ticket : e \in Range(c.queue)} = Queued(c)
  BY DEF Range, Queued
<1>2. HeaderTickets(c.wbuf) = Lined(c.wbuf)
  BY DEF HeaderTickets, Range, Lined
<1> QED  BY <1>1, <1>2 DEF HeldBy

\* What the steps of a client need to know of the state.
ServeContext(c, m, d) ==
  /\ Files(inodes) /\ Len(inodes) <= MaxRuns /\ m \in Nat /\ DirOK(d)
  /\ c \in Client(m, Len(inodes)) /\ ClientOK(c, inodes) /\ c.sock = "connected"

LEMMA FillClient ==
  ASSUME NEW c, NEW m, NEW d, ServeContext(c, m, d), c.cur # 0
  PROVE  LET f == Fill(c)
         IN  /\ f \in Client(m, Len(inodes)) /\ ClientOK(f, inodes)
             /\ f.sock = c.sock /\ f.conn = c.conn /\ f.queue = c.queue
             /\ HeldBy(f) = HeldBy(c)
<1> DEFINE f == Fill(c)
<1> HIDE DEF f
<1>1. /\ f \in Client(m, Len(inodes))
      /\ \E k \in Nat : Filled(c, f, k) /\ c.pos + k <= inodes[c.cur].size
  BY FillFacts DEF f, ServeContext, ClientOK
<1>2. PICK k \in Nat : Filled(c, f, k) /\ c.pos + k <= inodes[c.cur].size
  BY <1>1
<1>3. /\ f.sock = c.sock /\ f.conn = c.conn /\ f.queue = c.queue
      /\ f.cur = c.cur /\ f.ticket = c.ticket /\ f.pos = c.pos + k
  BY <1>2 DEF Filled
<1>4. ClientOK(f, inodes)
  BY <1>2, <1>3 DEF ClientOK, ServeContext
<1>5. c.wbuf \in Seq(Items) /\ f.wbuf \in Seq(Items)
  BY <1>1 DEF ServeContext, Client
<1>6. Lined(f.wbuf) = Lined(c.wbuf)
  BY <1>2, <1>5, LineBodies DEF Filled
<1>7. HeldBy(f) = HeldBy(c)
  BY <1>3, <1>6, HeldByFacts DEF Queued
<1> QED  BY <1>1, <1>3, <1>4, <1>7 DEF f

\* The queue behind its i-th entry.
LEMMA QueueRest ==
  ASSUME NEW c, c.queue \in Seq(QueueEntry), NEW i \in DOMAIN c.queue, NEW g,
         \A a \in DOMAIN g.queue : a + i \in DOMAIN c.queue /\ g.queue[a] = c.queue[a + i],
         g.queue \in Seq(QueueEntry)
  PROVE  /\ Queued(g) \subseteq Queued(c)
         /\ QueueRises(c.queue) =>
              /\ QueueRises(g.queue)
              /\ \A t \in Queued(g) : c.queue[i].ticket < t
<1>1. /\ DOMAIN g.queue = 1..Len(g.queue) /\ Len(g.queue) \in Nat
      /\ DOMAIN c.queue = 1..Len(c.queue) /\ Len(c.queue) \in Nat
  OBVIOUS
<1>2. Queued(g) \subseteq Queued(c)
  BY DEF Queued
<1>3. ASSUME QueueRises(c.queue) PROVE QueueRises(g.queue)
  <2> SUFFICES ASSUME NEW a \in DOMAIN g.queue, NEW b \in DOMAIN g.queue, a < b
               PROVE  g.queue[a].ticket < g.queue[b].ticket
    BY DEF QueueRises
  <2>1. a + i < b + i
    BY <1>1
  <2> QED  BY <1>3, <2>1 DEF QueueRises
<1>4. ASSUME QueueRises(c.queue), NEW t \in Queued(g) PROVE c.queue[i].ticket < t
  <2>1. PICK a \in DOMAIN g.queue : t = g.queue[a].ticket
    BY DEF Queued
  <2>2. i < a + i
    BY <1>1
  <2> QED  BY <1>4, <2>1, <2>2 DEF QueueRises
<1> QED  BY <1>2, <1>3, <1>4

LEMMA OpensClient ==
  ASSUME NEW c, NEW m, NEW d, ServeContext(c, m, d), c.cur = 0,
         NEW i \in DOMAIN c.queue, d[c.queue[i].log] # 0
  PROVE  LET g == Opens(c, i, d)
         IN  /\ ServeContext(g, m, d) /\ g.cur # 0
             /\ g.sock = c.sock /\ g.conn = c.conn
             /\ Queued(g) \subseteq Queued(c) /\ (QueueRises(c.queue) => QueueRises(g.queue))
             /\ HeldBy(g) \subseteq HeldBy(c)
<1> DEFINE g == Opens(c, i, d)
           h == Header(c.queue[i].log, inodes[d[c.queue[i].log]].size, c.queue[i].ticket)
<1> HIDE DEF g, h
<1>0. Files(inodes) /\ Len(inodes) <= MaxRuns /\ m \in Nat /\ DirOK(d) /\ c \in Client(m, Len(inodes))
  BY DEF ServeContext
<1>1. /\ g \in Client(m, Len(inodes)) /\ h \in Items
      /\ g.cur # 0 /\ g.pos = 0 /\ g.pos <= inodes[g.cur].size
      /\ g.sock = c.sock /\ g.conn = c.conn /\ g.ticket = c.queue[i].ticket
      /\ h.kind = "header" /\ h.ticket = c.queue[i].ticket /\ g.wbuf = Append(c.wbuf, h)
      /\ \A a \in DOMAIN g.queue : a + i \in DOMAIN c.queue /\ g.queue[a] = c.queue[a + i]
  <2>1. Opening(c, i, m, g, h)
    BY <1>0, OpensFacts, Zenon DEF g, h
  <2> QED  BY <2>1 DEF Opening
<1>2. c.queue \in Seq(QueueEntry) /\ g.queue \in Seq(QueueEntry) /\ c.wbuf \in Seq(Items)
  BY <1>1 DEF ServeContext, Client
<1>3. Queued(g) \subseteq Queued(c) /\ (QueueRises(c.queue) => QueueRises(g.queue))
  BY <1>1, <1>2, QueueRest
<1>4. ClientOK(g, inodes) /\ ServeContext(g, m, d)
  BY <1>1 DEF ClientOK, ServeContext
<1>5. Lined(g.wbuf) = Lined(c.wbuf) \cup {c.queue[i].ticket}
  BY <1>1, <1>2, LineHeader
<1>6. HeldBy(g) \subseteq HeldBy(c)
  <2>1. c.queue[i].ticket \in Queued(c)
    BY DEF Queued
  <2> QED  BY <1>1, <1>3, <1>5, <2>1, HeldByFacts
<1> QED  BY <1>1, <1>3, <1>4, <1>6 DEF g

\* A client that goes on holds no other request, and its queue stays in order.
LEMMA ServesClient ==
  ASSUME NEW c, NEW m, NEW d, ServeContext(c, m, d), NEW f, Serves(c, f, d)
  PROVE  /\ f \in Client(m, Len(inodes)) /\ ClientOK(f, inodes)
         /\ f.sock = c.sock /\ f.conn = c.conn
         /\ Queued(f) \subseteq Queued(c) /\ (QueueRises(c.queue) => QueueRises(f.queue))
         /\ HeldBy(f) \subseteq HeldBy(c)
<1>1. CASE f = c
  BY <1>1 DEF ServeContext
<1>2. CASE c.cur # 0 /\ f = Fill(c)
  BY <1>2, FillClient DEF Queued
<1>3. CASE c.cur = 0 /\ f = SendNextFile(c, d)
  <2>1. c.queue \in Seq(QueueEntry)
    BY DEF ServeContext, Client
  <2>2. CASE f = [c EXCEPT !.queue = <<>>]
    <3>1. f \in Client(m, Len(inodes))
      <4>1. <<>> \in Seq(QueueEntry)
        OBVIOUS
      <4>2. c \in Client(m, Len(inodes))
        BY DEF ServeContext
      <4> QED  BY <2>2, <4>1, <4>2 DEF Client
    <3>2. /\ f.queue = <<>> /\ f.cur = c.cur /\ f.pos = c.pos /\ f.wbuf = c.wbuf
          /\ f.sock = c.sock /\ f.conn = c.conn /\ f.ticket = c.ticket
      BY <2>2 DEF ServeContext, Client
    <3>3. Queued(f) = {} /\ QueueRises(f.queue)
      BY <3>2 DEF Queued, QueueRises
    <3>4. ClientOK(f, inodes)
      BY <3>2 DEF ServeContext, ClientOK
    <3> QED  BY <3>1, <3>2, <3>3, <3>4, HeldByFacts
  <2>3. CASE \E i \in DOMAIN c.queue : d[c.queue[i].log] # 0 /\ f = Fill(Opens(c, i, d))
    <3>1. PICK i \in DOMAIN c.queue : d[c.queue[i].log] # 0 /\ f = Fill(Opens(c, i, d))
      BY <2>3
    <3> DEFINE g == Opens(c, i, d)
    <3> HIDE DEF g
    <3>2. /\ ServeContext(g, m, d) /\ g.cur # 0
          /\ g.sock = c.sock /\ g.conn = c.conn
          /\ Queued(g) \subseteq Queued(c) /\ (QueueRises(c.queue) => QueueRises(g.queue))
          /\ HeldBy(g) \subseteq HeldBy(c)
      BY <1>3, <3>1, OpensClient DEF g
    <3>3. f = Fill(g)
      BY <3>1 DEF g
    <3>4. /\ f \in Client(m, Len(inodes)) /\ ClientOK(f, inodes)
          /\ f.sock = g.sock /\ f.conn = g.conn /\ f.queue = g.queue
          /\ HeldBy(f) = HeldBy(g)
      BY <3>2, <3>3, FillClient
    <3> QED  BY <3>2, <3>4 DEF Queued
  <2> QED  BY <1>3, <2>1, <2>2, <2>3, SendFacts
<1> QED  BY <1>1, <1>2, <1>3 DEF Serves

-----------------------------------------------------------------------------
(* The line of a client that goes on *)

LineOK(L, c) ==
  /\ Wired(L, TRUE, c.cur, c.pos, inodes) /\ Rising(L)
  /\ Below(Lined(L), Queued(c)) /\ QueueRises(c.queue)

LEMMA FillLine ==
  ASSUME NEW c, NEW m, NEW d, ServeContext(c, m, d), c.cur # 0,
         NEW I \in Seq(Items), LineOK(I \o c.wbuf, c)
  PROVE  /\ LineOK(I \o Fill(c).wbuf, Fill(c))
         /\ Lined(I \o Fill(c).wbuf) = Lined(I \o c.wbuf)
<1> DEFINE f == Fill(c)
           L == I \o c.wbuf
           M == I \o f.wbuf
<1> HIDE DEF f, L, M
<1>1. /\ f \in Client(m, Len(inodes))
      /\ \E k \in Nat : Filled(c, f, k) /\ c.pos + k <= inodes[c.cur].size
  BY FillFacts DEF f, ServeContext, ClientOK
<1>2. PICK k \in Nat : Filled(c, f, k)
  BY <1>1
<1>3. /\ f.queue = c.queue /\ f.cur = c.cur /\ f.pos = c.pos + k
      /\ Len(f.wbuf) = Len(c.wbuf) + k
      /\ \A i \in 1..Len(c.wbuf) : f.wbuf[i] = c.wbuf[i]
      /\ \A i \in 1..k : /\ f.wbuf[Len(c.wbuf) + i].kind = "body"
                         /\ f.wbuf[Len(c.wbuf) + i].ino = c.cur
                         /\ f.wbuf[Len(c.wbuf) + i].i = c.pos + i
  BY <1>2 DEF Filled
<1>4. c.wbuf \in Seq(Items) /\ f.wbuf \in Seq(Items) /\ c.pos \in Nat
  <2>1. c.wbuf \in Seq(Items) /\ f.wbuf \in Seq(Items) /\ c.pos \in 0..Chunks
    BY <1>1 DEF ServeContext, Client
  <2> QED  BY <2>1, FileTransferAssumption
<1>5. /\ L \in Seq(Items) /\ Len(L) = Len(I) + Len(c.wbuf)
      /\ Len(I) \in Nat /\ Len(c.wbuf) \in Nat
      /\ \A i \in 1..Len(I) : L[i] = I[i]
      /\ \A i \in 1..Len(c.wbuf) : L[Len(I) + i] = c.wbuf[i]
  BY <1>4, ConcatFacts DEF L
<1>6. /\ M \in Seq(Items) /\ Len(M) = Len(I) + Len(f.wbuf)
      /\ \A i \in 1..Len(I) : M[i] = I[i]
      /\ \A i \in 1..Len(f.wbuf) : M[Len(I) + i] = f.wbuf[i]
  BY <1>4, ConcatFacts DEF M
<1>7. Len(M) = Len(L) + k
  BY <1>3, <1>5, <1>6
<1>8. \A i \in 1..Len(L) : M[i] = L[i]
  <2> TAKE i \in 1..Len(L)
  <2>1. CASE i \in 1..Len(I)
    BY <1>5, <1>6, <2>1
  <2>2. CASE i \notin 1..Len(I)
    <3>1. i - Len(I) \in 1..Len(c.wbuf) /\ Len(I) + (i - Len(I)) = i
      BY <1>5, <2>2
    <3>2. i - Len(I) \in 1..Len(f.wbuf)
      BY <1>3, <1>5, <3>1
    <3> QED  BY <1>3, <1>5, <1>6, <3>1, <3>2
  <2> QED  BY <2>1, <2>2
<1>9. \A i \in 1..k : /\ M[Len(L) + i].kind = "body"
                     /\ M[Len(L) + i].ino = c.cur /\ M[Len(L) + i].i = c.pos + i
  <2> TAKE i \in 1..k
  <2>1. /\ Len(c.wbuf) + i \in 1..Len(f.wbuf)
        /\ Len(I) + (Len(c.wbuf) + i) = Len(L) + i
    BY <1>3, <1>5
  <2> QED  BY <1>3, <1>6, <2>1
<1>10. Wired(M, TRUE, f.cur, f.pos, inodes)
  <2>1. Wired(L, TRUE, c.cur, c.pos, inodes)
    BY DEF L, LineOK
  <2>2. Wired(M, TRUE, c.cur, c.pos + k, inodes)
    <3> DEFINE cur == c.cur
               pos == c.pos
    <3> HIDE DEF cur, pos
    <3>1. /\ \A i \in 1..k : /\ M[Len(L) + i].kind = "body"
                            /\ M[Len(L) + i].ino = cur /\ M[Len(L) + i].i = pos + i
          /\ Wired(L, TRUE, cur, pos, inodes) /\ pos \in Nat
      BY <1>4, <1>9, <2>1 DEF cur, pos
    <3>2. L \in Seq(Items) /\ M \in Seq(Items)
      BY <1>5, <1>6
    <3>3. Wired(M, TRUE, cur, pos + k, inodes)
      BY <1>7, <1>8, <3>1, <3>2, WireFill
    <3> QED  BY <3>3 DEF cur, pos
  <2> QED  BY <1>3, <2>2
<1>11. Lined(M) = Lined(L) /\ (Rising(L) => Rising(M))
  BY <1>5, <1>6, <1>7, <1>8, <1>9, LineBodies, ZenonT(30)
<1>12. Queued(f) = Queued(c)
  BY <1>3 DEF Queued
<1>13. Rising(L) /\ Below(Lined(L), Queued(c)) /\ QueueRises(c.queue)
  BY DEF L, LineOK
<1>14. LineOK(M, f)
  BY <1>3, <1>10, <1>11, <1>12, <1>13 DEF LineOK
<1> QED  BY <1>11, <1>14 DEF L, M, f

LEMMA OpensLine ==
  ASSUME NEW c, NEW m, NEW d, ServeContext(c, m, d), c.cur = 0,
         NEW i \in DOMAIN c.queue, d[c.queue[i].log] # 0,
         NEW I \in Seq(Items), LineOK(I \o c.wbuf, c)
  PROVE  LET g == Opens(c, i, d)
         IN  /\ LineOK(I \o g.wbuf, g)
             /\ Lined(I \o g.wbuf) \subseteq Lined(I \o c.wbuf) \cup Queued(c)
<1> DEFINE g == Opens(c, i, d)
           h == Header(c.queue[i].log, inodes[d[c.queue[i].log]].size, c.queue[i].ticket)
           L == I \o c.wbuf
           M == I \o g.wbuf
<1> HIDE DEF g, h, L, M
<1>0. Files(inodes) /\ Len(inodes) <= MaxRuns /\ m \in Nat /\ DirOK(d) /\ c \in Client(m, Len(inodes))
  BY DEF ServeContext
<1>1. /\ g \in Client(m, Len(inodes)) /\ h \in Items
      /\ g.cur \in DOMAIN inodes /\ g.pos = 0
      /\ h.kind = "header" /\ h.log = inodes[g.cur].name /\ h.size = inodes[g.cur].size
      /\ h.ticket = c.queue[i].ticket /\ g.wbuf = Append(c.wbuf, h)
      /\ \A a \in DOMAIN g.queue : a + i \in DOMAIN c.queue /\ g.queue[a] = c.queue[a + i]
  <2>1. Opening(c, i, m, g, h)
    BY <1>0, OpensFacts, Zenon DEF g, h
  <2> QED  BY <2>1 DEF Opening
<1>2. c.queue \in Seq(QueueEntry) /\ g.queue \in Seq(QueueEntry) /\ c.wbuf \in Seq(Items)
  BY <1>1 DEF ServeContext, Client
<1>3. L \in Seq(Items) /\ M = Append(L, h)
  <2>1. L \in Seq(Items) /\ <<h>> \in Seq(Items)
    BY <1>1, <1>2, ConcatFacts, AppendFacts DEF L
  <2>2. \A s \in Seq(Items) : Append(s, h) = s \o <<h>>
    BY <1>1, AppendFacts
  <2>4. I \o (c.wbuf \o <<h>>) = (I \o c.wbuf) \o <<h>>
    BY <1>2, <2>1, ItemsAssoc
  <2> QED  BY <1>1, <1>2, <2>1, <2>2, <2>4 DEF L, M
<1>4. /\ Wired(L, TRUE, c.cur, c.pos, inodes) /\ Rising(L)
      /\ Below(Lined(L), Queued(c)) /\ QueueRises(c.queue)
  BY DEF L, LineOK
<1>5. Files(inodes) /\ c.cur \in Nat
  BY DEF ServeContext
<1>6. Wired(M, TRUE, g.cur, g.pos, inodes)
  <2>1. \A p \in DOMAIN L : L[p].kind = "header" => p + L[p].size <= Len(L)
    BY <1>3, <1>4, <1>5, WireClosed
  <2>2. h.size <= inodes[g.cur].size
    <3>1. inodes[g.cur].size \in Nat
      BY <1>1, <1>5, FileFacts DEF Files
    <3> QED  BY <1>1, <3>1
  <2>3. Wired(Append(L, h), TRUE, g.cur, 0, inodes)
    BY <1>1, <1>3, <1>4, <1>5, <2>1, <2>2, WireHeader
  <2> QED  BY <1>1, <1>3, <2>3
<1>7. /\ Queued(g) \subseteq Queued(c) /\ QueueRises(g.queue)
      /\ \A t \in Queued(g) : c.queue[i].ticket < t
  BY <1>1, <1>2, <1>4, QueueRest
<1>8. c.queue[i].ticket \in Queued(c)
  BY DEF Queued
<1>9. Lined(M) = Lined(L) \cup {h.ticket}
  BY <1>1, <1>3, LineHeader
<1>10. Rising(M)
  <2>1. \A t \in Lined(L) : t < h.ticket
    BY <1>1, <1>4, <1>8 DEF Below
  <2> QED  BY <1>1, <1>3, <1>4, <2>1, LineHeader
<1>11. Below(Lined(M), Queued(g))
  BY <1>1, <1>4, <1>7, <1>9 DEF Below
<1>12. LineOK(M, g)
  BY <1>6, <1>7, <1>10, <1>11 DEF LineOK
<1> QED  BY <1>1, <1>8, <1>9, <1>12 DEF L, M, g

\* A client that goes on puts on its line what the console can read, each
\* request behind those that were made before.
LEMMA ServesLine ==
  ASSUME NEW c, NEW m, NEW d, ServeContext(c, m, d), NEW f, Serves(c, f, d),
         NEW I \in Seq(Items), LineOK(I \o c.wbuf, c)
  PROVE  /\ LineOK(I \o f.wbuf, f)
         /\ Lined(I \o f.wbuf) \subseteq Lined(I \o c.wbuf) \cup Queued(c)
<1>1. CASE f = c
  BY <1>1
<1>2. CASE c.cur # 0 /\ f = Fill(c)
  BY <1>2, FillLine
<1>3. CASE c.cur = 0 /\ f = SendNextFile(c, d)
  <2>1. c.queue \in Seq(QueueEntry)
    BY DEF ServeContext, Client
  <2>2. CASE f = [c EXCEPT !.queue = <<>>]
    <3>1. f.queue = <<>> /\ f.cur = c.cur /\ f.pos = c.pos /\ f.wbuf = c.wbuf
      BY <2>2 DEF ServeContext, Client
    <3>2. Queued(f) = {} /\ QueueRises(f.queue)
      BY <3>1 DEF Queued, QueueRises
    <3> QED  BY <3>1, <3>2 DEF LineOK, Below
  <2>3. CASE \E i \in DOMAIN c.queue : d[c.queue[i].log] # 0 /\ f = Fill(Opens(c, i, d))
    <3>1. PICK i \in DOMAIN c.queue : d[c.queue[i].log] # 0 /\ f = Fill(Opens(c, i, d))
      BY <2>3
    <3> DEFINE g == Opens(c, i, d)
    <3> HIDE DEF g
    <3>2. ServeContext(g, m, d) /\ g.cur # 0
      BY <1>3, <3>1, OpensClient DEF g
    <3>3. /\ LineOK(I \o g.wbuf, g)
          /\ Lined(I \o g.wbuf) \subseteq Lined(I \o c.wbuf) \cup Queued(c)
      BY <1>3, <3>1, OpensLine DEF g
    <3>4. f = Fill(g)
      BY <3>1 DEF g
    <3> QED  BY <3>2, <3>3, <3>4, FillLine
  <2> QED  BY <1>3, <2>1, <2>2, <2>3, SendFacts
<1> QED  BY <1>1, <1>2, <1>3 DEF Serves
-----------------------------------------------------------------------------
(* The parts of the state *)

LEMMA ConnTypes ==
  ASSUME NEW m \in Nat, NEW s \in Conn(m)
  PROVE  /\ s.client \in 1..m /\ s.up \in BOOLEAN /\ s.reading \in BOOLEAN /\ s.glue \in BOOLEAN
         /\ s.net \in Seq(Items) /\ s.unread \in Seq(Items) /\ s.got \in Seq(Items)
         /\ s.file # NoFile =>
              s.file.log \in Logs /\ s.file.size \in 0..Chunks /\ s.file.ticket \in Tickets
BY DEF Conn

LEMMA BegunType ==
  ASSUME NEW m \in Nat, NEW s \in Conn(m)
  PROVE  Begun(s) \in Seq(Items) /\ InFlight(s) \in Seq(Items)
<1>1. Begun(s) \in Seq(Items)
  <2>1. CASE s.file = NoFile
    BY <2>1 DEF Begun
  <2>2. CASE s.file # NoFile
    <3> DEFINE h == Header(s.file.log, s.file.size, s.file.ticket)
    <3> HIDE DEF h
    <3>1. h \in Items
      BY <2>2, ConnTypes, HeaderIsItem DEF h
    <3>2. <<h>> \in Seq(Items)
      BY <3>1
    <3>3. <<h>> \o s.got \in Seq(Items)
      BY <3>2, ConnTypes, ConcatFacts
    <3> QED  BY <2>2, <3>3 DEF Begun, h
  <2> QED  BY <2>1, <2>2
<1>2. s.unread \o s.net \in Seq(Items)
  BY ConnTypes, ConcatFacts
<1> QED  BY <1>1, <1>2, ConcatFacts DEF InFlight

LEMMA TypedFacts ==
  ASSUME NEW cl, NEW co, NEW ow, NEW sa, NEW ino, Typed(cl, co, ow, sa, ino)
  PROVE  /\ Len(cl) \in Nat /\ DOMAIN cl = 1..Len(cl) /\ Len(co) \in Nat /\ DOMAIN co = 1..Len(co)
         /\ Len(ow) \in Nat /\ DOMAIN ow = 1..Len(ow) /\ Len(ino) \in Nat /\ DOMAIN ino = 1..Len(ino)
         /\ Len(sa) \in Nat /\ DOMAIN sa = 1..Len(sa)
         /\ \A k \in DOMAIN cl : cl[k] \in Client(Len(co), Len(ino)) /\ cl[k].wbuf \in Seq(Items)
         /\ \A j \in DOMAIN co : /\ co[j] \in Conn(Len(cl)) /\ co[j].client \in DOMAIN cl
                                 /\ co[j].up \in BOOLEAN
         /\ \A i \in DOMAIN sa : sa[i] \in SavedFile(Len(co)) /\ sa[i].conn \in DOMAIN co
<1>1. /\ Len(cl) \in Nat /\ DOMAIN cl = 1..Len(cl) /\ Len(co) \in Nat /\ DOMAIN co = 1..Len(co)
      /\ Len(ow) \in Nat /\ DOMAIN ow = 1..Len(ow) /\ Len(ino) \in Nat /\ DOMAIN ino = 1..Len(ino)
      /\ Len(sa) \in Nat /\ DOMAIN sa = 1..Len(sa)
  BY DEF Typed, Files
<1>2. ASSUME NEW k \in DOMAIN cl
      PROVE  cl[k] \in Client(Len(co), Len(ino)) /\ cl[k].wbuf \in Seq(Items)
  <2>1. cl[k] \in Client(Len(co), Len(ino))
    BY SeqFacts DEF Typed
  <2> QED  BY <2>1 DEF Client
<1>3. ASSUME NEW j \in DOMAIN co
      PROVE  co[j] \in Conn(Len(cl)) /\ co[j].client \in DOMAIN cl /\ co[j].up \in BOOLEAN
  <2>1. co[j] \in Conn(Len(cl))
    BY SeqFacts DEF Typed
  <2> QED  BY <1>1, <2>1, ConnTypes
<1>4. ASSUME NEW i \in DOMAIN sa
      PROVE  sa[i] \in SavedFile(Len(co)) /\ sa[i].conn \in DOMAIN co
  <2>1. sa[i] \in SavedFile(Len(co))
    BY SeqFacts DEF Typed
  <2> QED  BY <1>1, <2>1 DEF SavedFile
<1> QED  BY <1>1, <1>2, <1>3, <1>4

LEMMA LineType ==
  ASSUME NEW cl, NEW co, NEW ow, NEW sa, NEW ino, Typed(cl, co, ow, sa, ino),
         NEW j \in DOMAIN co
  PROVE  /\ Line(cl, co, j) \in Seq(Items) /\ InFlight(co[j]) \in Seq(Items)
         /\ co[j].up => Line(cl, co, j) = InFlight(co[j]) \o cl[co[j].client].wbuf
         /\ ~co[j].up => Line(cl, co, j) = InFlight(co[j])
<1>1. co[j] \in Conn(Len(cl)) /\ Len(cl) \in Nat /\ cl[co[j].client].wbuf \in Seq(Items)
  BY TypedFacts
<1>2. InFlight(co[j]) \in Seq(Items)
  BY <1>1, BegunType
<1>3. CASE co[j].up
  BY <1>1, <1>2, <1>3, ConcatFacts DEF Line
<1>4. CASE ~co[j].up
  BY <1>2, <1>4, SeqFacts DEF Line
<1> QED  BY <1>2, <1>3, <1>4

\* A client whose socket is connected goes on.
LEMMA CoreServes ==
  ASSUME NEW cl, NEW co, NEW ow, NEW sa, Core(cl, co, ow, sa, inodes),
         NEW k \in DOMAIN cl, NEW d, DirOK(d), cl[k].sock = "connected",
         NEW f, Serves(cl[k], f, d)
  PROVE  Core([cl EXCEPT ![k] = f], co, ow, sa, inodes)
<1> DEFINE c == cl[k]
           cl2 == [cl EXCEPT ![k] = f]
<1> HIDE DEF c, cl2
<1>1. Typed(cl, co, ow, sa, inodes)
  BY DEF Core
<1>2. ServeContext(c, Len(co), d)
  <2>1. c \in Client(Len(co), Len(inodes)) /\ Len(co) \in Nat
    BY <1>1, TypedFacts DEF c
  <2>2. Files(inodes) /\ Len(inodes) <= MaxRuns
    BY <1>1 DEF Typed
  <2> QED  BY <2>1, <2>2 DEF ServeContext, Core, c
<1>3. Serves(c, f, d)
  BY DEF c
<1>4. /\ f \in Client(Len(co), Len(inodes)) /\ ClientOK(f, inodes)
      /\ f.sock = c.sock /\ f.conn = c.conn
      /\ Queued(f) \subseteq Queued(c) /\ (QueueRises(c.queue) => QueueRises(f.queue))
  BY <1>2, <1>3, ServesClient
<1>5. /\ DOMAIN cl2 = DOMAIN cl /\ Len(cl2) = Len(cl) /\ cl2[k] = f
      /\ \A i \in DOMAIN cl : i # k => cl2[i] = cl[i]
      /\ cl2 \in Seq(Client(Len(co), Len(inodes)))
  BY <1>1, <1>4 DEF cl2, Typed
<1>6. Typed(cl2, co, ow, sa, inodes)
  BY <1>1, <1>5 DEF Typed
<1>7. \A i \in DOMAIN cl2 : ClientOK(cl2[i], inodes)
  BY <1>4, <1>5 DEF Core
<1>8. LinkInv(cl2, co)
  <2>1. \A i \in DOMAIN cl : cl2[i].sock = cl[i].sock /\ cl2[i].conn = cl[i].conn
    BY <1>4, <1>5 DEF c
  <2>2. \A j \in DOMAIN co : co[j].client \in DOMAIN cl
    BY <1>1, TypedFacts
  <2> QED  BY <1>5, <2>1, <2>2 DEF LinkInv, Core
<1>9. QueueInv(cl2, ow)
  BY <1>4, <1>5 DEF QueueInv, Core, OwnedBy, c
<1>10. ASSUME NEW j \in DOMAIN co, co[j].up, co[j].client = k
       PROVE  /\ LineOK(Line(cl2, co, j), f)
              /\ Lined(Line(cl2, co, j)) \subseteq Lined(Line(cl, co, j)) \cup Queued(c)
  <2>1. /\ Line(cl, co, j) = InFlight(co[j]) \o c.wbuf /\ InFlight(co[j]) \in Seq(Items)
        /\ Line(cl2, co, j) = InFlight(co[j]) \o f.wbuf
    <3>1. /\ Line(cl, co, j) = InFlight(co[j]) \o c.wbuf
          /\ InFlight(co[j]) \in Seq(Items)
      BY <1>1, <1>10, LineType DEF c
    <3>2. Line(cl2, co, j) = InFlight(co[j]) \o cl2[co[j].client].wbuf
      BY <1>6, <1>10, LineType, SMTT(30)
    <3> QED  BY <1>5, <1>10, <3>1, <3>2
  <2>2. LineOK(Line(cl, co, j), c)
    <3>1. Wired(Line(cl, co, j), TRUE, c.cur, c.pos, inodes)
      BY <1>10 DEF Core, WireInv, c
    <3>2. Rising(Line(cl, co, j)) /\ Below(Lined(Line(cl, co, j)), Queued(c))
      BY <1>10 DEF Core, OrderInv, Took, Below, c
    <3>3. QueueRises(c.queue)
      BY DEF Core, QueueInv, c
    <3> QED  BY <3>1, <3>2, <3>3 DEF LineOK
  <2> QED  BY <1>2, <1>3, <2>1, <2>2, ServesLine
<1>11. ASSUME NEW j \in DOMAIN co, ~(co[j].up /\ co[j].client = k)
       PROVE  Line(cl2, co, j) = Line(cl, co, j)
  BY <1>5, <1>11, <1>1, TypedFacts DEF Line
<1>12. WireInv(cl2, co, inodes)
  <2> SUFFICES ASSUME NEW j \in DOMAIN co
               PROVE  Wired(Line(cl2, co, j), co[j].up, cl2[co[j].client].cur,
                            cl2[co[j].client].pos, inodes)
    BY DEF WireInv
  <2>1. Wired(Line(cl, co, j), co[j].up, cl[co[j].client].cur, cl[co[j].client].pos, inodes)
    BY DEF Core, WireInv
  <2>2. CASE co[j].up /\ co[j].client = k
    BY <1>5, <1>10, <2>2 DEF LineOK
  <2>3. CASE co[j].client # k
    BY <1>1, <1>5, <1>11, <2>1, <2>3, TypedFacts
  <2>4. CASE ~co[j].up
    <3>1. co[j].up = FALSE
      BY <1>1, <2>4, TypedFacts
    <3>2. Line(cl2, co, j) = Line(cl, co, j)
      BY <1>11, <2>4
    <3> QED  BY <2>1, <3>1, <3>2 DEF Wired, Heads
  <2> QED  BY <2>2, <2>3, <2>4
<1>13. \A j \in DOMAIN co : Took(cl2, co, sa, j) \subseteq
          Took(cl, co, sa, j) \cup (IF co[j].up /\ co[j].client = k THEN Queued(c) ELSE {})
  BY <1>10, <1>11 DEF Took
<1>14. OrderInv(cl2, co, ow, sa)
  <2> SUFFICES ASSUME NEW j \in DOMAIN co
               PROVE  /\ Rising(Line(cl2, co, j)) /\ Below(Stored(sa, j), Lined(Line(cl2, co, j)))
                      /\ OwnedBy(Took(cl2, co, sa, j), co[j].client, ow)
                      /\ Below(Took(cl2, co, sa, j), Queued(cl2[co[j].client]))
    BY DEF OrderInv
  <2>1. /\ Rising(Line(cl, co, j)) /\ Below(Stored(sa, j), Lined(Line(cl, co, j)))
        /\ OwnedBy(Took(cl, co, sa, j), co[j].client, ow)
        /\ Below(Took(cl, co, sa, j), Queued(cl[co[j].client]))
    BY DEF Core, OrderInv
  <2>2. CASE co[j].up /\ co[j].client = k
    <3>1. LineOK(Line(cl2, co, j), f)
      BY <1>10, <2>2
    <3>2. Lined(Line(cl2, co, j)) \subseteq Lined(Line(cl, co, j)) \cup Queued(c)
      BY <1>10, <2>2
    <3>3. Below(Stored(sa, j), Queued(c))
      BY <2>1, <2>2 DEF Below, Took, c
    <3>4. Below(Stored(sa, j), Lined(Line(cl2, co, j)))
      BY <2>1, <3>2, <3>3 DEF Below
    <3>5. Below(Took(cl2, co, sa, j), Queued(f))
      BY <1>4, <3>1, <3>3 DEF Below, Took, LineOK
    <3>6. OwnedBy(Queued(c), k, ow)
      BY DEF Core, QueueInv, c
    <3>7. OwnedBy(Took(cl2, co, sa, j), k, ow)
      BY <2>1, <2>2, <3>2, <3>6 DEF OwnedBy, Took
    <3> QED  BY <1>5, <2>2, <3>1, <3>4, <3>5, <3>7 DEF LineOK
  <2>3. CASE ~(co[j].up /\ co[j].client = k)
    <3>1. Line(cl2, co, j) = Line(cl, co, j)
      BY <1>11, <2>3
    <3>2. Queued(cl2[co[j].client]) \subseteq Queued(cl[co[j].client])
      BY <1>1, <1>4, <1>5, TypedFacts DEF c
    <3> QED  BY <2>1, <3>1, <3>2 DEF Below, Took
  <2> QED  BY <2>2, <2>3
<1>15. ConnOrderInv(cl2, co, sa)
  <2> SUFFICES ASSUME NEW i \in DOMAIN co, NEW j \in DOMAIN co, i < j,
                      co[i].client = co[j].client
               PROVE  Below(Took(cl2, co, sa, i), Took(cl2, co, sa, j))
    BY DEF ConnOrderInv
  <2>1. Below(Took(cl, co, sa, i), Took(cl, co, sa, j))
    BY DEF Core, ConnOrderInv
  <2>2. ~co[i].up
    <3>1. co[i].up => cl[co[i].client].conn = i
      BY DEF Core, LinkInv
    <3>2. j <= cl[co[j].client].conn
      BY DEF Core, LinkInv
    <3>3. i \in Nat /\ j \in Nat
      BY <1>1, TypedFacts
    <3> QED  BY <3>1, <3>2, <3>3
  <2>3. Took(cl2, co, sa, i) \subseteq Took(cl, co, sa, i)
    BY <1>13, <2>2
  <2>4. CASE co[j].client = k
    <3>1. Below(Took(cl, co, sa, i), Queued(c))
      BY <2>4 DEF Core, OrderInv, c
    <3>2. Took(cl2, co, sa, j) \subseteq Took(cl, co, sa, j) \cup Queued(c)
      BY <1>13
    <3> QED  BY <2>1, <2>3, <3>1, <3>2 DEF Below
  <2>5. CASE co[j].client # k
    <3>1. Took(cl2, co, sa, j) \subseteq Took(cl, co, sa, j)
      BY <1>13, <2>5
    <3> QED  BY <2>1, <2>3, <3>1 DEF Below
  <2> QED  BY <2>4, <2>5
<1>16. \A j \in DOMAIN co : ReaderOK(co[j])
  BY DEF Core
<1> QED  BY <1>6, <1>7, <1>8, <1>9, <1>12, <1>14, <1>15, <1>16 DEF Core, cl2
-----------------------------------------------------------------------------
(* The other steps of daemon, network and console, taken by themselves *)

\* Lines and queues stay as they are.
LEMMA CoreSame ==
  ASSUME NEW cl, NEW co, NEW ow, NEW sa, NEW ino, Core(cl, co, ow, sa, ino),
         NEW cl2, NEW co2, Typed(cl2, co2, ow, sa, ino), LinkInv(cl2, co2),
         DOMAIN cl2 = DOMAIN cl, DOMAIN co2 = DOMAIN co,
         \A k \in DOMAIN cl : ClientOK(cl2[k], ino) /\ cl2[k].queue = cl[k].queue,
         \A j \in DOMAIN co :
           /\ ReaderOK(co2[j]) /\ co2[j].client = co[j].client
           /\ Line(cl2, co2, j) = Line(cl, co, j)
           /\ Wired(Line(cl, co, j), co2[j].up, cl2[co[j].client].cur, cl2[co[j].client].pos, ino)
  PROVE  Core(cl2, co2, ow, sa, ino)
<1>1. WireInv(cl2, co2, ino)
  BY DEF WireInv
<1>2. \A k \in DOMAIN cl : Queued(cl2[k]) = Queued(cl[k])
  BY DEF Queued
<1>3. QueueInv(cl2, ow)
  BY <1>2 DEF QueueInv, Core
<1>4. \A j \in DOMAIN co : Took(cl2, co2, sa, j) = Took(cl, co, sa, j)
  BY DEF Took
<1>5. \A j \in DOMAIN co : co[j].client \in DOMAIN cl
  BY TypedFacts DEF Core
<1>6. OrderInv(cl2, co2, ow, sa)
  BY <1>2, <1>4, <1>5 DEF OrderInv, Core
<1>7. ConnOrderInv(cl2, co2, sa)
  BY <1>4 DEF ConnOrderInv, Core
<1> QED  BY <1>1, <1>3, <1>6, <1>7 DEF Core

\* The state with client k replaced.
LEMMA ReplaceClient ==
  ASSUME NEW cl, NEW co, NEW ow, NEW sa, NEW ino, Typed(cl, co, ow, sa, ino),
         NEW k \in DOMAIN cl, NEW f \in Client(Len(co), Len(ino))
  PROVE  /\ Typed([cl EXCEPT ![k] = f], co, ow, sa, ino)
         /\ DOMAIN [cl EXCEPT ![k] = f] = DOMAIN cl /\ Len([cl EXCEPT ![k] = f]) = Len(cl)
         /\ [cl EXCEPT ![k] = f][k] = f
         /\ \A i \in DOMAIN cl : i # k => [cl EXCEPT ![k] = f][i] = cl[i]
<1> DEFINE cl2 == [cl EXCEPT ![k] = f]
<1> HIDE DEF cl2
<1>1. /\ DOMAIN cl2 = DOMAIN cl /\ Len(cl2) = Len(cl) /\ cl2[k] = f
      /\ \A i \in DOMAIN cl : i # k => cl2[i] = cl[i]
      /\ cl2 \in Seq(Client(Len(co), Len(ino)))
  BY DEF cl2, Typed
<1>2. Typed(cl2, co, ow, sa, ino)
  BY <1>1 DEF Typed
<1> QED  BY <1>1, <1>2 DEF cl2

\* The state with connection j replaced.
LEMMA ReplaceConn ==
  ASSUME NEW cl, NEW co, NEW ow, NEW sa, NEW ino, Typed(cl, co, ow, sa, ino),
         NEW j \in DOMAIN co, NEW r \in Conn(Len(cl))
  PROVE  /\ Typed(cl, [co EXCEPT ![j] = r], ow, sa, ino)
         /\ DOMAIN [co EXCEPT ![j] = r] = DOMAIN co /\ Len([co EXCEPT ![j] = r]) = Len(co)
         /\ [co EXCEPT ![j] = r][j] = r
         /\ \A i \in DOMAIN co : i # j => [co EXCEPT ![j] = r][i] = co[i]
<1> DEFINE co2 == [co EXCEPT ![j] = r]
<1> HIDE DEF co2
<1>1. /\ DOMAIN co2 = DOMAIN co /\ Len(co2) = Len(co) /\ co2[j] = r
      /\ \A i \in DOMAIN co : i # j => co2[i] = co[i]
      /\ co2 \in Seq(Conn(Len(cl)))
  BY DEF co2, Typed
<1>2. Typed(cl, co2, ow, sa, ino)
  BY <1>1 DEF Typed
<1> QED  BY <1>1, <1>2 DEF co2

\* A client that has no line changes, but not its queue.
LEMMA CoreOffline ==
  ASSUME NEW cl, NEW co, NEW ow, NEW sa, NEW ino, Core(cl, co, ow, sa, ino),
         NEW k \in DOMAIN cl, NEW f \in Client(Len(co), Len(ino)), ClientOK(f, ino),
         \A j \in DOMAIN co : co[j].client = k => ~co[j].up,
         f.conn = cl[k].conn, f.queue = cl[k].queue,
         f.sock = "connected" => f.conn # 0
  PROVE  Core([cl EXCEPT ![k] = f], co, ow, sa, ino)
<1> DEFINE cl2 == [cl EXCEPT ![k] = f]
<1> HIDE DEF cl2
<1>1. Typed(cl, co, ow, sa, ino)
  BY DEF Core
<1>2. /\ Typed(cl2, co, ow, sa, ino) /\ DOMAIN cl2 = DOMAIN cl /\ cl2[k] = f
      /\ \A i \in DOMAIN cl : i # k => cl2[i] = cl[i]
  BY <1>1, ReplaceClient DEF cl2
<1>3. \A j \in DOMAIN co : co[j].client \in DOMAIN cl /\ co[j].up \in BOOLEAN
  BY <1>1, TypedFacts
<1>4. LinkInv(cl2, co)
  BY <1>2, <1>3 DEF LinkInv, Core
<1>5. \A i \in DOMAIN cl : ClientOK(cl2[i], ino) /\ cl2[i].queue = cl[i].queue
  BY <1>2 DEF Core
<1>6. ASSUME NEW j \in DOMAIN co
      PROVE  /\ Line(cl2, co, j) = Line(cl, co, j)
             /\ Wired(Line(cl, co, j), co[j].up, cl2[co[j].client].cur, cl2[co[j].client].pos, ino)
  <2>1. Wired(Line(cl, co, j), co[j].up, cl[co[j].client].cur, cl[co[j].client].pos, ino)
    BY DEF Core, WireInv
  <2>2. CASE co[j].client # k
    BY <1>2, <1>3, <2>1, <2>2 DEF Line
  <2>3. CASE co[j].client = k
    <3>1. co[j].up = FALSE
      BY <1>3, <2>3
    <3> QED  BY <2>1, <3>1 DEF Line, Wired, Heads
  <2> QED  BY <2>2, <2>3
<1>7. \A j \in DOMAIN co : ReaderOK(co[j])
  BY DEF Core
<1>8. Core(cl2, co, ow, sa, ino)
  BY <1>2, <1>4, <1>5, <1>6, <1>7, CoreSame
<1> QED  BY <1>8 DEF cl2

\* What a client that is connected has to do with its connection.
LEMMA Connected ==
  ASSUME NEW cl, NEW co, NEW ow, NEW sa, NEW ino, Core(cl, co, ow, sa, ino),
         NEW k \in DOMAIN cl, cl[k].sock = "connected"
  PROVE  /\ cl[k].conn \in DOMAIN co /\ co[cl[k].conn].client = k
         /\ \A j \in DOMAIN co : co[j].client = k /\ co[j].up => j = cl[k].conn
<1>1. Typed(cl, co, ow, sa, ino) /\ LinkInv(cl, co)
  BY DEF Core
<1>2. cl[k] \in Client(Len(co), Len(ino)) /\ DOMAIN co = 1..Len(co) /\ Len(co) \in Nat
  BY <1>1, TypedFacts
<1>3. cl[k].conn \in 0..Len(co) /\ cl[k].conn # 0
  BY <1>1, <1>2 DEF Client, LinkInv
<1>4. cl[k].conn \in DOMAIN co
  BY <1>2, <1>3
<1> QED  BY <1>1, <1>3, <1>4 DEF LinkInv

\* The file that was sent is closed.
LEMMA CoreClosed ==
  ASSUME NEW cl, NEW co, NEW ow, NEW sa, NEW ino, Core(cl, co, ow, sa, ino),
         NEW k \in DOMAIN cl, cl[k].cur # 0, cl[k].wbuf = <<>>,
         cl[k].pos = ino[cl[k].cur].size
  PROVE  Core([cl EXCEPT ![k] = Closed(cl[k])], co, ow, sa, ino)
<1> DEFINE c == cl[k]
           f == Closed(c)
           cl2 == [cl EXCEPT ![k] = f]
<1> HIDE DEF c, f, cl2
<1>1. Typed(cl, co, ow, sa, ino) /\ Files(ino)
  BY DEF Core, Typed
<1>2. c \in Client(Len(co), Len(ino)) /\ Len(co) \in Nat /\ Len(ino) \in Nat
  BY <1>1, TypedFacts DEF c
<1>3. Chunks \in Nat
  BY FileTransferAssumption
<1>4. f \in Client(Len(co), Len(ino))
  <2>1. 0 \in 0..Chunks /\ 0 \in 0..Len(ino)
    BY <1>2, <1>3
  <2> QED  BY <1>2, <2>1 DEF f, Closed, Client
<1>5. /\ f.cur = 0 /\ f.wbuf = <<>> /\ f.queue = c.queue /\ f.conn = c.conn /\ f.sock = c.sock
  BY <1>2 DEF f, Closed, Client, c
<1>6. /\ Typed(cl2, co, ow, sa, ino) /\ DOMAIN cl2 = DOMAIN cl /\ cl2[k] = f
      /\ \A i \in DOMAIN cl : i # k => cl2[i] = cl[i]
  BY <1>1, <1>4, ReplaceClient DEF cl2
<1>7. \A j \in DOMAIN co : co[j].client \in DOMAIN cl /\ co[j].up \in BOOLEAN
  BY <1>1, TypedFacts
<1>8. LinkInv(cl2, co)
  BY <1>5, <1>6, <1>7 DEF LinkInv, Core, c
<1>9. \A i \in DOMAIN cl : ClientOK(cl2[i], ino) /\ cl2[i].queue = cl[i].queue
  BY <1>5, <1>6 DEF Core, ClientOK, c
<1>10. ASSUME NEW j \in DOMAIN co
       PROVE  /\ Line(cl2, co, j) = Line(cl, co, j)
              /\ Wired(Line(cl, co, j), co[j].up, cl2[co[j].client].cur, cl2[co[j].client].pos, ino)
  <2>1. Wired(Line(cl, co, j), co[j].up, cl[co[j].client].cur, cl[co[j].client].pos, ino)
    BY DEF Core, WireInv
  <2>2. Line(cl2, co, j) = Line(cl, co, j)
    BY <1>5, <1>6, <1>7 DEF Line, c
  <2>3. CASE co[j].client # k
    BY <1>6, <1>7, <2>1, <2>2, <2>3
  <2>4. CASE co[j].client = k /\ co[j].up
    <3>1. c.cur \in Nat
      BY <1>2 DEF Client
    <3>2. Wired(Line(cl, co, j), TRUE, c.cur, c.pos, ino) /\ c.pos = ino[c.cur].size
      BY <2>1, <2>4 DEF c
    <3>3. Line(cl, co, j) \in Seq(Items)
      BY <1>1, LineType
    <3>4. Wired(Line(cl, co, j), TRUE, f.cur, f.pos, ino)
      BY <1>1, <3>1, <3>2, <3>3, WireClosed
    <3> QED  BY <1>6, <2>2, <2>4, <3>4
  <2>5. CASE ~co[j].up
    <3>1. co[j].up = FALSE
      BY <1>7, <2>5
    <3> QED  BY <2>1, <2>2, <3>1 DEF Wired, Heads
  <2> QED  BY <2>3, <2>4, <2>5
<1>11. \A j \in DOMAIN co : ReaderOK(co[j])
  BY DEF Core
<1>12. Core(cl2, co, ow, sa, ino)
  BY <1>6, <1>8, <1>9, <1>10, <1>11, CoreSame
<1> QED  BY <1>12 DEF cl2, f, c

\* The socket's first item goes to the network.
LEMMA CoreSent ==
  ASSUME NEW cl, NEW co, NEW ow, NEW sa, NEW ino, Core(cl, co, ow, sa, ino),
         NEW k \in DOMAIN cl, cl[k].sock = "connected", cl[k].wbuf # <<>>,
         co[cl[k].conn].up
  PROVE  Core([cl EXCEPT ![k] = [cl[k] EXCEPT !.wbuf = Tail(cl[k].wbuf)]],
              [co EXCEPT ![cl[k].conn] =
                 [co[cl[k].conn] EXCEPT !.net = Append(co[cl[k].conn].net, Head(cl[k].wbuf))]],
              ow, sa, ino)
<1> DEFINE c == cl[k]
           j == c.conn
           s == co[j]
           f == [c EXCEPT !.wbuf = Tail(c.wbuf)]
           r == [s EXCEPT !.net = Append(s.net, Head(c.wbuf))]
           cl2 == [cl EXCEPT ![k] = f]
           co2 == [co EXCEPT ![j] = r]
<1> HIDE DEF c, j, s, f, r, cl2, co2
<1>1. Typed(cl, co, ow, sa, ino)
  BY DEF Core
<1>2. /\ c \in Client(Len(co), Len(ino)) /\ j \in DOMAIN co /\ s \in Conn(Len(cl))
      /\ s.client = k /\ Len(cl) \in Nat /\ Len(co) \in Nat /\ Len(ino) \in Nat /\ s.up
  BY <1>1, TypedFacts, Connected DEF c, j, s
<1>3. c.wbuf \in Seq(Items) /\ c.wbuf # <<>> /\ c.sock = "connected"
  BY <1>2 DEF Client, c
<1>4. /\ Head(c.wbuf) \in Items /\ Tail(c.wbuf) \in Seq(Items)
      /\ c.wbuf = <<Head(c.wbuf)>> \o Tail(c.wbuf) /\ <<Head(c.wbuf)>> \in Seq(Items)
  <2> DEFINE w == c.wbuf
  <2> HIDE DEF w
  <2>1. w \in Seq(Items) /\ w # <<>>
    BY <1>3 DEF w
  <2>2. /\ Head(w) \in Items /\ Tail(w) \in Seq(Items)
        /\ w = <<Head(w)>> \o Tail(w) /\ <<Head(w)>> \in Seq(Items)
    BY <2>1, HeadTail
  <2> QED  BY <2>2 DEF w
<1>5. f \in Client(Len(co), Len(ino)) /\ f.wbuf = Tail(c.wbuf) /\ f.cur = c.cur /\ f.pos = c.pos
      /\ f.queue = c.queue /\ f.sock = c.sock /\ f.conn = c.conn
  BY <1>2, <1>4 DEF Client, f
<1>6. /\ s.net \in Seq(Items) /\ s.unread \in Seq(Items) /\ Begun(s) \in Seq(Items)
      /\ s.up \in BOOLEAN
  BY <1>2, ConnTypes, BegunType
<1>7. Append(s.net, Head(c.wbuf)) \in Seq(Items)
      /\ Append(s.net, Head(c.wbuf)) = s.net \o <<Head(c.wbuf)>>
  BY <1>4, <1>6, ItemsAppend
<1>8. /\ r \in Conn(Len(cl)) /\ r.net = s.net \o <<Head(c.wbuf)>> /\ r.unread = s.unread
      /\ r.file = s.file /\ r.got = s.got /\ r.client = s.client /\ r.up = s.up
      /\ r.reading = s.reading
  BY <1>2, <1>7 DEF Conn, r
<1>9. Begun(r) = Begun(s) /\ ReaderOK(r)
  <2>1. ReaderOK(s)
    BY <1>2 DEF Core, s
  <2> QED  BY <1>8, <2>1 DEF Begun, ReaderOK
<1>10. InFlight(r) \o f.wbuf = InFlight(s) \o c.wbuf
  <2>1. InFlight(r) = Begun(s) \o (s.unread \o r.net) /\ InFlight(s) = Begun(s) \o (s.unread \o s.net)
    BY <1>8, <1>9 DEF InFlight
  <2>2. r.net = s.net \o <<Head(c.wbuf)>> /\ c.wbuf = <<Head(c.wbuf)>> \o f.wbuf
    BY <1>4, <1>5, <1>8
  <2>3. f.wbuf \in Seq(Items)
    BY <1>4, <1>5
  <2>4. (Begun(s) \o (s.unread \o r.net)) \o f.wbuf = (Begun(s) \o (s.unread \o s.net)) \o c.wbuf
    <3> DEFINE b == Begun(s)
               u == s.unread
               n == s.net
               h == <<Head(c.wbuf)>>
               t == f.wbuf
               n2 == r.net
               w == c.wbuf
    <3>1. /\ b \in Seq(Items) /\ u \in Seq(Items) /\ n \in Seq(Items)
          /\ h \in Seq(Items) /\ t \in Seq(Items) /\ n2 = n \o h /\ w = h \o t
      BY <1>4, <1>6, <2>2, <2>3
    <3> HIDE DEF b, u, n, h, t, n2, w
    <3>2. (b \o (u \o n2)) \o t = (b \o (u \o n)) \o w
      <4> DEFINE Cat(x, y) == x \o y
      <4>1. \A x, y \in Seq(Items) : Cat(x, y) \in Seq(Items)
        BY ConcatFacts
      <4>2. \A x, y, z \in Seq(Items) : Cat(Cat(x, y), z) = Cat(x, Cat(y, z))
        BY ItemsAssoc
      <4>3. n2 = Cat(n, h) /\ w = Cat(h, t)
        BY <3>1
      <4> HIDE DEF Cat
      <4>4. Cat(u, n2) = Cat(Cat(u, n), h)
        BY <3>1, <4>2, <4>3
      <4>5. Cat(b, Cat(Cat(u, n), h)) = Cat(Cat(b, Cat(u, n)), h)
        BY <3>1, <4>1, <4>2
      <4>6. Cat(Cat(b, Cat(u, n2)), t) = Cat(Cat(b, Cat(u, n)), w)
        BY <3>1, <4>1, <4>2, <4>3, <4>4, <4>5
      <4> QED  BY <4>6 DEF Cat
    <3> QED  BY <3>2 DEF b, u, n, t, n2, w
  <2> QED  BY <2>1, <2>4
<1>11. /\ Typed(cl2, co, ow, sa, ino) /\ DOMAIN cl2 = DOMAIN cl /\ Len(cl2) = Len(cl) /\ cl2[k] = f
       /\ \A i \in DOMAIN cl : i # k => cl2[i] = cl[i]
  BY <1>1, <1>5, ReplaceClient DEF cl2
<1>12. r \in Conn(Len(cl2))
  BY <1>8, <1>11
<1>13. /\ Typed(cl2, co2, ow, sa, ino) /\ DOMAIN co2 = DOMAIN co /\ co2[j] = r
       /\ \A i \in DOMAIN co : i # j => co2[i] = co[i]
  BY <1>2, <1>11, <1>12, ReplaceConn DEF co2
<1>14. \A i \in DOMAIN co : co[i].client \in DOMAIN cl /\ co2[i].client = co[i].client /\ co2[i].up = co[i].up
  BY <1>1, <1>8, <1>13, TypedFacts DEF s
<1>15. LinkInv(cl2, co2)
  <2>1. \A i \in DOMAIN cl : cl2[i].sock = cl[i].sock /\ cl2[i].conn = cl[i].conn
    BY <1>5, <1>11 DEF c
  <2>2. \A i \in DOMAIN cl : cl[i].conn # 0 => cl[i].conn \in DOMAIN co
    <3> TAKE i \in DOMAIN cl
    <3>1. cl[i] \in Client(Len(co), Len(ino)) /\ DOMAIN co = 1..Len(co) /\ Len(co) \in Nat
      BY <1>1, TypedFacts
    <3>2. cl[i].conn \in 0..Len(co)
      BY <3>1 DEF Client
    <3> QED  BY <3>1, <3>2
  <2> QED  BY <1>11, <1>13, <1>14, <2>1, <2>2 DEF LinkInv, Core
<1>16. c.cur # 0 /\ ClientOK(c, ino)
  BY <1>3 DEF Core, ClientOK, c
<1>17. \A i \in DOMAIN cl : ClientOK(cl2[i], ino) /\ cl2[i].queue = cl[i].queue
  BY <1>5, <1>11, <1>16 DEF Core, ClientOK, c
<1>18. ASSUME NEW i \in DOMAIN co
       PROVE  /\ Line(cl2, co2, i) = Line(cl, co, i)
              /\ Wired(Line(cl, co, i), co2[i].up, cl2[co[i].client].cur, cl2[co[i].client].pos, ino)
              /\ ReaderOK(co2[i])
  <2>1. Wired(Line(cl, co, i), co[i].up, cl[co[i].client].cur, cl[co[i].client].pos, ino)
    BY DEF Core, WireInv
  <2>2. cl2[co[i].client].cur = cl[co[i].client].cur /\ cl2[co[i].client].pos = cl[co[i].client].pos
    BY <1>5, <1>11, <1>14 DEF c
  <2>3. CASE i = j
    <3>1. Line(cl, co, i) = InFlight(s) \o c.wbuf
      BY <1>2, <2>3 DEF Line, c, s
    <3>2. Line(cl2, co2, i) = InFlight(r) \o f.wbuf
      BY <1>2, <1>8, <1>11, <1>13, <2>3 DEF Line
    <3> QED  BY <1>9, <1>10, <1>13, <1>14, <2>1, <2>2, <2>3, <3>1, <3>2
  <2>4. CASE i # j
    <3>1. co2[i] = co[i]
      BY <1>13, <2>4
    <3>2. co[i].up => co[i].client # k
      BY <1>3, <2>4, Connected DEF c, j
    <3>3. Line(cl2, co2, i) = Line(cl, co, i)
      BY <1>11, <1>14, <3>1, <3>2 DEF Line
    <3> QED  BY <2>1, <2>2, <3>1, <3>3 DEF Core
  <2> QED  BY <2>3, <2>4
<1>19. Core(cl2, co2, ow, sa, ino)
  BY <1>11, <1>13, <1>14, <1>15, <1>17, <1>18, CoreSame
<1> QED  BY <1>19 DEF cl2, co2, f, r, s, j, c

\* A socket is connected.
LEMMA CoreConnected ==
  ASSUME NEW cl, NEW co, NEW ow, NEW sa, NEW ino, Core(cl, co, ow, sa, ino),
         NEW k \in DOMAIN cl, cl[k].sock = "connecting"
  PROVE  Core([cl EXCEPT ![k] = [cl[k] EXCEPT !.sock = "connected", !.conn = Len(co) + 1]],
              Append(co, FreshConn(k)), ow, sa, ino)
<1> DEFINE c == cl[k]
           j == Len(co) + 1
           f == [c EXCEPT !.sock = "connected", !.conn = j]
           r == FreshConn(k)
           cl2 == [cl EXCEPT ![k] = f]
           co2 == Append(co, r)
<1> HIDE DEF c, j, f, r, cl2, co2
<1>1. Typed(cl, co, ow, sa, ino) /\ LinkInv(cl, co)
  BY DEF Core
<1>2. /\ c \in Client(Len(co), Len(ino)) /\ c.sock = "connecting"
      /\ Len(cl) \in Nat /\ Len(co) \in Nat /\ Len(ino) \in Nat /\ DOMAIN co = 1..Len(co)
      /\ k \in 1..Len(cl) /\ DOMAIN sa = 1..Len(sa)
  BY <1>1, TypedFacts DEF c
<1>3. c.cur = 0 /\ c.wbuf = <<>>
  <2>1. ClientOK(c, ino)
    BY DEF Core, c
  <2> QED  BY <1>2, <2>1 DEF ClientOK
<1>4. \A n \in DOMAIN co : co[n].client \in DOMAIN cl /\ co[n].up \in BOOLEAN
  BY <1>1, TypedFacts
<1>5. \A n \in DOMAIN co : co[n].client = k => ~co[n].up
  BY <1>1, <1>2 DEF LinkInv, c
<1>6. /\ f.sock = "connected" /\ f.conn = j /\ f.cur = 0 /\ f.wbuf = <<>> /\ f.queue = c.queue
      /\ f.pos = c.pos
  BY <1>2, <1>3 DEF f, Client
<1>7. j \in Nat /\ j # 0 /\ Len(co) < j
  BY <1>2 DEF j
<1>8. /\ r.client = k /\ r.up = TRUE /\ r.net = <<>> /\ r.unread = <<>> /\ r.file = NoFile
      /\ r.got = <<>> /\ r.reading = FALSE
  BY DEF r, FreshConn
<1>9. r \in Conn(Len(cl))
  <2>1. <<>> \in Seq(Items)
    OBVIOUS
  <2> QED  BY <1>2, <2>1 DEF r, FreshConn, Conn
<1>10. /\ co2 \in Seq(Conn(Len(cl))) /\ Len(co2) = j /\ DOMAIN co2 = DOMAIN co \cup {j}
       /\ co2[j] = r /\ \A n \in DOMAIN co : co2[n] = co[n] /\ n # j /\ n < j
  <2>1. co \in Seq(Conn(Len(cl)))
    BY <1>1 DEF Typed
  <2>2. /\ co2 \in Seq(Conn(Len(cl))) /\ Len(co2) = Len(co) + 1 /\ DOMAIN co2 = 1..(Len(co) + 1)
        /\ \A n \in 1..Len(co) : co2[n] = co[n]
        /\ co2[Len(co) + 1] = r
    BY <1>9, <2>1, AppendFacts DEF co2
  <2>3. 1..(Len(co) + 1) = 1..Len(co) \cup {j}
    BY <1>2 DEF j
  <2> QED  BY <1>2, <2>2, <2>3 DEF j
<1>11. \A m \in Nat, n \in Nat : m <= n => Client(m, Len(ino)) \subseteq Client(n, Len(ino))
  <2> TAKE m \in Nat, n \in Nat
  <2>1. m <= n => 0..m \subseteq 0..n
    OBVIOUS
  <2> QED  BY <2>1 DEF Client
<1>12. f \in Client(j, Len(ino))
  <2>1. c \in Client(j, Len(ino)) /\ j \in 0..j
    BY <1>2, <1>7, <1>11
  <2> QED  BY <2>1 DEF f, Client
<1>13. /\ cl2 \in Seq(Client(j, Len(ino))) /\ Len(cl2) = Len(cl) /\ DOMAIN cl2 = DOMAIN cl
       /\ cl2[k] = f /\ \A i \in DOMAIN cl : i # k => cl2[i] = cl[i]
  <2>1. cl \in Seq(Client(j, Len(ino)))
    <3>1. Client(Len(co), Len(ino)) \subseteq Client(j, Len(ino))
      BY <1>2, <1>7, <1>11
    <3>2. cl \in Seq(Client(Len(co), Len(ino)))
      BY <1>1 DEF Typed
    <3> QED  BY <3>1, <3>2
  <2> QED  BY <1>12, <2>1 DEF cl2
<1>14. sa \in Seq(SavedFile(j))
  <2>1. 1..Len(co) \subseteq 1..j
    BY <1>2, <1>7
  <2>2. SavedFile(Len(co)) \subseteq SavedFile(j)
    BY <2>1 DEF SavedFile
  <2>3. sa \in Seq(SavedFile(Len(co)))
    BY <1>1 DEF Typed
  <2> QED  BY <2>2, <2>3
<1>15. Typed(cl2, co2, ow, sa, ino)
  BY <1>1, <1>10, <1>13, <1>14 DEF Typed
<1>16. \A i \in DOMAIN cl2 : ClientOK(cl2[i], ino)
  BY <1>6, <1>13 DEF Core, ClientOK
<1>17. \A n \in DOMAIN co2 : ReaderOK(co2[n])
  BY <1>8, <1>10 DEF Core, ReaderOK
<1>18. LinkInv(cl2, co2)
  <2>1. \A i \in DOMAIN cl : cl[i].conn # 0 => cl[i].conn \in DOMAIN co
    <3> TAKE i \in DOMAIN cl
    <3>1. cl[i] \in Client(Len(co), Len(ino))
      BY <1>1, TypedFacts
    <3>2. cl[i].conn \in 0..Len(co)
      BY <3>1 DEF Client
    <3> QED  BY <1>2, <3>2
  <2>2. \A n \in DOMAIN co2 : /\ co2[n].up => /\ cl2[co2[n].client].conn = n
                                             /\ cl2[co2[n].client].sock = "connected"
                              /\ n <= cl2[co2[n].client].conn
    <3> TAKE n \in DOMAIN co2
    <3>1. CASE n = j
      BY <1>6, <1>7, <1>8, <1>10, <1>13, <3>1
    <3>2. CASE n \in DOMAIN co
      <4>1. CASE co[n].client = k
        <5>1. n <= j
          BY <1>2, <1>7, <3>2
        <5> QED  BY <1>5, <1>6, <1>10, <1>13, <3>2, <4>1, <5>1
      <4>2. CASE co[n].client # k
        BY <1>1, <1>4, <1>10, <1>13, <3>2, <4>2 DEF LinkInv
      <4> QED  BY <4>1, <4>2
    <3> QED  BY <1>10, <3>1, <3>2
  <2>3. \A i \in DOMAIN cl2 : /\ cl2[i].sock = "connected" => cl2[i].conn # 0
                              /\ cl2[i].conn # 0 => co2[cl2[i].conn].client = i
    BY <1>1, <1>6, <1>7, <1>8, <1>10, <1>13, <2>1 DEF LinkInv
  <2> QED  BY <2>2, <2>3 DEF LinkInv
<1>19. \A n \in DOMAIN co : Line(cl2, co2, n) = Line(cl, co, n)
  BY <1>4, <1>5, <1>10, <1>13 DEF Line
<1>20. Line(cl2, co2, j) = <<>>
  <2>1. Begun(r) = <<>>
    BY <1>8 DEF Begun
  <2>2. InFlight(r) = <<>>
    BY <1>8, <2>1 DEF InFlight
  <2> QED  BY <1>6, <1>8, <1>10, <1>13, <2>2 DEF Line
<1>21. Stored(sa, j) = {} /\ Lined(<<>>) = {} /\ Rising(<<>>)
  <2>1. \A i \in DOMAIN sa : sa[i].conn # j
    <3> TAKE i \in DOMAIN sa
    <3>1. sa[i].conn \in 1..Len(co)
      BY <1>1, <1>2, TypedFacts
    <3> QED  BY <1>2, <1>7, <3>1
  <2> QED  BY <2>1 DEF Stored, Lined, Rising
<1>22. WireInv(cl2, co2, ino)
  <2> SUFFICES ASSUME NEW n \in DOMAIN co2
               PROVE  Wired(Line(cl2, co2, n), co2[n].up, cl2[co2[n].client].cur,
                            cl2[co2[n].client].pos, ino)
    BY DEF WireInv
  <2>1. CASE n = j
    BY <1>20, <2>1 DEF Wired
  <2>2. CASE n \in DOMAIN co
    <3>1. Wired(Line(cl, co, n), co[n].up, cl[co[n].client].cur, cl[co[n].client].pos, ino)
      BY <2>2 DEF Core, WireInv
    <3>2. cl2[co[n].client].cur = cl[co[n].client].cur /\ cl2[co[n].client].pos = cl[co[n].client].pos
      BY <1>3, <1>4, <1>6, <1>13, <2>2 DEF c
    <3> QED  BY <1>10, <1>19, <2>2, <3>1, <3>2
  <2> QED  BY <1>10, <2>1, <2>2
<1>23. \A n \in DOMAIN co : Took(cl2, co2, sa, n) = Took(cl, co, sa, n)
  BY <1>19 DEF Took
<1>24. Took(cl2, co2, sa, j) = {}
  BY <1>20, <1>21 DEF Took
<1>25. \A i \in DOMAIN cl : Queued(cl2[i]) = Queued(cl[i]) /\ cl2[i].queue = cl[i].queue
  BY <1>6, <1>13 DEF Queued, c
<1>26. QueueInv(cl2, ow)
  BY <1>13, <1>25 DEF QueueInv, Core
<1>27. OrderInv(cl2, co2, ow, sa)
  <2> SUFFICES ASSUME NEW n \in DOMAIN co2
               PROVE  /\ Rising(Line(cl2, co2, n)) /\ Below(Stored(sa, n), Lined(Line(cl2, co2, n)))
                      /\ OwnedBy(Took(cl2, co2, sa, n), co2[n].client, ow)
                      /\ Below(Took(cl2, co2, sa, n), Queued(cl2[co2[n].client]))
    BY DEF OrderInv
  <2>1. CASE n = j
    BY <1>20, <1>21, <1>24, <2>1 DEF Below, OwnedBy
  <2>2. CASE n \in DOMAIN co
    BY <1>4, <1>10, <1>19, <1>23, <1>25, <2>2 DEF OrderInv, Core
  <2> QED  BY <1>10, <2>1, <2>2
<1>28. ConnOrderInv(cl2, co2, sa)
  <2> SUFFICES ASSUME NEW m \in DOMAIN co2, NEW n \in DOMAIN co2, m < n,
                      co2[m].client = co2[n].client
               PROVE  Below(Took(cl2, co2, sa, m), Took(cl2, co2, sa, n))
    BY DEF ConnOrderInv
  <2>1. CASE m = j \/ n = j
    BY <1>24, <2>1 DEF Below
  <2>2. CASE m \in DOMAIN co /\ n \in DOMAIN co
    BY <1>10, <1>23, <2>2 DEF ConnOrderInv, Core
  <2> QED  BY <1>10, <2>1, <2>2
<1>29. Core(cl2, co2, ow, sa, ino)
  BY <1>15, <1>16, <1>17, <1>18, <1>22, <1>26, <1>27, <1>28 DEF Core
<1> QED  BY <1>29 DEF cl2, co2, f, r, j, c

\* A request is made to client k.
Entry(l, t) == [log |-> l, ticket |-> t]
LEMMA CoreEnqueued ==
  ASSUME NEW cl, NEW co, NEW ow, NEW sa, NEW ino, Core(cl, co, ow, sa, ino),
         NEW k \in DOMAIN cl, NEW l \in Logs, Len(ow) < MaxRuns
  PROVE  Core([cl EXCEPT ![k] = [cl[k] EXCEPT !.queue = Append(cl[k].queue, Entry(l, Len(ow) + 1))]],
              co, Append(ow, k), sa, ino)
<1> DEFINE c == cl[k]
           t == Len(ow) + 1
           q == Append(c.queue, Entry(l, t))
           f == [c EXCEPT !.queue = q]
           cl2 == [cl EXCEPT ![k] = f]
           ow2 == Append(ow, k)
<1> HIDE DEF c, t, q, f, cl2, ow2
<1>1. Typed(cl, co, ow, sa, ino) /\ LinkInv(cl, co)
  BY DEF Core
<1>2. /\ c \in Client(Len(co), Len(ino)) /\ Len(cl) \in Nat /\ k \in 1..Len(cl)
      /\ Len(ow) \in Nat /\ DOMAIN ow = 1..Len(ow)
      /\ \A j \in DOMAIN co : co[j].client \in DOMAIN cl
  BY <1>1, TypedFacts DEF c
<1>3. t \in Tickets /\ MaxRuns \in Nat /\ MaxClients \in Nat
  BY <1>2, FileTransferAssumption DEF t, Tickets
<1>4. /\ ow2 \in Seq(1..MaxClients) /\ Len(ow2) = t /\ Len(ow2) <= MaxRuns
      /\ DOMAIN ow2 = 1..t /\ ow2[t] = k /\ \A i \in DOMAIN ow : i \in DOMAIN ow2 /\ ow2[i] = ow[i] /\ i < t
  <2>1. ow \in Seq(1..MaxClients) /\ k \in 1..MaxClients
    BY <1>1, <1>2, <1>3 DEF Typed
  <2>2. /\ ow2 \in Seq(1..MaxClients) /\ Len(ow2) = Len(ow) + 1 /\ DOMAIN ow2 = 1..(Len(ow) + 1)
        /\ \A i \in 1..Len(ow) : ow2[i] = ow[i]
        /\ ow2[Len(ow) + 1] = k
    BY <2>1, AppendFacts DEF ow2
  <2> QED  BY <1>2, <1>3, <2>2 DEF t
<1>5. c.queue \in Seq(QueueEntry) /\ Entry(l, t) \in QueueEntry /\ Entry(l, t).ticket = t
  BY <1>2, <1>3 DEF Client, QueueEntry, Entry
<1>6. /\ q \in Seq(QueueEntry) /\ DOMAIN q = 1..(Len(c.queue) + 1) /\ Len(c.queue) \in Nat
      /\ DOMAIN c.queue = 1..Len(c.queue)
      /\ \A i \in 1..Len(c.queue) : q[i] = c.queue[i]
      /\ q[Len(c.queue) + 1] = Entry(l, t)
  BY <1>5, AppendFacts DEF q
<1>7. /\ f \in Client(Len(co), Len(ino)) /\ f.queue = q /\ f.cur = c.cur /\ f.pos = c.pos
      /\ f.sock = c.sock /\ f.conn = c.conn /\ f.wbuf = c.wbuf
  BY <1>2, <1>6 DEF f, Client
<1>8. /\ Typed(cl2, co, ow, sa, ino) /\ DOMAIN cl2 = DOMAIN cl /\ cl2[k] = f
      /\ \A i \in DOMAIN cl : i # k => cl2[i] = cl[i]
  BY <1>1, <1>7, ReplaceClient DEF cl2
<1>9. Typed(cl2, co, ow2, sa, ino)
  BY <1>4, <1>8 DEF Typed
<1>10. \A i \in DOMAIN cl2 : ClientOK(cl2[i], ino)
  BY <1>7, <1>8 DEF Core, ClientOK, c
<1>11. LinkInv(cl2, co)
  <2>1. \A i \in DOMAIN cl : cl2[i].sock = cl[i].sock /\ cl2[i].conn = cl[i].conn
    BY <1>7, <1>8 DEF c
  <2> QED  BY <1>1, <1>2, <1>8, <2>1 DEF LinkInv
<1>12. \A j \in DOMAIN co : Line(cl2, co, j) = Line(cl, co, j) /\ Took(cl2, co, sa, j) = Took(cl, co, sa, j)
  <2> TAKE j \in DOMAIN co
  <2>1. Line(cl2, co, j) = Line(cl, co, j)
    BY <1>2, <1>7, <1>8 DEF Line, c
  <2> QED  BY <2>1 DEF Took
<1>13. WireInv(cl2, co, ino)
  BY <1>2, <1>7, <1>8, <1>12 DEF WireInv, Core, c
<1>14. Queued(f) = Queued(c) \cup {t}
  <2>1. \A i \in DOMAIN q : i = Len(c.queue) + 1 \/ (i \in DOMAIN c.queue /\ q[i] = c.queue[i])
    <3> TAKE i \in DOMAIN q
    <3>1. i = Len(c.queue) + 1 \/ i \in 1..Len(c.queue)
      BY <1>6
    <3> QED  BY <1>6, <3>1
  <2>2. Len(c.queue) + 1 \in DOMAIN q /\ \A i \in DOMAIN c.queue : i \in DOMAIN q /\ q[i] = c.queue[i]
    BY <1>6
  <2> QED  BY <1>5, <1>6, <1>7, <2>1, <2>2, SMTT(30) DEF Queued
<1>15. \A i \in DOMAIN cl : i # k => Queued(cl2[i]) = Queued(cl[i])
  BY <1>8 DEF Queued
<1>16. \A S, i : OwnedBy(S, i, ow) => OwnedBy(S, i, ow2) /\ Below(S, {t})
  BY <1>4 DEF OwnedBy, Below
<1>17. OwnedBy({t}, k, ow2)
  <2>1. t \in 1..t
    BY <1>2 DEF t
  <2> QED  BY <1>4, <2>1 DEF OwnedBy
<1>18. QueueRises(c.queue) /\ OwnedBy(Queued(c), k, ow)
  BY DEF Core, QueueInv, c
<1>19. QueueRises(q)
  <2> SUFFICES ASSUME NEW a \in DOMAIN q, NEW b \in DOMAIN q, a < b
               PROVE  q[a].ticket < q[b].ticket
    BY DEF QueueRises
  <2>1. a \in DOMAIN c.queue /\ q[a] = c.queue[a]
    BY <1>6
  <2>2. CASE b = Len(c.queue) + 1
    <3>1. q[a].ticket \in Queued(c)
      BY <2>1 DEF Queued
    <3> QED  BY <1>5, <1>6, <1>16, <1>18, <2>2, <3>1 DEF Below
  <2>3. CASE b # Len(c.queue) + 1
    <3>1. b \in DOMAIN c.queue /\ q[b] = c.queue[b]
      BY <1>6, <2>3
    <3> QED  BY <1>18, <2>1, <3>1 DEF QueueRises
  <2> QED  BY <2>2, <2>3
<1>20. QueueInv(cl2, ow2)
  <2> SUFFICES ASSUME NEW i \in DOMAIN cl
               PROVE  QueueRises(cl2[i].queue) /\ OwnedBy(Queued(cl2[i]), i, ow2)
    BY <1>8 DEF QueueInv
  <2>1. CASE i = k
    <3>1. OwnedBy(Queued(c), k, ow2)
      BY <1>16, <1>18
    <3>2. OwnedBy(Queued(f), k, ow2)
      BY <1>14, <1>17, <3>1 DEF OwnedBy
    <3> QED  BY <1>7, <1>8, <1>19, <2>1, <3>2
  <2>2. CASE i # k
    BY <1>8, <1>15, <1>16, <2>2 DEF QueueInv, Core
  <2> QED  BY <2>1, <2>2
<1>21. OrderInv(cl2, co, ow2, sa)
  <2> SUFFICES ASSUME NEW j \in DOMAIN co
               PROVE  /\ Rising(Line(cl, co, j)) /\ Below(Stored(sa, j), Lined(Line(cl, co, j)))
                      /\ OwnedBy(Took(cl, co, sa, j), co[j].client, ow2)
                      /\ Below(Took(cl, co, sa, j), Queued(cl2[co[j].client]))
    BY <1>12 DEF OrderInv
  <2>1. /\ Rising(Line(cl, co, j)) /\ Below(Stored(sa, j), Lined(Line(cl, co, j)))
        /\ OwnedBy(Took(cl, co, sa, j), co[j].client, ow)
        /\ Below(Took(cl, co, sa, j), Queued(cl[co[j].client]))
    BY DEF OrderInv, Core
  <2>2. OwnedBy(Took(cl, co, sa, j), co[j].client, ow2) /\ Below(Took(cl, co, sa, j), {t})
    BY <1>16, <2>1
  <2>3. Queued(cl2[co[j].client]) \subseteq Queued(cl[co[j].client]) \cup {t}
    BY <1>2, <1>8, <1>14, <1>15 DEF c
  <2> QED  BY <2>1, <2>2, <2>3 DEF Below
<1>22. ConnOrderInv(cl2, co, sa)
  BY <1>12 DEF ConnOrderInv, Core
<1>23. \A j \in DOMAIN co : ReaderOK(co[j])
  BY DEF Core
<1>24. Core(cl2, co, ow2, sa, ino)
  BY <1>9, <1>10, <1>11, <1>13, <1>20, <1>21, <1>22, <1>23 DEF Core
<1> QED  BY <1>24 DEF cl2, ow2, f, q, t, c
-----------------------------------------------------------------------------
\* A console connects.
LEMMA CoreNewClient ==
  ASSUME NEW cl, NEW co, NEW ow, NEW sa, NEW ino, Core(cl, co, ow, sa, ino),
         Len(cl) < MaxClients
  PROVE  Core(Append(cl, FreshClient), co, ow, sa, ino)
<1> DEFINE f == FreshClient
           k == Len(cl) + 1
           cl2 == Append(cl, f)
<1> HIDE DEF f, k, cl2
<1>1. Typed(cl, co, ow, sa, ino) /\ LinkInv(cl, co)
  BY DEF Core
<1>2. /\ Len(cl) \in Nat /\ DOMAIN cl = 1..Len(cl) /\ Len(co) \in Nat /\ Len(ino) \in Nat
      /\ \A j \in DOMAIN co : co[j].client \in DOMAIN cl
  BY <1>1, TypedFacts
<1>3. /\ f.sock = "connecting" /\ f.conn = 0 /\ f.queue = <<>> /\ f.cur = 0 /\ f.wbuf = <<>>
      /\ f \in Client(Len(co), Len(ino))
  <2>1. <<>> \in Seq(Items) /\ <<>> \in Seq(QueueEntry)
    OBVIOUS
  <2>2. 0 \in 0..Len(co) /\ 0 \in 0..Len(ino) /\ 0 \in 0..Chunks
    BY <1>2, FileTransferAssumption
  <2> QED  BY <2>1, <2>2 DEF f, FreshClient, Client
<1>4. /\ cl2 \in Seq(Client(Len(co), Len(ino))) /\ Len(cl2) = k /\ DOMAIN cl2 = DOMAIN cl \cup {k}
      /\ cl2[k] = f /\ \A i \in DOMAIN cl : cl2[i] = cl[i]
  <2>1. cl \in Seq(Client(Len(co), Len(ino)))
    BY <1>1 DEF Typed
  <2>2. /\ cl2 \in Seq(Client(Len(co), Len(ino))) /\ Len(cl2) = Len(cl) + 1
        /\ DOMAIN cl2 = 1..(Len(cl) + 1) /\ cl2[Len(cl) + 1] = f
        /\ \A i \in 1..Len(cl) : cl2[i] = cl[i]
    BY <1>3, <2>1, AppendFacts DEF cl2
  <2>3. 1..(Len(cl) + 1) = 1..Len(cl) \cup {k}
    BY <1>2 DEF k
  <2> QED  BY <1>2, <2>2, <2>3 DEF k
<1>5. Typed(cl2, co, ow, sa, ino)
  <2>1. Len(cl2) <= MaxClients
    BY <1>2, <1>4, FileTransferAssumption DEF k
  <2>2. Conn(Len(cl)) \subseteq Conn(Len(cl2))
    <3>1. 1..Len(cl) \subseteq 1..Len(cl2)
      BY <1>2, <1>4 DEF k
    <3> QED  BY <3>1 DEF Conn
  <2>3. co \in Seq(Conn(Len(cl2)))
    <3>1. co \in Seq(Conn(Len(cl)))
      BY <1>1 DEF Typed
    <3> QED  BY <2>2, <3>1
  <2> QED  BY <1>1, <1>4, <2>1, <2>3 DEF Typed
<1>6. \A i \in DOMAIN cl2 : ClientOK(cl2[i], ino)
  BY <1>3, <1>4 DEF Core, ClientOK
<1>7. LinkInv(cl2, co)
  BY <1>1, <1>2, <1>3, <1>4 DEF LinkInv
<1>8. \A j \in DOMAIN co : Line(cl2, co, j) = Line(cl, co, j) /\ Took(cl2, co, sa, j) = Took(cl, co, sa, j)
  <2> TAKE j \in DOMAIN co
  <2>1. Line(cl2, co, j) = Line(cl, co, j)
    BY <1>2, <1>4 DEF Line
  <2> QED  BY <2>1 DEF Took
<1>9. WireInv(cl2, co, ino)
  BY <1>2, <1>4, <1>8 DEF WireInv, Core
<1>10. QueueInv(cl2, ow)
  <2>1. QueueRises(f.queue) /\ OwnedBy(Queued(f), k, ow)
    BY <1>3 DEF QueueRises, OwnedBy, Queued
  <2>2. \A i \in DOMAIN cl : Queued(cl2[i]) = Queued(cl[i])
    BY <1>4 DEF Queued
  <2> QED  BY <1>4, <2>1, <2>2 DEF QueueInv, Core
<1>11. OrderInv(cl2, co, ow, sa)
  <2>1. \A j \in DOMAIN co : Queued(cl2[co[j].client]) = Queued(cl[co[j].client])
    BY <1>2, <1>4 DEF Queued
  <2> QED  BY <1>8, <2>1 DEF OrderInv, Core
<1>12. ConnOrderInv(cl2, co, sa)
  BY <1>8 DEF ConnOrderInv, Core
<1>13. \A j \in DOMAIN co : ReaderOK(co[j])
  BY DEF Core
<1>14. Core(cl2, co, ow, sa, ino)
  BY <1>5, <1>6, <1>7, <1>9, <1>10, <1>11, <1>12, <1>13 DEF Core
<1> QED  BY <1>14 DEF cl2, f

\* Log files are created, and written.
LEMMA CoreFiles ==
  ASSUME NEW cl, NEW co, NEW ow, NEW sa, NEW ino, Core(cl, co, ow, sa, ino),
         NEW ino2, Files(ino2), Len(ino2) <= MaxRuns, Len(ino) <= Len(ino2),
         \A n \in DOMAIN ino : ino2[n].name = ino[n].name /\ ino[n].size <= ino2[n].size
  PROVE  Core(cl, co, ow, sa, ino2)
<1>1. Typed(cl, co, ow, sa, ino)
  BY DEF Core
<1>2. /\ Len(ino) \in Nat /\ DOMAIN ino = 1..Len(ino) /\ Len(co) \in Nat
      /\ Files(ino) /\ Len(ino2) \in Nat /\ DOMAIN ino2 = 1..Len(ino2)
  BY <1>1, TypedFacts DEF Typed, Files
<1>3. \A n \in DOMAIN ino : n \in DOMAIN ino2
  BY <1>2
<1>4. Client(Len(co), Len(ino)) \subseteq Client(Len(co), Len(ino2))
  <2>1. 0..Len(ino) \subseteq 0..Len(ino2)
    BY <1>2
  <2> QED  BY <2>1 DEF Client
<1>5. Typed(cl, co, ow, sa, ino2)
  <2>1. cl \in Seq(Client(Len(co), Len(ino)))
    BY <1>1 DEF Typed
  <2>2. cl \in Seq(Client(Len(co), Len(ino2)))
    BY <1>4, <2>1
  <2> QED  BY <1>1, <2>2 DEF Typed
<1>6. ASSUME NEW k \in DOMAIN cl
      PROVE  ClientOK(cl[k], ino2)
  <2>1. ClientOK(cl[k], ino)
    BY DEF Core
  <2>2. CASE cl[k].cur = 0
    BY <2>1, <2>2 DEF ClientOK
  <2>3. CASE cl[k].cur # 0
    <3>1. cl[k] \in Client(Len(co), Len(ino))
      BY <1>1, TypedFacts
    <3>2. cl[k].cur \in DOMAIN ino /\ cl[k].pos \in Nat
      <4>1. cl[k].cur \in 0..Len(ino) /\ cl[k].pos \in 0..Chunks
        BY <3>1 DEF Client
      <4> QED  BY <1>2, <2>3, <4>1, FileTransferAssumption
    <3>3. ino[cl[k].cur].size \in Nat /\ ino2[cl[k].cur].size \in Nat
      <4>1. /\ ino[cl[k].cur] \in [name : Logs, size : 0..Chunks]
            /\ ino2[cl[k].cur] \in [name : Logs, size : 0..Chunks]
        BY <1>2, <1>3, <3>2, SeqFacts DEF Files
      <4>2. ino[cl[k].cur].size \in 0..Chunks /\ ino2[cl[k].cur].size \in 0..Chunks
        BY <4>1
      <4> QED  BY <4>2, FileTransferAssumption
    <3>4. cl[k].pos <= ino[cl[k].cur].size /\ ino[cl[k].cur].size <= ino2[cl[k].cur].size
      BY <2>1, <2>3, <3>2 DEF ClientOK
    <3>5. cl[k].pos <= ino2[cl[k].cur].size
      BY <3>2, <3>3, <3>4
    <3> QED  BY <2>1, <2>3, <3>5 DEF ClientOK
  <2> QED  BY <2>2, <2>3
<1>7. WireInv(cl, co, ino2)
  <2> SUFFICES ASSUME NEW j \in DOMAIN co
               PROVE  Wired(Line(cl, co, j), co[j].up, cl[co[j].client].cur,
                            cl[co[j].client].pos, ino2)
    BY DEF WireInv
  <2>1. Wired(Line(cl, co, j), co[j].up, cl[co[j].client].cur, cl[co[j].client].pos, ino)
    BY DEF Core, WireInv
  <2>2. Line(cl, co, j) \in Seq(Items)
    BY <1>1, LineType
  <2> QED  BY <1>2, <1>3, <2>1, <2>2, WireGrow
<1> QED  BY <1>5, <1>6, <1>7 DEF Core

-----------------------------------------------------------------------------
(* What happens at the console's end of one connection *)

\* Connection j loses some of its line: what it lost of requests, it stored.
LEMMA CoreShorter ==
  ASSUME NEW cl, NEW co, NEW ow, NEW sa, NEW ino, Core(cl, co, ow, sa, ino),
         NEW j \in DOMAIN co, NEW r \in Conn(Len(cl)), ReaderOK(r),
         r.client = co[j].client, r.up => co[j].up,
         NEW co2, co2 = [co EXCEPT ![j] = r],
         NEW sa2 \in Seq(SavedFile(Len(co))),
         \A i \in DOMAIN co : i # j => Stored(sa2, i) = Stored(sa, i),
         Stored(sa2, j) \subseteq Took(cl, co, sa, j),
         Lined(Line(cl, co2, j)) \subseteq Lined(Line(cl, co, j)),
         Rising(Line(cl, co2, j)), Below(Stored(sa2, j), Lined(Line(cl, co2, j))),
         Wired(Line(cl, co2, j), r.up, cl[r.client].cur, cl[r.client].pos, ino)
  PROVE  Core(cl, co2, ow, sa2, ino)
<1>1. Typed(cl, co, ow, sa, ino) /\ LinkInv(cl, co)
  BY DEF Core
<1>2. /\ Typed(cl, co2, ow, sa, ino) /\ DOMAIN co2 = DOMAIN co /\ Len(co2) = Len(co) /\ co2[j] = r
      /\ \A i \in DOMAIN co : i # j => co2[i] = co[i]
  <2>1. /\ Typed(cl, [co EXCEPT ![j] = r], ow, sa, ino)
        /\ DOMAIN [co EXCEPT ![j] = r] = DOMAIN co /\ Len([co EXCEPT ![j] = r]) = Len(co)
        /\ [co EXCEPT ![j] = r][j] = r
        /\ \A i \in DOMAIN co : i # j => [co EXCEPT ![j] = r][i] = co[i]
    BY ONLY <1>1, ReplaceConn, j \in DOMAIN co, r \in Conn(Len(cl))
  <2>2. co2 = [co EXCEPT ![j] = r]
    OBVIOUS
  <2> QED  BY ONLY <2>1, <2>2
<1>3. Typed(cl, co2, ow, sa2, ino)
  BY <1>2 DEF Typed
<1>4. /\ \A i \in DOMAIN co : co[i].client \in DOMAIN cl /\ co2[i].client = co[i].client
      /\ \A k \in DOMAIN cl : cl[k].conn # 0 => cl[k].conn \in DOMAIN co
  <2>1. \A k \in DOMAIN cl : cl[k].conn # 0 => cl[k].conn \in DOMAIN co
    <3> TAKE k \in DOMAIN cl
    <3>1. cl[k] \in Client(Len(co), Len(ino)) /\ DOMAIN co = 1..Len(co) /\ Len(co) \in Nat
      BY <1>1, TypedFacts
    <3>2. cl[k].conn \in 0..Len(co)
      BY <3>1 DEF Client
    <3> QED  BY <3>1, <3>2
  <2> QED  BY <1>1, <1>2, <2>1, TypedFacts
<1>5. LinkInv(cl, co2)
  <2>1. \A i \in DOMAIN co : co2[i].up => co[i].up
    BY <1>2
  <2> QED  BY <1>1, <1>2, <1>4, <2>1 DEF LinkInv
<1>6. \A i \in DOMAIN co : ReaderOK(co2[i])
  BY <1>2 DEF Core
<1>7. ASSUME NEW i \in DOMAIN co, i # j
      PROVE  Line(cl, co2, i) = Line(cl, co, i) /\ Took(cl, co2, sa2, i) = Took(cl, co, sa, i)
  <2>1. Line(cl, co2, i) = Line(cl, co, i)
    BY <1>2, <1>7 DEF Line
  <2> QED  BY <1>7, <2>1 DEF Took
<1>8. WireInv(cl, co2, ino)
  <2> SUFFICES ASSUME NEW i \in DOMAIN co
               PROVE  Wired(Line(cl, co2, i), co2[i].up, cl[co2[i].client].cur,
                            cl[co2[i].client].pos, ino)
    BY <1>2 DEF WireInv
  <2>1. CASE i = j
    BY <1>2, <2>1
  <2>2. CASE i # j
    BY <1>2, <1>7, <2>2 DEF WireInv, Core
  <2> QED  BY <2>1, <2>2
<1>9. \A i \in DOMAIN co : Took(cl, co2, sa2, i) \subseteq Took(cl, co, sa, i)
  <2>1. Took(cl, co2, sa2, j) \subseteq Took(cl, co, sa, j)
    BY DEF Took
  <2> QED  BY <1>7, <2>1
<1>10. OrderInv(cl, co2, ow, sa2)
  <2> SUFFICES ASSUME NEW i \in DOMAIN co
               PROVE  /\ Rising(Line(cl, co2, i)) /\ Below(Stored(sa2, i), Lined(Line(cl, co2, i)))
                      /\ OwnedBy(Took(cl, co2, sa2, i), co2[i].client, ow)
                      /\ Below(Took(cl, co2, sa2, i), Queued(cl[co2[i].client]))
    BY <1>2 DEF OrderInv
  <2>1. /\ Rising(Line(cl, co, i)) /\ Below(Stored(sa, i), Lined(Line(cl, co, i)))
        /\ OwnedBy(Took(cl, co, sa, i), co[i].client, ow)
        /\ Below(Took(cl, co, sa, i), Queued(cl[co[i].client]))
    BY DEF OrderInv, Core
  <2>2. /\ OwnedBy(Took(cl, co2, sa2, i), co2[i].client, ow)
        /\ Below(Took(cl, co2, sa2, i), Queued(cl[co2[i].client]))
    BY <1>4, <1>9, <2>1 DEF OwnedBy, Below
  <2>3. Rising(Line(cl, co2, i)) /\ Below(Stored(sa2, i), Lined(Line(cl, co2, i)))
    BY <1>7, <2>1
  <2> QED  BY <2>2, <2>3
<1>11. ConnOrderInv(cl, co2, sa2)
  <2> SUFFICES ASSUME NEW i \in DOMAIN co, NEW m \in DOMAIN co, i < m,
                      co2[i].client = co2[m].client
               PROVE  Below(Took(cl, co2, sa2, i), Took(cl, co2, sa2, m))
    BY <1>2 DEF ConnOrderInv
  <2>1. Below(Took(cl, co, sa, i), Took(cl, co, sa, m))
    BY <1>4 DEF ConnOrderInv, Core
  <2> QED  BY <1>9, <2>1 DEF Below
<1>12. (\A k \in DOMAIN cl : ClientOK(cl[k], ino)) /\ QueueInv(cl, ow)
  BY DEF Core
<1> QED  BY <1>2, <1>3, <1>5, <1>6, <1>8, <1>10, <1>11, <1>12 DEF Core
LEMMA StoredAppend ==
  ASSUME NEW m \in Nat, NEW sa \in Seq(SavedFile(m)), NEW e \in SavedFile(m), NEW i
  PROVE  Stored(Append(sa, e), i) = Stored(sa, i) \cup (IF e.conn = i THEN {e.ticket} ELSE {})
<1> DEFINE sa2 == Append(sa, e)
<1> HIDE DEF sa2
<1>1. /\ DOMAIN sa2 = DOMAIN sa \cup {Len(sa) + 1} /\ sa2[Len(sa) + 1] = e
      /\ \A n \in DOMAIN sa : sa2[n] = sa[n]
  <2>1. /\ DOMAIN sa2 = 1..(Len(sa) + 1) /\ sa2[Len(sa) + 1] = e
        /\ \A n \in 1..Len(sa) : sa2[n] = sa[n]
    BY AppendFacts DEF sa2
  <2>2. DOMAIN sa = 1..Len(sa) /\ Len(sa) \in Nat
    OBVIOUS
  <2>3. 1..(Len(sa) + 1) = 1..Len(sa) \cup {Len(sa) + 1}
    BY <2>2
  <2> QED  BY <2>1, <2>2, <2>3
<1>2. Stored(sa2, i) = Stored(sa, i) \cup (IF e.conn = i THEN {e.ticket} ELSE {})
  BY <1>1 DEF Stored
<1> QED  BY <1>2 DEF sa2

\* The items P, whose first is a header, are stored as a file of connection j.
Stores(P, j, sa, sa2, m) ==
  \E e \in SavedFile(m) :
    /\ sa2 = Append(sa, e) /\ e.conn = j
    /\ P # <<>> /\ P[1].kind = "header" /\ P[1].ticket = e.ticket

\* Items are taken from the line, and nothing, or the file they made, is stored.
LEMMA CoreDrops ==
  ASSUME NEW cl, NEW co, NEW ow, NEW sa, NEW ino, Core(cl, co, ow, sa, ino),
         NEW j \in DOMAIN co, NEW r \in Conn(Len(cl)), ReaderOK(r),
         r.client = co[j].client, r.up = co[j].up,
         NEW P \in Seq(Items), InFlight(co[j]) = P \o InFlight(r),
         NEW co2, co2 = [co EXCEPT ![j] = r],
         NEW sa2, sa2 = sa \/ Stores(P, j, sa, sa2, Len(co))
  PROVE  Core(cl, co2, ow, sa2, ino)
<1> DEFINE s == co[j]
           I == InFlight(r)
           w == IF s.up THEN cl[s.client].wbuf ELSE <<>>
           L == Line(cl, co, j)
           M == Line(cl, co2, j)
<1> HIDE DEF s, I, w, L, M
<1>1. Typed(cl, co, ow, sa, ino)
  BY DEF Core
<1>2. /\ s \in Conn(Len(cl)) /\ Len(cl) \in Nat /\ Len(co) \in Nat /\ s.up \in BOOLEAN
      /\ cl[s.client].wbuf \in Seq(Items) /\ sa \in Seq(SavedFile(Len(co)))
  BY <1>1, TypedFacts DEF s, Typed
<1>3. w \in Seq(Items) /\ I \in Seq(Items)
  <2>1. <<>> \in Seq(Items)
    OBVIOUS
  <2> QED  BY <1>2, <2>1, BegunType DEF w, I
<1>4. co2[j] = r
  <2>1. co \in Seq(Conn(Len(cl)))
    BY <1>1 DEF Typed
  <2> QED  BY <2>1
<1>5. L = P \o M /\ M = I \o w
  <2>1. InFlight(s) = P \o I /\ r.up = s.up /\ r.client = s.client
    BY DEF s, I
  <2>2. L = InFlight(s) \o w
    BY DEF L, Line, w, s
  <2>3. M = I \o w
    BY <1>4, <2>1 DEF M, Line, w, I
  <2>4. (P \o I) \o w = P \o (I \o w)
    BY <1>3, ItemsAssoc
  <2> QED  BY <2>1, <2>2, <2>3, <2>4
<1>6. /\ M \in Seq(Items) /\ L \in Seq(Items) /\ Len(L) = Len(P) + Len(M) /\ Len(P) \in Nat
      /\ \A i \in 1..Len(M) : M[i] = L[Len(P) + i]
      /\ \A i \in 1..Len(P) : L[i] = P[i]
  <2>1. M \in Seq(Items)
    BY <1>3, <1>5, ConcatFacts
  <2>2. /\ P \o M \in Seq(Items) /\ Len(P \o M) = Len(P) + Len(M) /\ Len(P) \in Nat
        /\ \A i \in 1..Len(M) : (P \o M)[Len(P) + i] = M[i]
        /\ \A i \in 1..Len(P) : (P \o M)[i] = P[i]
    BY <2>1, ConcatFacts
  <2> QED  BY <1>5, <2>1, <2>2
<1>7. Rising(L) /\ Below(Stored(sa, j), Lined(L))
  BY DEF L, Core, OrderInv
<1>8. Lined(M) \subseteq Lined(L) /\ Rising(M)
  <2>1. Len(P) + Len(M) <= Len(L)
    BY <1>6
  <2> QED  BY <1>6, <1>7, <2>1, LinePart
<1>9. Wired(M, r.up, cl[r.client].cur, cl[r.client].pos, ino)
  <2>1. Wired(L, s.up, cl[s.client].cur, cl[s.client].pos, ino)
    BY DEF L, s, Core, WireInv
  <2>2. Wired(M, s.up, cl[s.client].cur, cl[s.client].pos, ino)
    BY <1>2, <1>6, <2>1, WireDrop
  <2> QED  BY <2>2 DEF s
<1>10. CASE sa2 = sa
  <2>1. sa2 \in Seq(SavedFile(Len(co)))
    BY <1>2, <1>10
  <2>2. \A i \in DOMAIN co : i # j => Stored(sa2, i) = Stored(sa, i)
    BY <1>10
  <2>3. Stored(sa2, j) \subseteq Took(cl, co, sa, j) /\ Below(Stored(sa2, j), Lined(M))
    BY <1>7, <1>8, <1>10 DEF Took, Below
  <2> QED  BY <1>8, <1>9, <2>1, <2>2, <2>3, CoreShorter DEF M, L
<1>11. CASE sa2 # sa
  <2>1. PICK e \in SavedFile(Len(co)) :
          /\ sa2 = Append(sa, e) /\ e.conn = j
          /\ P # <<>> /\ P[1].kind = "header" /\ P[1].ticket = e.ticket
    BY <1>11 DEF Stores
  <2>2. sa2 \in Seq(SavedFile(Len(co)))
    BY <1>2, <2>1, AppendFacts
  <2>3. \A i : Stored(sa2, i) = Stored(sa, i) \cup (IF e.conn = i THEN {e.ticket} ELSE {})
    <3> TAKE i
    <3>1. Stored(Append(sa, e), i) = Stored(sa, i) \cup (IF e.conn = i THEN {e.ticket} ELSE {})
      <4>1. Len(co) \in Nat /\ sa \in Seq(SavedFile(Len(co))) /\ e \in SavedFile(Len(co))
        BY <1>2
      <4> QED  BY ONLY <4>1, StoredAppend
    <3> QED  BY <2>1, <3>1
  <2>4. 1 \in DOMAIN L /\ L[1] = P[1] /\ Len(P) >= 1 /\ DOMAIN L = 1..Len(L) /\ Len(M) \in Nat
    <3>1. Len(P) # 0
      BY <2>1
    <3>2. Len(M) \in Nat /\ DOMAIN L = 1..Len(L)
      BY <1>6
    <3>3. Len(P) >= 1 /\ 1 \in 1..Len(P) /\ 1 \in 1..Len(L)
      BY <1>6, <3>1, <3>2
    <3>4. L[1] = P[1]
      BY <1>6, <3>3
    <3> QED  BY <3>2, <3>3, <3>4
  <2>5. e.ticket \in Lined(L)
    BY <2>1, <2>4 DEF Lined
  <2>6. Below({e.ticket}, Lined(M))
    <3> SUFFICES ASSUME NEW q \in DOMAIN M, M[q].kind = "header"
                 PROVE  e.ticket < M[q].ticket
      BY DEF Below, Lined
    <3>1. q \in 1..Len(M)
      BY <1>6
    <3>2. Len(P) + q \in 1..Len(L) /\ 1 < Len(P) + q
      BY <1>6, <2>4, <3>1
    <3>3. M[q] = L[Len(P) + q]
      BY <1>6, <3>1
    <3> QED  BY <1>7, <2>1, <2>4, <3>2, <3>3 DEF Rising
  <2>7. Stored(sa2, j) \subseteq Took(cl, co, sa, j) /\ Below(Stored(sa2, j), Lined(M))
    <3>1. Stored(sa2, j) = Stored(sa, j) \cup {e.ticket}
      BY <2>1, <2>3
    <3> QED  BY <1>7, <1>8, <2>5, <2>6, <3>1 DEF Took, Below, L
  <2>8. \A i \in DOMAIN co : i # j => Stored(sa2, i) = Stored(sa, i)
    <3> TAKE i \in DOMAIN co
    <3>1. Stored(sa2, i) = Stored(sa, i) \cup (IF e.conn = i THEN {e.ticket} ELSE {})
      BY <2>3
    <3>2. e.conn = j
      BY <2>1
    <3> QED  BY ONLY <3>1, <3>2
  <2> QED  BY <1>8, <1>9, <2>2, <2>7, <2>8, CoreShorter DEF M, L
<1> QED  BY <1>10, <1>11

\* The connection breaks.
LEMMA CoreBreaks ==
  ASSUME NEW cl, NEW co, NEW ow, NEW sa, NEW ino, Core(cl, co, ow, sa, ino),
         NEW j \in DOMAIN co, NEW n \in 0..Len(co[j].net),
         NEW r, r = [co[j] EXCEPT !.up = FALSE, !.net = SubSeq(co[j].net, 1, n)],
         NEW co2, co2 = [co EXCEPT ![j] = r]
  PROVE  Core(cl, co2, ow, sa, ino)
<1> DEFINE s == co[j]
           I == InFlight(r)
           w == IF s.up THEN cl[s.client].wbuf ELSE <<>>
           L == Line(cl, co, j)
           M == Line(cl, co2, j)
           a == SubSeq(s.net, 1, n)
           b == SubSeq(s.net, n + 1, Len(s.net))
<1> HIDE DEF s, I, w, L, M, a, b
<1>1. Typed(cl, co, ow, sa, ino)
  BY DEF Core
<1>2. /\ s \in Conn(Len(cl)) /\ Len(cl) \in Nat /\ Len(co) \in Nat /\ s.up \in BOOLEAN
      /\ cl[s.client].wbuf \in Seq(Items) /\ sa \in Seq(SavedFile(Len(co)))
  BY <1>1, TypedFacts DEF s, Typed
<1>3. /\ s.net \in Seq(Items) /\ s.unread \in Seq(Items) /\ Begun(s) \in Seq(Items)
      /\ w \in Seq(Items)
  <2>1. <<>> \in Seq(Items)
    OBVIOUS
  <2> QED  BY <1>2, <2>1, ConnTypes, BegunType DEF w
<1>4. /\ a \in Seq(Items) /\ b \in Seq(Items) /\ a \o b = s.net
  <2> DEFINE N == s.net
  <2>1. N \in Seq(Items) /\ n \in 0..Len(N)
    BY <1>3 DEF s
  <2> HIDE DEF N
  <2>2. Len(N) \in Nat /\ n \in Nat /\ n + 1 \in Nat
    BY <2>1
  <2>3. SubSeq(N, 1, n) \o SubSeq(N, n + 1, Len(N)) = N
    BY <2>1, Splits
  <2>4. SubSeq(N, 1, n) \in Seq(Items)
    BY <2>1, <2>2, SubSeqFacts
  <2>5. SubSeq(N, n + 1, Len(N)) \in Seq(Items)
    BY <2>1, <2>2, SubSeqFacts
  <2> QED  BY <2>3, <2>4, <2>5 DEF N, a, b
<1>5. /\ r \in Conn(Len(cl)) /\ r.net = a /\ r.unread = s.unread /\ r.up = FALSE
      /\ r.file = s.file /\ r.got = s.got /\ r.client = s.client /\ r.reading = s.reading
  <2>1. r = [s EXCEPT !.up = FALSE, !.net = a]
    BY DEF s, a
  <2> QED  BY <1>2, <1>4, <2>1 DEF Conn
<1>6. Begun(r) = Begun(s) /\ ReaderOK(r)
  <2>1. ReaderOK(s)
    BY DEF Core, s
  <2> QED  BY <1>5, <2>1 DEF Begun, ReaderOK
<1>7. InFlight(s) = I \o b /\ I \in Seq(Items)
  <2> DEFINE g == Begun(s)
             u == s.unread
  <2>1. g \in Seq(Items) /\ u \in Seq(Items)
    BY <1>3
  <2>2. InFlight(s) = g \o (u \o (a \o b)) /\ I = g \o (u \o a)
    BY <1>4, <1>5, <1>6 DEF InFlight, I
  <2> HIDE DEF g, u
  <2>3. u \o (a \o b) = (u \o a) \o b
    BY <1>4, <2>1, ItemsAssoc
  <2>4. PICK y \in Seq(Items) : y = u \o a
    BY <1>4, <2>1, ConcatFacts
  <2>5. g \o (y \o b) = (g \o y) \o b
    BY <1>4, <2>1, <2>4, ItemsAssoc, ZenonT(30)
  <2>6. g \o y \in Seq(Items)
    BY <2>1, <2>4, ConcatFacts
  <2> QED  BY <2>2, <2>3, <2>4, <2>5, <2>6
<1>8. co2[j] = r
  <2>1. co \in Seq(Conn(Len(cl)))
    BY <1>1 DEF Typed
  <2> QED  BY <2>1
<1>9. L = M \o (b \o w) /\ M = I
  <2>1. L = InFlight(s) \o w
    BY DEF L, Line, w, s
  <2>2. (I \o b) \o w = I \o (b \o w)
    BY <1>3, <1>4, <1>7, ItemsAssoc
  <2>3. M = I
    BY <1>5, <1>7, <1>8, SeqFacts DEF M, Line, I
  <2> QED  BY <1>7, <2>1, <2>2, <2>3
<1>10. /\ M \in Seq(Items) /\ L \in Seq(Items) /\ Len(M) <= Len(L) /\ 0 + Len(M) <= Len(L)
       /\ \A i \in 1..Len(M) : M[i] = L[i] /\ M[i] = L[0 + i]
  <2>1. b \o w \in Seq(Items)
    BY <1>3, <1>4, ConcatFacts
  <2>2. PICK v \in Seq(Items) : v = b \o w
    BY <2>1
  <2>3. M \in Seq(Items)
    BY <1>7, <1>9
  <2>4. /\ M \o v \in Seq(Items) /\ Len(M \o v) = Len(M) + Len(v) /\ Len(M) \in Nat /\ Len(v) \in Nat
        /\ \A i \in 1..Len(M) : (M \o v)[i] = M[i]
    BY <2>2, <2>3, ConcatFacts
  <2>5. L = M \o v
    BY <1>9, <2>2
  <2>6. \A i \in 1..Len(M) : 0 + i = i
    BY <2>4
  <2> QED  BY <2>3, <2>4, <2>5, <2>6
<1>11. Rising(L) /\ Below(Stored(sa, j), Lined(L))
  BY DEF L, Core, OrderInv
<1>12. Lined(M) \subseteq Lined(L) /\ Rising(M)
  BY <1>10, <1>11, LinePart
<1>13. Wired(M, r.up, cl[r.client].cur, cl[r.client].pos, ino)
  <2>1. Wired(L, s.up, cl[s.client].cur, cl[s.client].pos, ino)
    BY DEF L, s, Core, WireInv
  <2>2. Wired(M, FALSE, cl[r.client].cur, cl[r.client].pos, ino)
    <3>1. /\ M \in Seq(Items) /\ L \in Seq(Items) /\ Len(M) <= Len(L)
          /\ \A i \in 1..Len(M) : M[i] = L[i]
      BY <1>10
    <3> DEFINE live == s.up
               cur == cl[s.client].cur
               pos == cl[s.client].pos
               c == cl[r.client].cur
               q == cl[r.client].pos
    <3>2. Wired(L, live, cur, pos, ino)
      BY <2>1
    <3> HIDE DEF live, cur, pos, c, q
    <3>3. Wired(M, FALSE, c, q, ino)
      BY ONLY <3>1, <3>2, WireCut
    <3> QED  BY <3>3 DEF c, q
  <2> QED  BY <1>5, <2>2
<1>14. Stored(sa, j) \subseteq Took(cl, co, sa, j) /\ Below(Stored(sa, j), Lined(M))
  BY <1>11, <1>12 DEF Took, Below
<1>15. r.client = co[j].client /\ (r.up => co[j].up)
  BY <1>5 DEF s
<1> QED  BY <1>2, <1>5, <1>6, <1>12, <1>13, <1>14, <1>15, CoreShorter DEF M, L
-----------------------------------------------------------------------------
(* The steps.  Each keeps Core; and to LogDelivery each is Quiet, but      *)
(* those that make a request or store a file.                              *)

AllHeld(cl) == UNION {HeldBy(c) : c \in Range(cl)}
AllOnTheWay(co) == UNION {OnTheWay(s) : s \in Range(co)}
Pending(cl, co) == AllHeld(cl) \cup AllOnTheWay(co)

LEMMA PendingOpen == Open = Pending(clients, conns) \ {s.ticket : s \in Range(saved)}
BY DEF Open, Pending, AllHeld, AllOnTheWay

LEMMA PendingParts ==
  ASSUME NEW cl, NEW co
  PROVE  /\ \A k \in DOMAIN cl : HeldBy(cl[k]) \subseteq Pending(cl, co)
         /\ \A j \in DOMAIN co : OnTheWay(co[j]) \subseteq Pending(cl, co)
         /\ \A S : (\A k \in DOMAIN cl : HeldBy(cl[k]) \subseteq S)
                     /\ (\A j \in DOMAIN co : OnTheWay(co[j]) \subseteq S)
                   => Pending(cl, co) \subseteq S
<1>1. /\ \A k \in DOMAIN cl : HeldBy(cl[k]) \subseteq AllHeld(cl)
      /\ \A S : (\A k \in DOMAIN cl : HeldBy(cl[k]) \subseteq S) => AllHeld(cl) \subseteq S
  BY DEF Range, AllHeld
<1>2. /\ \A j \in DOMAIN co : OnTheWay(co[j]) \subseteq AllOnTheWay(co)
      /\ \A S : (\A j \in DOMAIN co : OnTheWay(co[j]) \subseteq S) => AllOnTheWay(co) \subseteq S
  BY DEF Range, AllOnTheWay
<1> QED  BY <1>1, <1>2 DEF Pending

LEMMA WayFacts ==
  ASSUME NEW s, s.net \in Seq(Items), s.unread \in Seq(Items)
  PROVE  OnTheWay(s) = Lined(s.net) \cup Lined(s.unread)
                         \cup (IF s.file = NoFile THEN {} ELSE {s.file.ticket})
<1>1. HeaderTickets(s.net \o s.unread) = Lined(s.net \o s.unread)
  BY DEF HeaderTickets, Range, Lined
<1>2. Lined(s.net \o s.unread) = Lined(s.net) \cup Lined(s.unread)
  BY LinedConcat
<1> QED  BY <1>1, <1>2 DEF OnTheWay

\* Only client k changes, and it holds no more than before.
LEMMA PendingClient ==
  ASSUME NEW cl, NEW co, NEW k \in DOMAIN cl, NEW f, NEW X,
         HeldBy(f) \subseteq HeldBy(cl[k]) \cup X
  PROVE  Pending([cl EXCEPT ![k] = f], co) \subseteq Pending(cl, co) \cup X
<1> DEFINE cl2 == [cl EXCEPT ![k] = f]
<1>1. DOMAIN cl2 = DOMAIN cl /\ cl2[k] = f /\ \A i \in DOMAIN cl : i # k => cl2[i] = cl[i]
  OBVIOUS
<1> HIDE DEF cl2
<1>2. \A i \in DOMAIN cl2 : HeldBy(cl2[i]) \subseteq Pending(cl, co) \cup X
  BY <1>1, PendingParts
<1>3. \A j \in DOMAIN co : OnTheWay(co[j]) \subseteq Pending(cl, co) \cup X
  BY PendingParts
<1>4. Pending(cl2, co) \subseteq Pending(cl, co) \cup X
  BY <1>2, <1>3, PendingParts
<1> QED  BY <1>4 DEF cl2

\* Only connection j changes.
LEMMA PendingConn ==
  ASSUME NEW cl, NEW co, NEW j \in DOMAIN co, NEW r, NEW X,
         OnTheWay(r) \subseteq OnTheWay(co[j]) \cup X
  PROVE  Pending(cl, [co EXCEPT ![j] = r]) \subseteq Pending(cl, co) \cup X
<1> DEFINE co2 == [co EXCEPT ![j] = r]
<1>1. DOMAIN co2 = DOMAIN co /\ co2[j] = r /\ \A i \in DOMAIN co : i # j => co2[i] = co[i]
  OBVIOUS
<1> HIDE DEF co2
<1>2. \A i \in DOMAIN co2 : OnTheWay(co2[i]) \subseteq Pending(cl, co) \cup X
  BY <1>1, PendingParts
<1>3. \A i \in DOMAIN cl : HeldBy(cl[i]) \subseteq Pending(cl, co) \cup X
  BY PendingParts
<1>4. Pending(cl, co2) \subseteq Pending(cl, co) \cup X
  BY <1>2, <1>3, PendingParts
<1> QED  BY <1>4 DEF co2

\* What a step does to the requests.
Linked == \A j \in DOMAIN conns : j \in DOMAIN conns' /\ conns'[j].client = conns[j].client
Quiet == owner' = owner /\ saved' = saved /\ Open' \subseteq Open /\ Linked
NextCore == Core(clients', conns', owner', saved', inodes')

LEMMA QuietFrom ==
  ASSUME owner' = owner, saved' = saved, Linked,
         Pending(clients', conns') \subseteq Pending(clients, conns)
  PROVE  Quiet
<1>1. Open' = Pending(clients', conns') \ {s.ticket : s \in Range(saved')}
  BY DEF Open, Pending, AllHeld, AllOnTheWay
<1> QED  BY <1>1, PendingOpen DEF Quiet

\* The disk, as far as the steps of clients and connections need it.
DiskType ==
  /\ dir \in [Logs -> 0..Len(inodes)] /\ fd \in [Logs -> 0..Len(inodes)]
  /\ breaks \in 0..MaxBreaks /\ fails \in 0..MaxFails

LEMMA Facts ==
  ASSUME IInv
  PROVE  /\ Core(clients, conns, owner, saved, inodes)
         /\ Typed(clients, conns, owner, saved, inodes) /\ DiskType /\ DiskInv /\ DirOK(dir)
         /\ \A k \in DOMAIN clients : clients[k] \in Client(Len(conns), Len(inodes))
         /\ \A j \in DOMAIN conns : conns[j] \in Conn(Len(clients)) /\ conns[j].client \in DOMAIN clients
         /\ Len(clients) \in Nat /\ Len(conns) \in Nat /\ Len(inodes) \in Nat
         /\ DOMAIN clients = 1..Len(clients) /\ DOMAIN conns = 1..Len(conns)
<1>1. Core(clients, conns, owner, saved, inodes)
  BY DEF IInv
<1>2. Typed(clients, conns, owner, saved, inodes)
  BY <1>1 DEF Core
<1>3. DiskType /\ DiskInv
  BY DEF IInv, TypeOK, DiskType
<1>4. DirOK(dir)
  BY <1>3 DEF DiskType, DiskInv, DirOK
<1> QED  BY <1>1, <1>2, <1>3, <1>4, TypedFacts

LEMMA TwiceExcept ==
  ASSUME NEW s, NEW k, NEW a, NEW b
  PROVE  [[s EXCEPT ![k] = a] EXCEPT ![k] = b] = [s EXCEPT ![k] = b]
OBVIOUS

\* A client whose socket was connected goes on, from a state that Core describes.
LEMMA GoesOn ==
  ASSUME NEW cl, NEW co, NEW ow, Core(cl, co, ow, saved, inodes),
         NEW k \in DOMAIN cl, NEW d, DirOK(d), cl[k].sock = "connected",
         NEW f, Serves(cl[k], f, d)
  PROVE  /\ Core([cl EXCEPT ![k] = f], co, ow, saved, inodes)
         /\ HeldBy(f) \subseteq HeldBy(cl[k])
<1>1. Core([cl EXCEPT ![k] = f], co, ow, saved, inodes)
  BY CoreServes
<1>2. ServeContext(cl[k], Len(co), d)
  <2>1. Typed(cl, co, ow, saved, inodes)
    BY DEF Core
  <2>2. cl[k] \in Client(Len(co), Len(inodes)) /\ Len(co) \in Nat
    BY <2>1, TypedFacts
  <2>3. Files(inodes) /\ Len(inodes) <= MaxRuns
    BY <2>1 DEF Typed
  <2> QED  BY <2>2, <2>3 DEF ServeContext, Core
<1>3. HeldBy(f) \subseteq HeldBy(cl[k])
  BY <1>2, ServesClient
<1> QED  BY <1>1, <1>3

LEMMA StepOnConnected ==
  ASSUME IInv, NEW k \in DOMAIN clients, OnConnected(k)
  PROVE  NextCore /\ Quiet
<1> DEFINE c == clients[k]
           g == [c EXCEPT !.sock = "connected", !.conn = Len(conns) + 1]
           f == IF g.cur = 0 THEN SendNextFile(g, dir) ELSE g
           cl1 == [clients EXCEPT ![k] = g]
           co1 == Append(conns, FreshConn(k))
<1> HIDE DEF c, g, f, cl1, co1
<1>1. /\ Core(clients, conns, owner, saved, inodes) /\ DirOK(dir) /\ c.sock = "connecting"
      /\ c \in Client(Len(conns), Len(inodes)) /\ conns \in Seq(Conn(Len(clients)))
      /\ DOMAIN conns = 1..Len(conns) /\ Len(conns) \in Nat /\ k \in 1..Len(clients)
      /\ clients \in Seq(Client(Len(conns), Len(inodes)))
  BY Facts DEF OnConnected, c, Typed
<1>2. Core(cl1, co1, owner, saved, inodes)
  BY <1>1, CoreConnected DEF cl1, co1, g, c
<1>3. /\ Len(co1) = Len(conns) + 1 /\ DOMAIN co1 = DOMAIN conns \cup {Len(conns) + 1}
      /\ \A j \in DOMAIN conns : co1[j] = conns[j]
      /\ co1[Len(conns) + 1] = FreshConn(k)
  <2>1. FreshConn(k) \in Conn(Len(clients))
    <3>1. <<>> \in Seq(Items)
      OBVIOUS
    <3> QED  BY <1>1, <3>1 DEF FreshConn, Conn
  <2>2. /\ Len(co1) = Len(conns) + 1 /\ DOMAIN co1 = 1..(Len(conns) + 1)
        /\ \A j \in 1..Len(conns) : co1[j] = conns[j]
        /\ co1[Len(conns) + 1] = FreshConn(k)
    BY <1>1, <2>1, AppendFacts DEF co1
  <2> QED  BY <1>1, <2>2
<1>4. k \in DOMAIN cl1 /\ cl1[k] = g /\ [cl1 EXCEPT ![k] = f] = [clients EXCEPT ![k] = f]
  BY TwiceExcept DEF cl1
<1>5. /\ g.sock = "connected" /\ g.queue = c.queue /\ g.cur = c.cur /\ g.ticket = c.ticket
      /\ g.wbuf = c.wbuf
  BY <1>1 DEF g, Client
<1>6. Serves(g, f, dir)
  BY DEF f, Serves
<1>7. Core([cl1 EXCEPT ![k] = f], co1, owner, saved, inodes) /\ HeldBy(f) \subseteq HeldBy(g)
  BY <1>1, <1>2, <1>4, <1>5, <1>6, GoesOn
<1>8. /\ conns' = co1 /\ clients' = [clients EXCEPT ![k] = f]
      /\ UNCHANGED <<disk, owner, saved, breaks, fails>>
  BY <1>3 DEF OnConnected, f, g, c, co1
<1>9. NextCore
  BY <1>4, <1>7, <1>8 DEF NextCore, disk
<1>10. HeldBy(f) \subseteq HeldBy(clients[k])
  BY <1>5, <1>7, HeldByFacts DEF HeldBy, c
<1>11. Pending(clients', conns) \subseteq Pending(clients, conns)
  <2>1. HeldBy(f) \subseteq HeldBy(clients[k]) \cup {}
    BY <1>10
  <2> QED  BY <1>8, <2>1, PendingClient
<1>12. Pending(clients', conns') \subseteq Pending(clients, conns)
  <2>1. OnTheWay(FreshConn(k)) = {}
    <3>1. Lined(<<>>) = {} /\ <<>> \in Seq(Items)
      BY DEF Lined
    <3>2. FreshConn(k).net = <<>> /\ FreshConn(k).unread = <<>> /\ FreshConn(k).file = NoFile
      BY DEF FreshConn
    <3> QED  BY <3>1, <3>2, WayFacts
  <2>2. \A j \in DOMAIN conns' : OnTheWay(conns'[j]) \subseteq Pending(clients, conns)
    BY <1>3, <1>8, <2>1, PendingParts
  <2>3. \A i \in DOMAIN clients' : HeldBy(clients'[i]) \subseteq Pending(clients, conns)
    BY <1>11, PendingParts
  <2> QED  BY <2>2, <2>3, PendingParts
<1>13. Linked
  BY <1>3, <1>8 DEF Linked
<1> QED  BY <1>8, <1>9, <1>12, <1>13, QuietFrom
\* A client that has no line changes, and not its queue.
LEMMA StepOffline ==
  ASSUME IInv, NEW k \in DOMAIN clients, NEW f \in Client(Len(conns), Len(inodes)),
         ClientOK(f, inodes), \A j \in DOMAIN conns : conns[j].client = k => ~conns[j].up,
         f.conn = clients[k].conn, f.queue = clients[k].queue, f.sock # "connected",
         HeldBy(f) \subseteq HeldBy(clients[k]), clients' = [clients EXCEPT ![k] = f],
         UNCHANGED <<inodes, conns, owner, saved>>
  PROVE  NextCore /\ Quiet
<1>1. Core(clients, conns, owner, saved, inodes)
  BY Facts
<1>2. Core([clients EXCEPT ![k] = f], conns, owner, saved, inodes)
  BY <1>1, CoreOffline
<1>3. Pending(clients', conns') \subseteq Pending(clients, conns)
  <2>1. HeldBy(f) \subseteq HeldBy(clients[k]) \cup {}
    OBVIOUS
  <2>2. Pending([clients EXCEPT ![k] = f], conns) \subseteq Pending(clients, conns) \cup {}
    BY <2>1, PendingClient
  <2> QED  BY <2>2
<1>4. Linked
  BY DEF Linked
<1> QED  BY <1>2, <1>3, <1>4, QuietFrom DEF NextCore

LEMMA StepConnectFails ==
  ASSUME IInv, NEW k \in DOMAIN clients, ConnectFails(k)
  PROVE  NextCore /\ Quiet
<1> DEFINE c == clients[k]
           f == [c EXCEPT !.sock = "unconnected"]
<1> HIDE DEF c, f
<1>1. /\ c.sock = "connecting" /\ c \in Client(Len(conns), Len(inodes)) /\ ClientOK(c, inodes)
      /\ \A j \in DOMAIN conns : conns[j].client = k => ~conns[j].up
  BY Facts DEF ConnectFails, c, Core, LinkInv
<1>2. /\ f \in Client(Len(conns), Len(inodes)) /\ f.sock = "unconnected" /\ f.conn = c.conn
      /\ f.queue = c.queue /\ f.cur = c.cur /\ f.ticket = c.ticket /\ f.wbuf = c.wbuf
  BY <1>1 DEF f, Client
<1>3. ClientOK(f, inodes)
  BY <1>1, <1>2 DEF ClientOK
<1>4. HeldBy(f) \subseteq HeldBy(c)
  BY <1>2 DEF HeldBy
<1>5. clients' = [clients EXCEPT ![k] = f] /\ UNCHANGED <<inodes, conns, owner, saved>>
  BY DEF ConnectFails, disk, f, c
<1> QED  BY <1>1, <1>2, <1>3, <1>4, <1>5, StepOffline DEF c

LEMMA StepOnDisconnected ==
  ASSUME IInv, NEW k \in DOMAIN clients, OnDisconnected(k)
  PROVE  NextCore /\ Quiet
<1> DEFINE c == clients[k]
           f == Closed([c EXCEPT !.sock = "unconnected", !.wbuf = <<>>])
<1> HIDE DEF c, f
<1>1. /\ c.sock = "connected" /\ c \in Client(Len(conns), Len(inodes)) /\ Len(inodes) \in Nat
      /\ ~conns[c.conn].up
  BY Facts DEF OnDisconnected, c
<1>2. \A j \in DOMAIN conns : conns[j].client = k => ~conns[j].up
  BY <1>1, Facts, Connected DEF c
<1>3. /\ f \in Client(Len(conns), Len(inodes)) /\ f.sock = "unconnected" /\ f.conn = c.conn
      /\ f.queue = c.queue /\ f.cur = 0 /\ f.wbuf = <<>>
  <2>1. 0 \in 0..Chunks /\ 0 \in 0..Len(inodes) /\ <<>> \in Seq(Items)
    BY <1>1, FileTransferAssumption
  <2> QED  BY <1>1, <2>1 DEF f, Closed, Client
<1>4. ClientOK(f, inodes)
  BY <1>3 DEF ClientOK
<1>5. HeldBy(f) \subseteq HeldBy(c)
  <2>1. Queued(f) = Queued(c) /\ Lined(f.wbuf) = {}
    BY <1>3 DEF Queued, Lined
  <2>2. HeldBy(f) = Queued(f) \cup Lined(f.wbuf) \cup (IF f.cur = 0 THEN {} ELSE {f.ticket})
    BY HeldByFacts
  <2>3. Queued(c) \subseteq HeldBy(c)
    BY HeldByFacts
  <2> QED  BY <1>3, <2>1, <2>2, <2>3
<1>6. clients' = [clients EXCEPT ![k] = f] /\ UNCHANGED <<inodes, conns, owner, saved>>
  BY DEF OnDisconnected, disk, f, c
<1> QED  BY <1>2, <1>3, <1>4, <1>5, <1>6, StepOffline DEF c

LEMMA StepOnNewClient ==
  ASSUME IInv, OnNewClient
  PROVE  NextCore /\ Quiet
<1>1. Core(clients, conns, owner, saved, inodes) /\ Len(clients) < MaxClients
  BY Facts DEF OnNewClient
<1>2. clients' = Append(clients, FreshClient) /\ UNCHANGED <<inodes, conns, owner, saved>>
  BY DEF OnNewClient, disk
<1>3. NextCore
  BY <1>1, <1>2, CoreNewClient DEF NextCore
<1>4. HeldBy(FreshClient) = {}
  <2>1. /\ Queued(FreshClient) = {} /\ Lined(FreshClient.wbuf) = {}
        /\ FreshClient.cur = 0
    BY DEF FreshClient, Queued, Lined
  <2> QED  BY <2>1, HeldByFacts
<1>5. \A k \in DOMAIN clients' : clients'[k] = FreshClient \/ (k \in DOMAIN clients /\ clients'[k] = clients[k])
  <2>1. clients \in Seq(Client(Len(conns), Len(inodes)))
    BY Facts DEF Typed
  <2> QED  BY <1>2, <2>1
<1>6. Pending(clients', conns') \subseteq Pending(clients, conns)
  <2>1. \A k \in DOMAIN clients' : HeldBy(clients'[k]) \subseteq Pending(clients, conns)
    BY <1>4, <1>5, PendingParts
  <2>2. \A j \in DOMAIN conns' : OnTheWay(conns'[j]) \subseteq Pending(clients, conns)
    BY <1>2, PendingParts
  <2> QED  BY <2>1, <2>2, PendingParts
<1>7. Linked
  BY <1>2 DEF Linked
<1> QED  BY <1>2, <1>3, <1>6, <1>7, QuietFrom

\* The client w of which the system has just taken something goes on as f.
GoneOn(w, f) ==
  \/ /\ AtEnd(w) /\ w.wbuf = <<>>
     /\ f = SendNextFile(Closed(w), [dir EXCEPT ![inodes[w.cur].name] = 0])
  \/ f = Fill(w)

LEMMA GoesOnWriting ==
  ASSUME NEW cl, NEW co, Core(cl, co, owner, saved, inodes), DirOK(dir),
         NEW k \in DOMAIN cl, cl[k].sock = "connected", cl[k].cur # 0,
         NEW w, w = cl[k], NEW f, GoneOn(w, f)
  PROVE  /\ Core([cl EXCEPT ![k] = f], co, owner, saved, inodes)
         /\ HeldBy(f) \subseteq HeldBy(w)
<1>1. /\ w \in Client(Len(co), Len(inodes)) /\ ClientOK(w, inodes) /\ Len(co) \in Nat
      /\ Len(inodes) \in Nat /\ Files(inodes)
  BY TypedFacts DEF Core, Typed
<1>2. CASE f # Fill(w)
  <2> DEFINE v == Closed(w)
             d == [dir EXCEPT ![inodes[w.cur].name] = 0]
             cl1 == [cl EXCEPT ![k] = v]
  <2> HIDE DEF v, d, cl1
  <2>1. AtEnd(w) /\ w.wbuf = <<>> /\ f = SendNextFile(v, d)
    BY <1>2 DEF GoneOn, v, d
  <2>2. DirOK(d)
    <3>1. \A l \in Logs : d[l] = dir[l] \/ d[l] = 0
      BY DEF d, DirOK
    <3>2. d \in [Logs -> 0..Len(inodes)]
      <4>1. 0 \in 0..Len(inodes) /\ dir \in [Logs -> 0..Len(inodes)]
        BY <1>1 DEF DirOK
      <4> QED  BY ONLY <4>1 DEF d
    <3> QED  BY <3>1, <3>2 DEF DirOK
  <2>3. /\ v.cur = 0 /\ v.wbuf = w.wbuf /\ v.queue = w.queue /\ v.sock = w.sock
    BY <1>1 DEF v, Closed, Client
  <2>4. Core(cl1, co, owner, saved, inodes)
    <3>1. cl[k].wbuf = <<>> /\ cl[k].pos = inodes[cl[k].cur].size
      BY <2>1 DEF AtEnd
    <3> QED  BY <3>1, CoreClosed DEF cl1, v
  <2>5. k \in DOMAIN cl1 /\ cl1[k] = v /\ [cl1 EXCEPT ![k] = f] = [cl EXCEPT ![k] = f]
    BY TwiceExcept DEF cl1
  <2>6. Serves(v, f, d)
    BY <2>1, <2>3 DEF Serves
  <2>7. Core([cl1 EXCEPT ![k] = f], co, owner, saved, inodes) /\ HeldBy(f) \subseteq HeldBy(v)
    BY <2>2, <2>3, <2>4, <2>5, <2>6, GoesOn
  <2>8. HeldBy(v) \subseteq HeldBy(w)
    <3>1. HeldBy(v) = Queued(w) \cup Lined(w.wbuf)
      BY <2>3, HeldByFacts DEF Queued
    <3> QED  BY <3>1, HeldByFacts
  <2>9. HeldBy(f) \subseteq HeldBy(w)
    BY <2>7, <2>8
  <2> QED  BY <2>5, <2>7, <2>9
<1>3. CASE f = Fill(w)
  <2>1. Serves(cl[k], f, dir)
    BY <1>3 DEF Serves
  <2> QED  BY <2>1, GoesOn
<1> QED  BY <1>2, <1>3
LEMMA StepWritten ==
  ASSUME IInv, NEW k \in DOMAIN clients, Written(k)
  PROVE  NextCore /\ Quiet
<1> DEFINE c == clients[k]
           j == c.conn
           s == conns[j]
           h == Head(c.wbuf)
           w == [c EXCEPT !.wbuf = Tail(c.wbuf)]
           r == [s EXCEPT !.net = Append(s.net, h)]
           cl1 == [clients EXCEPT ![k] = w]
<1> HIDE DEF c, j, s, h, w, r, cl1
<1>1. /\ Core(clients, conns, owner, saved, inodes) /\ DirOK(dir)
      /\ c \in Client(Len(conns), Len(inodes)) /\ ClientOK(c, inodes)
      /\ c.sock = "connected" /\ c.wbuf # <<>> /\ OnBytesWritten(k, w)
      /\ conns' = (IF s.up THEN [conns EXCEPT ![j] = r] ELSE conns)
      /\ UNCHANGED <<inodes, owner, saved>>
  <2>1. conns' = IF s.up THEN [conns EXCEPT ![j].net = Append(@, h)] ELSE conns
    BY DEF Written, c, j, s, h
  <2>2. [conns EXCEPT ![j].net = Append(@, h)] = [conns EXCEPT ![j] = r]
    BY DEF r, s
  <2>3. /\ c.sock = "connected" /\ c.wbuf # <<>> /\ OnBytesWritten(k, w)
        /\ UNCHANGED <<inodes, owner, saved>>
    BY DEF Written, c, w
  <2> QED  BY <2>1, <2>2, <2>3, Facts DEF c, Core
<1>2. /\ j \in DOMAIN conns /\ s \in Conn(Len(clients)) /\ Len(clients) \in Nat
      /\ \A i \in DOMAIN conns : conns[i].client = k /\ conns[i].up => i = j
  BY <1>1, Connected, Facts DEF c, j, s
<1>3. c.wbuf \in Seq(Items) /\ c.cur # 0
  BY <1>1 DEF Client, ClientOK
<1>4. /\ h \in Items /\ Tail(c.wbuf) \in Seq(Items) /\ <<h>> \in Seq(Items)
      /\ c.wbuf = <<h>> \o Tail(c.wbuf)
  <2> DEFINE b == c.wbuf
  <2>1. b \in Seq(Items) /\ b # <<>>
    BY <1>1, <1>3
  <2> HIDE DEF b
  <2>2. /\ Head(b) \in Items /\ Tail(b) \in Seq(Items) /\ <<Head(b)>> \in Seq(Items)
        /\ b = <<Head(b)>> \o Tail(b)
    BY <2>1, HeadTail
  <2> QED  BY <2>2 DEF b, h
<1>5. /\ w \in Client(Len(conns), Len(inodes)) /\ w.wbuf = Tail(c.wbuf) /\ w.cur = c.cur
      /\ w.pos = c.pos /\ w.sock = c.sock /\ w.conn = c.conn /\ w.queue = c.queue /\ w.ticket = c.ticket
  BY <1>1, <1>4 DEF Client, w
<1>6. k \in DOMAIN cl1 /\ cl1[k] = w /\ DOMAIN cl1 = DOMAIN clients
      /\ \A f : [cl1 EXCEPT ![k] = f] = [clients EXCEPT ![k] = f]
  BY TwiceExcept DEF cl1
<1>7. Core(cl1, conns', owner, saved, inodes)
  <2>1. CASE s.up
    <3>1. Core([clients EXCEPT ![k] = [clients[k] EXCEPT !.wbuf = Tail(clients[k].wbuf)]],
               [conns EXCEPT ![clients[k].conn] =
                  [conns[clients[k].conn] EXCEPT
                     !.net = Append(conns[clients[k].conn].net, Head(clients[k].wbuf))]],
               owner, saved, inodes)
      BY <1>1, <2>1, CoreSent DEF c, s, j
    <3> QED  BY <1>1, <2>1, <3>1 DEF cl1, w, r, h, s, j, c
  <2>2. CASE ~s.up
    <3>1. ClientOK(w, inodes)
      BY <1>1, <1>3, <1>5 DEF ClientOK
    <3>2. \A i \in DOMAIN conns : conns[i].client = k => ~conns[i].up
      BY <1>2, <2>2 DEF s
    <3>3. w.conn # 0
      BY <1>2, <1>5, Facts DEF j
    <3>4. Core([clients EXCEPT ![k] = w], conns, owner, saved, inodes)
      BY <1>1, <1>5, <3>1, <3>2, <3>3, CoreOffline DEF c
    <3> QED  BY <1>1, <2>2, <3>4 DEF cl1
  <2> QED  BY <2>1, <2>2
<1>8. PICK f : clients' = [clients EXCEPT ![k] = f] /\ GoneOn(w, f)
  <2>1. w.cur # 0
    BY <1>3, <1>5
  <2>2. CASE AtEnd(w) /\ w.wbuf = <<>>
    <3>1. dir' = [dir EXCEPT ![inodes[w.cur].name] = 0]
      BY <1>1, <2>1, <2>2 DEF OnBytesWritten
    <3>2. clients' = [clients EXCEPT ![k] = SendNextFile(Closed(w), dir')]
      BY <1>1, <2>1, <2>2 DEF OnBytesWritten
    <3> QED  BY <2>2, <3>1, <3>2 DEF GoneOn
  <2>3. CASE ~(AtEnd(w) /\ w.wbuf = <<>>)
    <3>1. clients' = [clients EXCEPT ![k] = Fill(w)]
      BY <1>1, <2>1, <2>3 DEF OnBytesWritten
    <3> QED  BY <3>1 DEF GoneOn
  <2> QED  BY <2>2, <2>3
<1>9. Core([cl1 EXCEPT ![k] = f], conns', owner, saved, inodes) /\ HeldBy(f) \subseteq HeldBy(w)
  <2>1. cl1[k].sock = "connected" /\ cl1[k].cur # 0 /\ w = cl1[k]
    BY <1>1, <1>3, <1>5, <1>6
  <2> QED  BY <1>1, <1>6, <1>7, <1>8, <2>1, GoesOnWriting
<1>10. NextCore
  BY <1>1, <1>6, <1>8, <1>9 DEF NextCore
<1>11. Lined(c.wbuf) = Lined(<<h>>) \cup Lined(w.wbuf)
  BY <1>4, <1>5, LinedConcat, ZenonT(30)
<1>12. HeldBy(f) \subseteq HeldBy(c)
  <2>1. HeldBy(w) \subseteq HeldBy(c)
    <3>1. HeldBy(w) = Queued(c) \cup Lined(w.wbuf) \cup (IF c.cur = 0 THEN {} ELSE {c.ticket})
      BY <1>5, HeldByFacts DEF Queued
    <3>2. HeldBy(c) = Queued(c) \cup Lined(c.wbuf) \cup (IF c.cur = 0 THEN {} ELSE {c.ticket})
      BY HeldByFacts
    <3> QED  BY <1>11, <3>1, <3>2
  <2> QED  BY <1>9, <2>1
<1>13. Pending(clients', conns) \subseteq Pending(clients, conns)
  <2>1. HeldBy(f) \subseteq HeldBy(clients[k]) \cup {}
    BY <1>12 DEF c
  <2>2. Pending([clients EXCEPT ![k] = f], conns) \subseteq Pending(clients, conns) \cup {}
    BY <2>1, PendingClient
  <2> QED  BY <1>8, <2>2
<1>14. Pending(clients', conns') \subseteq Pending(clients, conns)
  <2>1. CASE ~s.up
    BY <1>1, <1>13, <2>1
  <2>2. CASE s.up
    <3>1. /\ s.net \in Seq(Items) /\ s.unread \in Seq(Items)
      BY <1>2, ConnTypes
    <3>2. /\ r.net = s.net \o <<h>> /\ r.net \in Seq(Items) /\ r.unread = s.unread /\ r.file = s.file
      <4>1. Append(s.net, h) \in Seq(Items) /\ Append(s.net, h) = s.net \o <<h>>
        BY <1>4, <3>1, ItemsAppend
      <4>2. r.net = Append(s.net, h) /\ r.unread = s.unread /\ r.file = s.file
        BY <1>2 DEF r, Conn
      <4> QED  BY <4>1, <4>2
    <3>3. OnTheWay(r) \subseteq OnTheWay(s) \cup Lined(<<h>>)
      <4>1. Lined(r.net) = Lined(s.net) \cup Lined(<<h>>)
        BY <1>4, <3>1, <3>2, LinedConcat
      <4>2. OnTheWay(r) = Lined(r.net) \cup Lined(s.unread) \cup (IF s.file = NoFile THEN {} ELSE {s.file.ticket})
        BY <3>1, <3>2, WayFacts
      <4>3. OnTheWay(s) = Lined(s.net) \cup Lined(s.unread) \cup (IF s.file = NoFile THEN {} ELSE {s.file.ticket})
        BY <3>1, WayFacts
      <4> QED  BY <4>1, <4>2, <4>3
    <3>4. Lined(<<h>>) \subseteq Pending(clients, conns)
      <4>1. HeldBy(c) \subseteq Pending(clients, conns)
        BY PendingParts DEF c
      <4>2. Lined(c.wbuf) \subseteq HeldBy(c)
        BY HeldByFacts
      <4> QED  BY <1>11, <4>1, <4>2
    <3>5. Pending(clients', [conns EXCEPT ![j] = r]) \subseteq Pending(clients', conns) \cup Lined(<<h>>)
      BY <1>2, <3>3, PendingConn DEF s
    <3> QED  BY <1>1, <1>13, <2>2, <3>4, <3>5
  <2> QED  BY <2>1, <2>2
<1>15. Linked
  <2>1. r.client = s.client
    BY <1>2 DEF r, Conn
  <2> QED  BY <1>1, <1>2, <2>1 DEF Linked, s
<1> QED  BY <1>1, <1>10, <1>14, <1>15, QuietFrom
\* Log files are created and written: no request and no item moves.
LEMMA StepFiles ==
  ASSUME IInv, Files(inodes'), Len(inodes') <= MaxRuns, Len(inodes) <= Len(inodes'),
         \A n \in DOMAIN inodes : /\ inodes'[n].name = inodes[n].name
                                  /\ inodes[n].size <= inodes'[n].size,
         UNCHANGED <<clients, conns, owner, saved>>
  PROVE  NextCore /\ Quiet
<1> DEFINE ino2 == inodes'
<1>1. /\ Core(clients, conns, owner, saved, inodes)
      /\ Files(ino2) /\ Len(ino2) <= MaxRuns /\ Len(inodes) <= Len(ino2)
      /\ \A n \in DOMAIN inodes : ino2[n].name = inodes[n].name /\ inodes[n].size <= ino2[n].size
  BY Facts
<1> HIDE DEF ino2
<1>2. Core(clients, conns, owner, saved, ino2)
  BY <1>1, CoreFiles
<1>3. NextCore
  BY <1>2 DEF NextCore, ino2
<1>4. Pending(clients', conns') \subseteq Pending(clients, conns) /\ Linked
  BY DEF Linked
<1> QED  BY <1>3, <1>4, QuietFrom

\* What the files are before and after a step.
Grown ==
  /\ Files(inodes') /\ Len(inodes') <= MaxRuns /\ Len(inodes) <= Len(inodes')
  /\ \A n \in DOMAIN inodes : /\ inodes'[n].name = inodes[n].name
                              /\ inodes[n].size <= inodes'[n].size

LEMMA GrownSame ==
  ASSUME IInv, inodes' = inodes
  PROVE  Grown
<1>1. Files(inodes) /\ Len(inodes) <= MaxRuns /\ Len(inodes) \in Nat
  BY Facts DEF Typed
<1>2. \A n \in DOMAIN inodes : inodes[n].size <= inodes[n].size
  <2> TAKE n \in DOMAIN inodes
  <2>1. inodes[n].size \in Nat
    BY <1>1, FileFacts DEF Files
  <2> QED  BY <2>1
<1> QED  BY <1>1, <1>2 DEF Grown

LEMMA GrownOpenLog ==
  ASSUME IInv, NEW l \in Logs, OpenLog(l)
  PROVE  Grown
<1>1. CASE dir[l] = 0
  <2> DEFINE e == [name |-> l, size |-> 0]
  <2>1. inodes' = Append(inodes, e) /\ Len(inodes) < MaxRuns
    BY <1>1 DEF OpenLog
  <2>2. inodes \in Seq([name : Logs, size : 0..Chunks]) /\ e \in [name : Logs, size : 0..Chunks]
    BY Facts, FileTransferAssumption DEF Typed, Files
  <2> HIDE DEF e
  <2>3. /\ Append(inodes, e) \in Seq([name : Logs, size : 0..Chunks])
        /\ Len(Append(inodes, e)) = Len(inodes) + 1 /\ Len(inodes) \in Nat
        /\ \A n \in 1..Len(inodes) : Append(inodes, e)[n] = inodes[n]
    BY <2>2, AppendFacts
  <2>4. \A n \in DOMAIN inodes : inodes[n].size <= inodes[n].size
    <3> TAKE n \in DOMAIN inodes
    <3>1. inodes[n].size \in Nat
      BY <2>2, FileFacts DEF Files
    <3> QED  BY <3>1
  <2>5. Len(inodes) + 1 <= MaxRuns /\ Len(inodes) <= Len(inodes) + 1 /\ DOMAIN inodes = 1..Len(inodes)
    BY <2>1, <2>2, <2>3, FileTransferAssumption
  <2> QED  BY <2>1, <2>3, <2>4, <2>5 DEF Grown, Files
<1>2. CASE dir[l] # 0
  <2>1. inodes' = inodes
    BY <1>2 DEF OpenLog
  <2> QED  BY <2>1, GrownSame
<1> QED  BY <1>1, <1>2

LEMMA GrownToLogFile ==
  ASSUME IInv, NEW l \in Logs, ToLogFile(l)
  PROVE  Grown
<1> DEFINE m == fd[l]
           e == [inodes[m] EXCEPT !.size = inodes[m].size + 1]
<1>1. inodes' = [inodes EXCEPT ![m] = e] /\ m # 0 /\ inodes[m].size < Chunks
  BY DEF ToLogFile
<1>2. /\ inodes \in Seq([name : Logs, size : 0..Chunks]) /\ m \in DOMAIN inodes
      /\ Len(inodes) <= MaxRuns /\ Len(inodes) \in Nat
  <2>1. m \in 0..Len(inodes)
    BY Facts DEF DiskType
  <2>2. inodes \in Seq([name : Logs, size : 0..Chunks]) /\ Len(inodes) <= MaxRuns
    BY Facts DEF Typed, Files
  <2> QED  BY <1>1, <2>1, <2>2
<1>3. inodes[m] \in [name : Logs, size : 0..Chunks] /\ Chunks \in Nat
  BY <1>2, SeqFacts, FileTransferAssumption
<1>4. /\ e \in [name : Logs, size : 0..Chunks] /\ e.name = inodes[m].name
      /\ inodes[m].size <= e.size
  <2>1. inodes[m].size + 1 \in 0..Chunks /\ inodes[m].size <= inodes[m].size + 1
    BY <1>1, <1>3
  <2> QED  BY <1>3, <2>1
<1> HIDE DEF m, e
<1>5. /\ inodes' \in Seq([name : Logs, size : 0..Chunks]) /\ Len(inodes') = Len(inodes)
      /\ inodes'[m] = e /\ \A n \in DOMAIN inodes : n # m => inodes'[n] = inodes[n]
  BY <1>1, <1>2, <1>4
<1>6. \A n \in DOMAIN inodes : inodes[n].size <= inodes[n].size
  <2> TAKE n \in DOMAIN inodes
  <2>1. inodes[n].size \in Nat
    BY <1>2, FileFacts DEF Files
  <2> QED  BY <2>1
<1>7. \A n \in DOMAIN inodes : /\ inodes'[n].name = inodes[n].name
                               /\ inodes[n].size <= inodes'[n].size
  BY <1>4, <1>5, <1>6
<1> QED  BY <1>2, <1>5, <1>7 DEF Grown, Files

LEMMA StepOpenLog ==
  ASSUME IInv, NEW l \in Logs, OpenLog(l)
  PROVE  NextCore /\ Quiet
<1>1. Grown
  BY GrownOpenLog
<1>2. UNCHANGED <<clients, conns, owner, saved>>
  BY DEF OpenLog
<1> QED  BY <1>1, <1>2, StepFiles DEF Grown

LEMMA StepToLogFile ==
  ASSUME IInv, NEW l \in Logs, ToLogFile(l)
  PROVE  NextCore /\ Quiet
<1>1. Grown
  BY GrownToLogFile
<1>2. UNCHANGED <<clients, conns, owner, saved>>
  BY DEF ToLogFile
<1> QED  BY <1>1, <1>2, StepFiles DEF Grown

\* A log is handed in: the request that is added is the only one.
Requested(k) ==
  /\ owner' = Append(owner, k) /\ saved' = saved /\ Linked
  /\ Open' \subseteq Open \cup {Len(owner')}

LEMMA StepOnFinished ==
  ASSUME IInv, NEW l \in Logs, OnFinished(l)
  PROVE  NextCore /\ (Quiet \/ \E k \in DOMAIN clients : Requested(k))
<1>1. CASE dir[l] = 0
  <2>1. UNCHANGED <<inodes, clients, conns, owner, saved>>
    BY <1>1 DEF OnFinished
  <2>2. Grown
    BY <2>1, GrownSame
  <2> QED  BY <2>1, <2>2, StepFiles DEF Grown
<1>2. CASE dir[l] # 0
  <2> DEFINE k == Len(clients)
             c == clients[k]
             t == Len(owner) + 1
             q == [c EXCEPT !.queue = Append(c.queue, Entry(l, t))]
             cl1 == [clients EXCEPT ![k] = q]
             ow1 == Append(owner, k)
  <2>1. /\ Core(clients, conns, owner, saved, inodes) /\ DirOK(dir) /\ k \in DOMAIN clients
        /\ Len(owner) < MaxRuns /\ clients # <<>>
        /\ owner' = ow1 /\ UNCHANGED <<inodes, conns, saved>>
        /\ owner \in Seq(1..MaxClients) /\ k \in 1..MaxClients
    <3>1. fd[l] # 0 /\ Len(owner) < MaxRuns /\ owner' = ow1 /\ UNCHANGED <<inodes, conns, saved>>
      BY <1>2 DEF OnFinished
    <3>2. clients # <<>>
      BY <3>1, Facts DEF DiskInv
    <3>3. clients \in Seq(Client(Len(conns), Len(inodes))) /\ Len(clients) <= MaxClients
          /\ owner \in Seq(1..MaxClients) /\ MaxClients \in Nat
      BY Facts, FileTransferAssumption DEF Typed
    <3>4. k # 0 /\ k \in Nat /\ DOMAIN clients = 1..k
      BY <3>2, <3>3
    <3> QED  BY <3>1, <3>2, <3>3, <3>4, Facts
  <2>2. Len(owner') = t /\ clients' = [clients EXCEPT ![k] = EnqueueFile(c, l, t)]
    <3>1. Len(ow1) = t
      BY <2>1, AppendFacts
    <3>2. clients' = [clients EXCEPT ![k] = EnqueueFile(c, l, Len(owner'))]
      BY <1>2 DEF OnFinished
    <3> QED  BY <2>1, <3>1, <3>2
  <2> HIDE DEF k, c, t, q, cl1, ow1
  <2>3. Core(cl1, conns, ow1, saved, inodes)
    BY <2>1, CoreEnqueued DEF cl1, ow1, q, t, c
  <2>4. k \in DOMAIN cl1 /\ cl1[k] = q /\ \A f : [cl1 EXCEPT ![k] = f] = [clients EXCEPT ![k] = f]
    BY <2>1, TwiceExcept DEF cl1
  <2>5. c \in Client(Len(conns), Len(inodes)) /\ ClientOK(c, inodes)
    BY <2>1, Facts DEF c, Core
  <2>6. /\ q.sock = c.sock /\ q.cur = c.cur /\ q.wbuf = c.wbuf /\ q.ticket = c.ticket
        /\ q.queue = Append(c.queue, Entry(l, t)) /\ q.conn = c.conn
    BY <2>5 DEF q, Client
  <2>7. q \in Client(Len(conns), Len(inodes)) /\ ClientOK(q, inodes)
    <3>1. Typed(cl1, conns, ow1, saved, inodes)
      BY <2>3 DEF Core
    <3> QED  BY <2>3, <2>4, <3>1, TypedFacts DEF Core
  <2>8. HeldBy(q) \subseteq HeldBy(c) \cup {t}
    <3>1. Queued(q) \subseteq Queued(c) \cup {t}
      <4>1. c.queue \in Seq(QueueEntry) /\ Entry(l, t).ticket = t
        BY <2>5 DEF Client, Entry
      <4>2. Entry(l, t) \in QueueEntry
        <5>1. c.queue \in Seq(QueueEntry) /\ q.queue \in Seq(QueueEntry)
          BY <2>5, <2>7 DEF Client
        <5>2. t \in Tickets
          BY <2>1, FileTransferAssumption DEF t, Tickets
        <5> QED  BY <5>2 DEF QueueEntry, Entry
      <4>3. /\ DOMAIN q.queue = 1..(Len(c.queue) + 1) /\ Len(c.queue) \in Nat
            /\ DOMAIN c.queue = 1..Len(c.queue)
            /\ \A i \in 1..Len(c.queue) : q.queue[i] = c.queue[i]
            /\ q.queue[Len(c.queue) + 1] = Entry(l, t)
        BY <2>6, <4>1, <4>2, AppendFacts
      <4>4. \A i \in DOMAIN q.queue : i = Len(c.queue) + 1 \/ i \in DOMAIN c.queue
        BY <4>3
      <4> QED  BY <4>1, <4>3, <4>4 DEF Queued
    <3>2. HeldBy(q) = Queued(q) \cup Lined(c.wbuf) \cup (IF c.cur = 0 THEN {} ELSE {c.ticket})
      BY <2>6, HeldByFacts
    <3>3. HeldBy(c) = Queued(c) \cup Lined(c.wbuf) \cup (IF c.cur = 0 THEN {} ELSE {c.ticket})
      BY HeldByFacts
    <3> QED  BY <3>1, <3>2, <3>3
  <2>9. \E f : /\ clients' = [clients EXCEPT ![k] = f] /\ HeldBy(f) \subseteq HeldBy(q)
               /\ Core([cl1 EXCEPT ![k] = f], conns, ow1, saved, inodes)
    <3>1. CASE c.sock = "unconnected"
      <4> DEFINE f == [q EXCEPT !.sock = "connecting"]
      <4> HIDE DEF f
      <4>1. EnqueueFile(c, l, t) = f
        BY <3>1 DEF EnqueueFile, Entry, q, f
      <4>2. /\ f \in Client(Len(conns), Len(inodes)) /\ f.sock = "connecting" /\ f.conn = q.conn
            /\ f.queue = q.queue /\ f.cur = q.cur /\ f.wbuf = q.wbuf /\ f.ticket = q.ticket
        BY <2>7 DEF f, Client
      <4>3. ClientOK(f, inodes) /\ HeldBy(f) = HeldBy(q)
        BY <2>6, <2>7, <3>1, <4>2 DEF ClientOK, HeldBy
      <4>4. \A j \in DOMAIN conns : conns[j].client = k => ~conns[j].up
        BY <2>1, <3>1 DEF Core, LinkInv, c
      <4>5. Core([cl1 EXCEPT ![k] = f], conns, ow1, saved, inodes)
        BY <2>3, <2>4, <4>2, <4>3, <4>4, CoreOffline
      <4> QED  BY <2>2, <4>1, <4>3, <4>5
    <3>2. CASE c.sock = "connected" /\ c.cur = 0
      <4> DEFINE f == SendNextFile(q, dir)
      <4> HIDE DEF f
      <4>1. EnqueueFile(c, l, t) = f
        BY <3>2 DEF EnqueueFile, Entry, q, f
      <4>2. Serves(q, f, dir) /\ q.sock = "connected"
        BY <2>6, <3>2 DEF Serves, f
      <4>3. Core([cl1 EXCEPT ![k] = f], conns, ow1, saved, inodes) /\ HeldBy(f) \subseteq HeldBy(q)
        BY <2>1, <2>3, <2>4, <4>2, GoesOn
      <4> QED  BY <2>2, <4>1, <4>3
    <3>3. CASE c.sock # "unconnected" /\ ~(c.sock = "connected" /\ c.cur = 0)
      <4>1. EnqueueFile(c, l, t) = q
        BY <3>3 DEF EnqueueFile, Entry, q
      <4>2. [cl1 EXCEPT ![k] = q] = cl1
        BY <2>4 DEF cl1
      <4> QED  BY <2>2, <2>3, <4>1, <4>2
    <3> QED  BY <3>1, <3>2, <3>3
  <2>10. PICK f : /\ clients' = [clients EXCEPT ![k] = f] /\ HeldBy(f) \subseteq HeldBy(q)
                  /\ Core([cl1 EXCEPT ![k] = f], conns, ow1, saved, inodes)
    BY <2>9
  <2>11. NextCore
    BY <2>1, <2>4, <2>10 DEF NextCore
  <2>12. Pending(clients', conns') \subseteq Pending(clients, conns) \cup {t}
    <3>1. HeldBy(f) \subseteq HeldBy(clients[k]) \cup {t}
      BY <2>8, <2>10 DEF c
    <3>2. Pending([clients EXCEPT ![k] = f], conns) \subseteq Pending(clients, conns) \cup {t}
      BY <2>1, <3>1, PendingClient
    <3> QED  BY <2>1, <2>10, <3>2
  <2>13. Open' \subseteq Open \cup {t}
    <3>1. Open' = Pending(clients', conns') \ {s.ticket : s \in Range(saved')}
      BY DEF Open, Pending, AllHeld, AllOnTheWay
    <3> QED  BY <2>1, <2>12, <3>1, PendingOpen
  <2>14. Linked
    BY <2>1 DEF Linked
  <2>15. Requested(k)
    BY <2>1, <2>2, <2>13, <2>14 DEF Requested, ow1
  <2> QED  BY <2>1, <2>11, <2>15
<1> QED  BY <1>1, <1>2
LEMMA StepBreak ==
  ASSUME IInv, NEW j \in DOMAIN conns, Break(j)
  PROVE  NextCore /\ Quiet
<1> DEFINE s == conns[j]
<1>1. PICK n \in 0..Len(s.net) :
        conns' = [conns EXCEPT ![j].up = FALSE, ![j].net = SubSeq(@, 1, n)]
  BY DEF Break
<1> DEFINE r == [s EXCEPT !.up = FALSE, !.net = SubSeq(s.net, 1, n)]
<1>2. conns' = [conns EXCEPT ![j] = r] /\ UNCHANGED <<inodes, clients, owner, saved>>
  BY <1>1 DEF Break, disk
<1>3. Core(clients, conns, owner, saved, inodes) /\ s \in Conn(Len(clients)) /\ Len(clients) \in Nat
  BY Facts
<1>4. Core(clients, [conns EXCEPT ![j] = r], owner, saved, inodes)
  BY <1>1, <1>3, CoreBreaks
<1>5. s.net \in Seq(Items) /\ s.unread \in Seq(Items)
  BY <1>3, ConnTypes
<1>6. SubSeq(s.net, 1, n) \in Seq(Items) /\ Lined(SubSeq(s.net, 1, n)) \subseteq Lined(s.net)
  <2> DEFINE N == s.net
             a == SubSeq(N, 1, n)
  <2>1. N \in Seq(Items) /\ n \in 0..Len(N)
    BY <1>1, <1>5
  <2> HIDE DEF N
  <2>2. Len(N) \in Nat /\ n \in Nat /\ n <= Len(N)
    BY <2>1
  <2>3. a \in Seq(Items) /\ Len(a) = n /\ \A i \in 1..Len(a) : a[i] = N[i]
    BY <2>1, <2>2, SubSeqFacts
  <2> HIDE DEF a
  <2>4. 0 + Len(a) <= Len(N) /\ \A i \in 1..Len(a) : a[i] = N[0 + i]
    BY <2>2, <2>3
  <2>5. Lined(a) \subseteq Lined(N)
    BY <2>1, <2>3, <2>4, LinePart
  <2> QED  BY <2>3, <2>5 DEF a, N
<1>7. /\ r.net = SubSeq(s.net, 1, n) /\ r.unread = s.unread /\ r.file = s.file /\ r.client = s.client
  BY <1>3 DEF Conn
<1> HIDE DEF r, s
<1>8. OnTheWay(r) \subseteq OnTheWay(s)
  <2>1. OnTheWay(r) = Lined(r.net) \cup Lined(r.unread) \cup (IF r.file = NoFile THEN {} ELSE {r.file.ticket})
    BY <1>5, <1>6, <1>7, WayFacts
  <2>2. OnTheWay(s) = Lined(s.net) \cup Lined(s.unread) \cup (IF s.file = NoFile THEN {} ELSE {s.file.ticket})
    BY <1>5, WayFacts
  <2> QED  BY <1>6, <1>7, <2>1, <2>2
<1>9. Pending(clients', conns') \subseteq Pending(clients, conns)
  <2>1. OnTheWay(r) \subseteq OnTheWay(conns[j]) \cup {}
    BY <1>8 DEF s
  <2>2. Pending(clients, [conns EXCEPT ![j] = r]) \subseteq Pending(clients, conns) \cup {}
    BY <2>1, PendingConn
  <2> QED  BY <1>2, <2>2
<1>10. Linked
  BY <1>2, <1>7 DEF Linked, s
<1> QED  BY <1>2, <1>4, <1>9, <1>10, QuietFrom DEF NextCore

\* Items P are taken from the line of connection j, and nothing is stored.
LEMMA StepDrops ==
  ASSUME IInv, NEW j \in DOMAIN conns, NEW r \in Conn(Len(clients)), ReaderOK(r),
         r.client = conns[j].client, r.up = conns[j].up,
         NEW P \in Seq(Items), InFlight(conns[j]) = P \o InFlight(r),
         OnTheWay(r) \subseteq OnTheWay(conns[j]),
         conns' = [conns EXCEPT ![j] = r], UNCHANGED <<inodes, clients, owner, saved>>
  PROVE  NextCore /\ Quiet
<1> DEFINE co2 == [conns EXCEPT ![j] = r]
<1> HIDE DEF co2
<1>1. Core(clients, conns, owner, saved, inodes) /\ co2 = [conns EXCEPT ![j] = r]
  BY Facts DEF co2
<1>2. Core(clients, co2, owner, saved, inodes)
  BY <1>1, CoreDrops
<1>3. Pending(clients', conns') \subseteq Pending(clients, conns)
  <2>1. OnTheWay(r) \subseteq OnTheWay(conns[j]) \cup {}
    OBVIOUS
  <2>2. Pending(clients, [conns EXCEPT ![j] = r]) \subseteq Pending(clients, conns) \cup {}
    BY <2>1, PendingConn
  <2> QED  BY <2>2
<1>4. Linked
  BY DEF Linked
<1> QED  BY <1>2, <1>3, <1>4, QuietFrom DEF NextCore, co2

LEMMA StepOnReadyRead ==
  ASSUME IInv, NEW j \in DOMAIN conns, OnReadyRead(j)
  PROVE  NextCore /\ Quiet
<1> DEFINE s == conns[j]
<1>1. PICK n \in 1..Len(s.net) :
        conns' = [conns EXCEPT
          ![j] = [s EXCEPT !.net = SubSeq(s.net, n + 1, Len(s.net)),
                           !.unread = s.unread \o SubSeq(s.net, 1, n), !.reading = TRUE]]
  BY DEF OnReadyRead
<1> DEFINE a == SubSeq(s.net, 1, n)
           b == SubSeq(s.net, n + 1, Len(s.net))
           r == [s EXCEPT !.net = b, !.unread = s.unread \o a, !.reading = TRUE]
<1>2. conns' = [conns EXCEPT ![j] = r] /\ UNCHANGED <<inodes, clients, owner, saved>>
  BY <1>1 DEF OnReadyRead, disk
<1>3. s \in Conn(Len(clients)) /\ Len(clients) \in Nat /\ ReaderOK(s)
  BY Facts DEF Core
<1>4. s.net \in Seq(Items) /\ s.unread \in Seq(Items) /\ Begun(s) \in Seq(Items)
  BY <1>3, ConnTypes, BegunType
<1>5. a \in Seq(Items) /\ b \in Seq(Items) /\ s.net = a \o b /\ Len(a) = n /\ n \in Nat /\ n # 0
  <2> DEFINE N == s.net
  <2>1. N \in Seq(Items) /\ n \in 1..Len(N)
    BY <1>1, <1>4
  <2> HIDE DEF N
  <2>2. Len(N) \in Nat /\ n \in Nat /\ n <= Len(N) /\ n + 1 \in Nat /\ n # 0 /\ n \in 0..Len(N) /\ 1 <= n
    BY <2>1
  <2>3. SubSeq(N, 1, n) \in Seq(Items) /\ Len(SubSeq(N, 1, n)) = n
    BY <2>1, <2>2, SubSeqFacts
  <2>4. SubSeq(N, n + 1, Len(N)) \in Seq(Items)
    BY <2>1, <2>2, SubSeqFacts
  <2>5. SubSeq(N, 1, n) \o SubSeq(N, n + 1, Len(N)) = N
    BY <2>1, <2>2, Splits
  <2> QED  BY <2>2, <2>3, <2>4, <2>5 DEF N
<1> HIDE DEF a, b
<1>6. s.unread \o a \in Seq(Items) /\ s.unread \o a # <<>>
  <2> DEFINE u == s.unread
  <2>1. u \in Seq(Items)
    BY <1>4
  <2> HIDE DEF u
  <2>2. u \o a \in Seq(Items) /\ Len(u \o a) = Len(u) + Len(a) /\ Len(u) \in Nat
    BY <1>5, <2>1, ConcatFacts
  <2>3. Len(u \o a) # 0
    BY <1>5, <2>2
  <2>4. u \o a # <<>>
    BY <2>3
  <2> QED  BY <2>2, <2>4 DEF u
<1>7. /\ r \in Conn(Len(clients)) /\ r.net = b /\ r.unread = s.unread \o a /\ r.file = s.file
      /\ r.got = s.got /\ r.client = s.client /\ r.up = s.up
  BY <1>3, <1>5, <1>6 DEF Conn
<1> HIDE DEF r, s
<1>8. ReaderOK(r)
  BY <1>3, <1>6, <1>7 DEF ReaderOK
<1>9. InFlight(s) = <<>> \o InFlight(r) /\ <<>> \in Seq(Items)
  <2>1. Begun(r) = Begun(s)
    BY <1>7 DEF Begun
  <2>2. s.unread \o (a \o b) = (s.unread \o a) \o b
    BY <1>4, <1>5, ItemsAssoc
  <2>3. InFlight(s) = InFlight(r)
    BY <1>5, <1>7, <2>1, <2>2 DEF InFlight
  <2>4. InFlight(r) \in Seq(Items)
    BY <1>3, <1>7, BegunType
  <2> QED  BY <2>3, <2>4, SeqFacts
<1>10. OnTheWay(r) \subseteq OnTheWay(s)
  <2>1. OnTheWay(r) = Lined(r.net) \cup Lined(r.unread) \cup (IF r.file = NoFile THEN {} ELSE {r.file.ticket})
    BY <1>5, <1>6, <1>7, WayFacts
  <2>2. OnTheWay(s) = Lined(s.net) \cup Lined(s.unread) \cup (IF s.file = NoFile THEN {} ELSE {s.file.ticket})
    BY <1>4, WayFacts
  <2>3. Lined(s.net) = Lined(a) \cup Lined(b)
    BY <1>5, LinedConcat
  <2>4. Lined(r.unread) = Lined(s.unread) \cup Lined(a)
    BY <1>4, <1>5, <1>7, LinedConcat
  <2> QED  BY <1>7, <2>1, <2>2, <2>3, <2>4
<1> QED  BY <1>2, <1>7, <1>8, <1>9, <1>10, StepDrops DEF s
\* What ends when a file is stored: request t, of connection j.
Delivered(j, t) ==
  /\ owner' = owner /\ Linked /\ t \in Open /\ Open' \subseteq Open \ {t}
  /\ owner[t] = conns[j].client
  /\ \E e \in SavedFile(Len(conns)) : saved' = Append(saved, e) /\ e.conn = j /\ e.ticket = t

\* What stands on the line is not stored yet.
LEMMA NotStored ==
  ASSUME IInv, NEW j \in DOMAIN conns, NEW t \in Lined(Line(clients, conns, j))
  PROVE  t \in Nat /\ t \notin {s.ticket : s \in Range(saved)} /\ owner[t] = conns[j].client
<1>1. /\ Core(clients, conns, owner, saved, inodes) /\ Typed(clients, conns, owner, saved, inodes)
      /\ OrderInv(clients, conns, owner, saved) /\ ConnOrderInv(clients, conns, saved)
      /\ DOMAIN conns = 1..Len(conns) /\ Len(conns) \in Nat
  BY Facts DEF Core
<1>2. t \in Took(clients, conns, saved, j)
  BY DEF Took
<1>3. t \in DOMAIN owner /\ owner[t] = conns[j].client
  BY <1>1, <1>2 DEF OrderInv, OwnedBy
<1>4. t \in Nat
  BY <1>1, <1>3, TypedFacts
<1>5. ASSUME NEW i \in DOMAIN saved, saved[i].ticket = t
      PROVE  FALSE
  <2> DEFINE m == saved[i].conn
  <2> HIDE DEF m
  <2>1. m \in DOMAIN conns
    BY <1>1, TypedFacts DEF m
  <2>2. t \in Stored(saved, m)
    BY <1>5 DEF Stored, m
  <2>3. t \in Took(clients, conns, saved, m)
    BY <2>2 DEF Took
  <2>4. owner[t] = conns[m].client
    BY <1>1, <2>1, <2>3 DEF OrderInv, OwnedBy
  <2>5. CASE m = j
    <3>1. Below(Stored(saved, j), Lined(Line(clients, conns, j)))
      BY <1>1 DEF OrderInv
    <3>2. t < t
      BY <2>2, <2>5, <3>1 DEF Below
    <3> QED  BY <1>4, <3>2
  <2>6. CASE m # j
    <3>1. m < j \/ j < m
      BY <1>1, <2>1, <2>6
    <3>2. t < t
      BY <1>1, <1>2, <1>3, <2>1, <2>3, <2>4, <3>1 DEF ConnOrderInv, Below
    <3> QED  BY <1>4, <3>2
  <2> QED  BY <2>5, <2>6
<1> QED  BY <1>3, <1>4, <1>5 DEF Range

\* The file f is complete, and stored.
LEMMA StepStores ==
  ASSUME IInv, NEW j \in DOMAIN conns, NEW r \in Conn(Len(clients)), ReaderOK(r),
         r.client = conns[j].client, r.up = conns[j].up,
         NEW l \in Logs, NEW n \in 0..Chunks, NEW t \in Tickets, NEW got \in Seq(Items),
         Len(got) = n, NEW P, P = <<Header(l, n, t)>> \o got,
         InFlight(conns[j]) = P \o InFlight(r),
         OnTheWay(r) \subseteq OnTheWay(conns[j]), t \in OnTheWay(conns[j]),
         conns' = [conns EXCEPT ![j] = r], UNCHANGED <<inodes, clients, owner>>,
         saved' = Append(saved, [conn |-> j, ticket |-> t, log |-> l, got |-> got])
  PROVE  NextCore /\ Delivered(j, t) /\ FinishedIsWhole' /\ InRequestOrder'
<1> DEFINE co2 == [conns EXCEPT ![j] = r]
           e == [conn |-> j, ticket |-> t, log |-> l, got |-> got]
           h == Header(l, n, t)
           I == InFlight(r)
           L == Line(clients, conns, j)
           w == IF conns[j].up THEN clients[conns[j].client].wbuf ELSE <<>>
<1> HIDE DEF co2, e, h, I, L, w
<1>1. /\ Core(clients, conns, owner, saved, inodes) /\ co2 = [conns EXCEPT ![j] = r]
      /\ Typed(clients, conns, owner, saved, inodes) /\ Len(conns) \in Nat /\ Len(clients) \in Nat
      /\ DOMAIN conns = 1..Len(conns) /\ saved \in Seq(SavedFile(Len(conns)))
      /\ conns[j] \in Conn(Len(clients)) /\ clients[conns[j].client].wbuf \in Seq(Items)
  BY Facts, TypedFacts DEF co2, Typed
<1>2. e \in SavedFile(Len(conns)) /\ e.conn = j /\ e.ticket = t /\ e.log = l /\ e.got = got
  BY <1>1 DEF e, SavedFile
<1>3. h \in Items /\ h.kind = "header" /\ h.log = l /\ h.size = n /\ h.ticket = t
  BY HeaderIsItem DEF h
<1>4. /\ P \in Seq(Items) /\ P # <<>> /\ P[1] = h /\ Len(P) = 1 + n /\ n \in Nat
      /\ \A i \in 1..n : P[1 + i] = got[i]
  <2>1. <<h>> \in Seq(Items) /\ Len(<<h>>) = 1 /\ <<h>>[1] = h /\ n \in Nat
    BY <1>3, FileTransferAssumption
  <2>2. PICK g \in Seq(Items) : g = <<h>>
    BY <2>1
  <2>3. /\ g \o got \in Seq(Items) /\ Len(g \o got) = Len(g) + Len(got)
        /\ \A i \in 1..Len(g) : (g \o got)[i] = g[i]
        /\ \A i \in 1..Len(got) : (g \o got)[Len(g) + i] = got[i]
    BY <2>2, ConcatFacts
  <2>4. P = g \o got /\ Len(g) = 1 /\ g[1] = h
    BY <2>1, <2>2 DEF h
  <2>5. P \in Seq(Items) /\ Len(P) = 1 + n /\ P[1] = h /\ \A i \in 1..n : P[1 + i] = got[i]
    BY <2>3, <2>4, SMTT(30)
  <2>6. Len(P) # 0
    BY <2>1, <2>5
  <2> QED  BY <2>1, <2>5, <2>6
<1>5. NextCore
  <2> DEFINE sa2 == Append(saved, e)
  <2>1. Stores(P, j, saved, sa2, Len(conns))
    BY <1>2, <1>3, <1>4 DEF Stores
  <2> HIDE DEF sa2
  <2>2. Core(clients, co2, owner, sa2, inodes)
    <3>1. /\ j \in DOMAIN conns /\ r \in Conn(Len(clients)) /\ ReaderOK(r)
          /\ r.client = conns[j].client /\ r.up = conns[j].up
          /\ InFlight(conns[j]) = P \o InFlight(r) /\ P \in Seq(Items)
          /\ Core(clients, conns, owner, saved, inodes) /\ co2 = [conns EXCEPT ![j] = r]
      BY <1>1, <1>4
    <3> QED  BY ONLY <2>1, <3>1, CoreDrops
  <2> QED  BY <2>2 DEF NextCore, sa2, co2, e
<1>6. w \in Seq(Items) /\ I \in Seq(Items) /\ L \in Seq(Items) /\ L = P \o (I \o w)
  <2>1. w \in Seq(Items) /\ I \in Seq(Items)
    <3>1. <<>> \in Seq(Items)
      OBVIOUS
    <3> QED  BY <1>1, <3>1, BegunType DEF w, I
  <2>2. L = (P \o I) \o w
    BY DEF L, Line, w, I
  <2>3. (P \o I) \o w = P \o (I \o w)
    BY <1>4, <2>1, ItemsAssoc, SMTT(30)
  <2>4. L \in Seq(Items)
    BY <1>1, LineType DEF L
  <2> QED  BY <2>1, <2>2, <2>3, <2>4
<1>7. Len(L) \in Nat /\ 1 + n <= Len(L) /\ DOMAIN L = 1..Len(L) /\ \A i \in 1..(1 + n) : L[i] = P[i]
  <2>1. PICK v \in Seq(Items) : v = I \o w
    BY <1>6, ConcatFacts
  <2>2. /\ Len(P \o v) = Len(P) + Len(v) /\ Len(v) \in Nat
        /\ \A i \in 1..Len(P) : (P \o v)[i] = P[i]
    BY <1>4, <2>1, ConcatFacts
  <2>3. L = P \o v /\ Len(P) = 1 + n /\ n \in Nat
    BY <1>4, <1>6, <2>1
  <2>4. Len(L) = 1 + n + Len(v) /\ \A i \in 1..(1 + n) : L[i] = P[i]
    BY <2>2, <2>3
  <2>5. Len(L) \in Nat /\ 1 + n <= Len(L)
    BY <2>2, <2>3, <2>4
  <2> QED  BY <1>6, <2>4, <2>5
<1>8. 1 \in DOMAIN L /\ L[1] = h
  <2>1. 1 \in 1..(1 + n) /\ 1 \in 1..Len(L)
    BY <1>4, <1>7
  <2> QED  BY <1>4, <1>7, <2>1
<1>9. t \in Lined(L)
  BY <1>3, <1>8 DEF Lined
<1>10. t \notin {s.ticket : s \in Range(saved)} /\ owner[t] = conns[j].client
  BY <1>9, NotStored DEF L
<1>11. Pending(clients', conns') \subseteq Pending(clients, conns)
  <2>1. OnTheWay(r) \subseteq OnTheWay(conns[j]) \cup {}
    OBVIOUS
  <2>2. Pending(clients, [conns EXCEPT ![j] = r]) \subseteq Pending(clients, conns) \cup {}
    BY <2>1, PendingConn
  <2> QED  BY <2>2
<1>12. t \in Open
  <2>1. OnTheWay(conns[j]) \subseteq Pending(clients, conns)
    BY PendingParts
  <2> QED  BY <1>10, <2>1, PendingOpen
<1>13. /\ DOMAIN saved' = DOMAIN saved \cup {Len(saved) + 1} /\ saved'[Len(saved) + 1] = e
       /\ \A i \in DOMAIN saved : saved'[i] = saved[i] /\ i < Len(saved) + 1
       /\ Len(saved) \in Nat /\ DOMAIN saved = 1..Len(saved)
  <2>1. saved' = Append(saved, e)
    BY DEF e
  <2>2. /\ DOMAIN saved' = 1..(Len(saved) + 1) /\ Len(saved) \in Nat
        /\ \A i \in 1..Len(saved) : saved'[i] = saved[i]
        /\ saved'[Len(saved) + 1] = e
    BY <1>1, <1>2, <2>1, AppendFacts
  <2>3. DOMAIN saved = 1..Len(saved)
    BY <1>1
  <2> QED  BY <2>2, <2>3
<1>14. Open' \subseteq Open \ {t}
  <2>1. Open' = Pending(clients', conns') \ {s.ticket : s \in Range(saved')}
    BY DEF Open, Pending, AllHeld, AllOnTheWay
  <2>2. {s.ticket : s \in Range(saved)} \cup {t} \subseteq {s.ticket : s \in Range(saved')}
    BY <1>2, <1>13 DEF Range
  <2> QED  BY <1>11, <2>1, <2>2, PendingOpen
<1>15. Linked
  <2>1. \A i \in DOMAIN conns : i \in DOMAIN conns' /\ conns'[i].client = conns[i].client
    OBVIOUS
  <2> QED  BY <2>1 DEF Linked
<1>16. Delivered(j, t)
  BY <1>2, <1>10, <1>12, <1>14, <1>15 DEF Delivered, e
<1>17. FinishedIsWhole'
  <2>1. Wired(L, conns[j].up, clients[conns[j].client].cur, clients[conns[j].client].pos, inodes)
    BY <1>1 DEF Core, WireInv, L
  <2>2. PICK m \in DOMAIN inodes :
          Heads(L, 1, m, conns[j].up, clients[conns[j].client].cur, clients[conns[j].client].pos, inodes)
    BY <1>3, <1>8, <2>1 DEF Wired
  <2>3. inodes[m].name = l /\ Follows(L, 1, m)
    BY <1>3, <1>8, <2>2 DEF Heads
  <2>4. \A i \in DOMAIN got : got[i].kind = "body" /\ got[i].ino = m /\ got[i].i = i
    <3> SUFFICES ASSUME NEW i \in DOMAIN got
                 PROVE  got[i].kind = "body" /\ got[i].ino = m /\ got[i].i = i
      OBVIOUS
    <3>1. i \in 1..n
      OBVIOUS
    <3>2. 1 + i \in DOMAIN L /\ 1 < 1 + i /\ 1 + i <= 1 + n /\ (1 + i) - 1 = i /\ 1 + i \in 1..(1 + n)
      BY <1>4, <1>7, <3>1
    <3>3. L[1 + i] = got[i]
      BY <1>4, <1>7, <3>1, <3>2
    <3>4. 1 + i <= 1 + L[1].size
      BY <1>3, <1>8, <3>2
    <3> QED  BY <2>3, <3>2, <3>3, <3>4 DEF Follows
  <2>5. FinishedIsWhole /\ inodes' = inodes
    BY DEF IInv
  <2> SUFFICES ASSUME NEW s \in Range(saved')
               PROVE  \E k \in DOMAIN inodes' :
                        /\ inodes'[k].name = s.log
                        /\ \A i \in DOMAIN s.got :
                             s.got[i].kind = "body" /\ s.got[i].ino = k /\ s.got[i].i = i
    BY DEF FinishedIsWhole
  <2>6. PICK i \in DOMAIN saved' : s = saved'[i]
    BY DEF Range
  <2>7. CASE i = Len(saved) + 1
    <3>1. s.log = l /\ s.got = got
      BY <1>2, <1>13, <2>6, <2>7
    <3> QED  BY <2>3, <2>4, <2>5, <3>1
  <2>8. CASE i \in DOMAIN saved
    <3>1. s \in Range(saved)
      BY <1>13, <2>6, <2>8 DEF Range
    <3>2. PICK k \in DOMAIN inodes :
            /\ inodes[k].name = s.log
            /\ \A a \in DOMAIN s.got :
                 s.got[a].kind = "body" /\ s.got[a].ino = k /\ s.got[a].i = a
      BY <2>5, <3>1 DEF FinishedIsWhole
    <3> QED  BY <2>5, <3>2
  <2> QED  BY <1>13, <2>6, <2>7, <2>8
<1>18. InRequestOrder'
  <2> SUFFICES ASSUME NEW b \in DOMAIN saved', NEW a \in DOMAIN saved', a < b,
                      saved'[a].conn = saved'[b].conn
               PROVE  saved'[a].ticket < saved'[b].ticket
    BY DEF InRequestOrder
  <2>1. a \in DOMAIN saved
    BY <1>13
  <2>2. CASE b = Len(saved) + 1
    <3>1. saved[a].conn = j
      BY <1>2, <1>13, <2>1, <2>2
    <3>2. saved[a].ticket \in Stored(saved, j)
      BY <2>1, <3>1 DEF Stored
    <3>3. Below(Stored(saved, j), Lined(L))
      BY <1>1 DEF Core, OrderInv, L
    <3>4. saved[a].ticket < t
      BY <1>9, <3>2, <3>3 DEF Below
    <3> QED  BY <1>2, <1>13, <2>1, <2>2, <3>4
  <2>3. CASE b \in DOMAIN saved
    BY <1>13, <2>1, <2>3 DEF IInv, InRequestOrder
  <2> QED  BY <1>13, <2>2, <2>3
<1> QED  BY <1>5, <1>16, <1>17, <1>18
\* One turn of the loop, before it is told what the item x is: r is what is
\* left of s.
Turn(s, x, r) ==
  /\ x \in Items /\ r \in Conn(Len(clients)) /\ s.unread = <<x>> \o r.unread
  /\ r.client = s.client /\ r.up = s.up /\ r.net = s.net /\ r.file = s.file /\ r.got = s.got
  /\ r.reading => r.unread # <<>>

LEMMA TurnFacts ==
  ASSUME IInv, NEW j \in DOMAIN conns, conns[j].reading
  PROVE  Turn(conns[j], Head(conns[j].unread),
              [conns[j] EXCEPT !.unread = Tail(conns[j].unread),
                               !.reading = Len(conns[j].unread) > 1])
<1> DEFINE s == conns[j]
           q == s.unread
           r == [s EXCEPT !.unread = Tail(q), !.reading = Len(q) > 1]
<1>1. s \in Conn(Len(clients)) /\ Len(clients) \in Nat /\ ReaderOK(s) /\ s.reading
  BY Facts DEF Core
<1>2. q \in Seq(Items) /\ q # <<>>
  BY <1>1, ConnTypes DEF ReaderOK
<1> HIDE DEF q
<1>3. /\ Head(q) \in Items /\ Tail(q) \in Seq(Items) /\ q = <<Head(q)>> \o Tail(q)
      /\ Len(Tail(q)) = Len(q) - 1 /\ Len(q) \in Nat
  BY <1>2, HeadTail
<1>4. Len(q) > 1 => Tail(q) # <<>>
  <2>1. Tail(q) = <<>> => Len(q) - 1 = 0
    BY <1>3
  <2> QED  BY <1>3, <2>1
<1>5. (Len(q) > 1) \in BOOLEAN
  OBVIOUS
<1>6. /\ r \in Conn(Len(clients)) /\ r.client = s.client /\ r.up = s.up /\ r.net = s.net
      /\ r.file = s.file /\ r.got = s.got /\ r.unread = Tail(q) /\ r.reading = (Len(q) > 1)
  BY <1>1, <1>3, <1>5 DEF Conn
<1>7. s.unread = <<Head(q)>> \o r.unread
  BY <1>3, <1>6 DEF q
<1> HIDE DEF r, s
<1>8. Turn(s, Head(q), r)
  BY <1>3, <1>4, <1>6, <1>7 DEF Turn
<1> QED  BY <1>8 DEF r, q, s

\* An item is taken from the socket, and does not begin or continue a file.
LEMMA TurnSkips ==
  ASSUME IInv, NEW j \in DOMAIN conns, conns[j].file = NoFile,
         NEW x, NEW r, Turn(conns[j], x, r)
  PROVE  /\ ReaderOK(r) /\ <<x>> \in Seq(Items)
         /\ InFlight(conns[j]) = <<x>> \o InFlight(r)
         /\ OnTheWay(r) \subseteq OnTheWay(conns[j])
         /\ Lined(<<x>>) \subseteq OnTheWay(conns[j])
<1> DEFINE s == conns[j]
<1> HIDE DEF s
<1>1. /\ s \in Conn(Len(clients)) /\ Len(clients) \in Nat /\ ReaderOK(s) /\ s.file = NoFile
      /\ Turn(s, x, r)
  BY Facts DEF Core, s
<1>2. ReaderOK(r) /\ s.got = <<>> /\ r.got = <<>> /\ r.file = NoFile
  BY <1>1 DEF ReaderOK, Turn
<1>3. /\ s.net \in Seq(Items) /\ s.unread \in Seq(Items) /\ r.unread \in Seq(Items) /\ r.net = s.net
      /\ <<x>> \in Seq(Items) /\ s.unread = <<x>> \o r.unread
  <2>1. r \in Conn(Len(clients)) /\ x \in Items
    BY <1>1 DEF Turn
  <2>2. <<x>> \in Seq(Items)
    BY <2>1
  <2> QED  BY <1>1, <2>1, <2>2, ConnTypes DEF Turn
<1>4. InFlight(s) = <<x>> \o InFlight(r)
  <2>1. Begun(s) = <<>> /\ Begun(r) = <<>>
    BY <1>1, <1>2 DEF Begun
  <2>2. r.unread \o s.net \in Seq(Items) /\ s.unread \o s.net \in Seq(Items)
    BY <1>3, ConcatFacts
  <2>3. InFlight(r) = r.unread \o s.net /\ InFlight(s) = s.unread \o s.net
    BY <1>3, <2>1, <2>2, SeqFacts DEF InFlight
  <2>4. (<<x>> \o r.unread) \o s.net = <<x>> \o (r.unread \o s.net)
    BY <1>3, ItemsAssoc
  <2> QED  BY <1>3, <2>3, <2>4
<1>5. Lined(s.unread) = Lined(<<x>>) \cup Lined(r.unread)
  BY <1>3, LinedConcat
<1>6. OnTheWay(s) = Lined(s.net) \cup Lined(s.unread) \cup (IF s.file = NoFile THEN {} ELSE {s.file.ticket})
  BY <1>3, WayFacts
<1>7. OnTheWay(r) = Lined(r.net) \cup Lined(r.unread) \cup (IF r.file = NoFile THEN {} ELSE {r.file.ticket})
  BY <1>3, WayFacts
<1>8. OnTheWay(r) \subseteq OnTheWay(s) /\ Lined(<<x>>) \subseteq OnTheWay(s)
  BY <1>1, <1>2, <1>3, <1>5, <1>6, <1>7
<1> QED  BY <1>2, <1>3, <1>4, <1>8 DEF s

\* What a turn of the loop may come to.
TurnEnds(j) ==
  NextCore /\ (Quiet \/ \E t \in Tickets : Delivered(j, t) /\ FinishedIsWhole' /\ InRequestOrder')

\* A turn with a file.
LEMMA TurnContinues ==
  ASSUME IInv, NEW j \in DOMAIN conns, conns[j].file # NoFile,
         NEW x, NEW r, Turn(conns[j], x, r), Store(j, [r EXCEPT !.got = Append(r.got, x)]),
         UNCHANGED <<inodes, clients, owner>>
  PROVE  TurnEnds(j)
<1> DEFINE s == conns[j]
           f == s.file
           h == Header(f.log, f.size, f.ticket)
           g == Append(s.got, x)
           a == [r EXCEPT !.got = Append(r.got, x)]
           b == [a EXCEPT !.file = NoFile, !.got = <<>>]
<1> HIDE DEF s, f, h, g, a, b
<1>1. /\ s \in Conn(Len(clients)) /\ Len(clients) \in Nat /\ ReaderOK(s) /\ f # NoFile
      /\ Turn(s, x, r) /\ Store(j, a)
  BY Facts DEF Core, s, f, a
<1>2. /\ r \in Conn(Len(clients)) /\ x \in Items /\ r.file = f /\ r.got = s.got /\ r.net = s.net
      /\ r.client = s.client /\ r.up = s.up /\ s.unread = <<x>> \o r.unread
      /\ r.reading => r.unread # <<>>
  BY <1>1 DEF Turn, f
<1>3. /\ s.net \in Seq(Items) /\ s.unread \in Seq(Items) /\ s.got \in Seq(Items)
      /\ r.unread \in Seq(Items) /\ <<x>> \in Seq(Items)
      /\ f.log \in Logs /\ f.size \in 0..Chunks /\ f.ticket \in Tickets
  <2>1. <<x>> \in Seq(Items)
    BY <1>2
  <2> QED  BY <1>1, <1>2, <2>1, ConnTypes DEF f
<1>4. h \in Items /\ <<h>> \in Seq(Items)
  <2>1. h \in Items
    BY <1>3, HeaderIsItem DEF h
  <2> QED  BY <2>1
<1>5. /\ g \in Seq(Items) /\ g = s.got \o <<x>> /\ Len(g) = Len(s.got) + 1 /\ Len(s.got) \in Nat
  <2> DEFINE u == s.got
  <2>1. u \in Seq(Items)
    BY <1>3
  <2> HIDE DEF u
  <2>2. Append(u, x) \in Seq(Items) /\ Append(u, x) = u \o <<x>> /\ Len(Append(u, x)) = Len(u) + 1 /\ Len(u) \in Nat
    BY <1>2, <2>1, AppendFacts
  <2> QED  BY <2>2 DEF g, u
<1>6. /\ a \in Conn(Len(clients)) /\ a.got = g /\ a.file = f /\ a.net = s.net /\ a.unread = r.unread
      /\ a.client = s.client /\ a.up = s.up /\ a.reading = r.reading
  BY <1>2, <1>5 DEF a, g, Conn
<1>7. InFlight(s) = InFlight(a) /\ InFlight(s) = (<<h>> \o g) \o (r.unread \o s.net)
  <2> DEFINE u == s.got
             v == r.unread
             w == s.net
             y == <<x>>
             z == <<h>>
             Cat(p, q) == p \o q
  <2>1. /\ u \in Seq(Items) /\ v \in Seq(Items) /\ w \in Seq(Items) /\ y \in Seq(Items)
        /\ z \in Seq(Items)
    BY <1>3, <1>4
  <2>2. \A p, q \in Seq(Items) : Cat(p, q) \in Seq(Items)
    BY ConcatFacts
  <2>3. \A p, q, o \in Seq(Items) : Cat(Cat(p, q), o) = Cat(p, Cat(q, o))
    BY ItemsAssoc
  <2>4. Begun(s) = Cat(z, u) /\ Begun(a) = Cat(z, g) /\ g = Cat(u, y) /\ s.unread = Cat(y, v)
    BY <1>1, <1>2, <1>5, <1>6 DEF Begun, f, h
  <2>5. InFlight(s) = Cat(Cat(z, u), Cat(Cat(y, v), w)) /\ InFlight(a) = Cat(Cat(z, Cat(u, y)), Cat(v, w))
    BY <1>6, <2>4 DEF InFlight
  <2> HIDE DEF u, v, w, y, z, Cat
  <2>6. Cat(Cat(y, v), w) = Cat(y, Cat(v, w))
    BY <2>1, <2>3
  <2>7. Cat(Cat(z, u), Cat(y, Cat(v, w))) = Cat(Cat(Cat(z, u), y), Cat(v, w))
    BY <2>1, <2>2, <2>3
  <2>8. Cat(Cat(z, u), y) = Cat(z, Cat(u, y))
    BY <2>1, <2>3
  <2>9. InFlight(s) = Cat(Cat(z, g), Cat(v, w)) /\ InFlight(s) = InFlight(a)
    BY <2>4, <2>5, <2>6, <2>7, <2>8
  <2> QED  BY <2>9 DEF Cat, v, w, z
<1>8. OnTheWay(s) = Lined(s.net) \cup Lined(s.unread) \cup {f.ticket}
  BY <1>1, <1>3, WayFacts DEF f
<1>9. Lined(r.unread) \subseteq Lined(s.unread)
  BY <1>2, <1>3, LinedConcat
<1>10. CASE Len(g) < f.size
  <2>1. conns' = [conns EXCEPT ![j] = a] /\ UNCHANGED saved
    BY <1>1, <1>6, <1>10 DEF Store
  <2>2. ReaderOK(a)
    BY <1>1, <1>2, <1>6, <1>10 DEF ReaderOK
  <2>3. OnTheWay(a) \subseteq OnTheWay(s)
    <3>1. OnTheWay(a) = Lined(a.net) \cup Lined(a.unread) \cup {f.ticket}
      BY <1>1, <1>3, <1>6, WayFacts
    <3> QED  BY <1>6, <1>8, <1>9, <3>1
  <2>4. InFlight(s) = <<>> \o InFlight(a) /\ <<>> \in Seq(Items)
    <3>1. InFlight(a) \in Seq(Items)
      BY <1>1, <1>6, BegunType
    <3> QED  BY <1>7, <3>1, SeqFacts
  <2> QED  BY <1>6, <2>1, <2>2, <2>3, <2>4, StepDrops DEF TurnEnds, s
<1>11. CASE ~(Len(g) < f.size)
  <2>1. Len(g) = f.size
    <3>1. Len(s.got) < f.size
      BY <1>1 DEF ReaderOK, f
    <3>2. f.size \in Nat
      BY <1>3, FileTransferAssumption
    <3> QED  BY <1>5, <1>11, <3>1, <3>2
  <2>2. /\ b \in Conn(Len(clients)) /\ b.file = NoFile /\ b.got = <<>> /\ b.net = s.net
        /\ b.unread = r.unread /\ b.client = s.client /\ b.up = s.up /\ b.reading = r.reading
    <3>1. <<>> \in Seq(Items)
      OBVIOUS
    <3> QED  BY <1>6, <3>1 DEF b, Conn
  <2>3. ReaderOK(b)
    BY <1>2, <2>2 DEF ReaderOK
  <2>4. InFlight(s) = (<<h>> \o g) \o InFlight(b)
    <3>1. Begun(b) = <<>>
      BY <2>2 DEF Begun
    <3>2. r.unread \o s.net \in Seq(Items)
      BY <1>3, ConcatFacts
    <3>3. InFlight(b) = r.unread \o s.net
      BY <2>2, <3>1, <3>2, SeqFacts DEF InFlight
    <3> QED  BY <1>7, <3>3
  <2>5. OnTheWay(b) \subseteq OnTheWay(s) /\ f.ticket \in OnTheWay(s)
    <3>1. OnTheWay(b) = Lined(b.net) \cup Lined(b.unread)
      BY <1>3, <2>2, WayFacts
    <3> QED  BY <1>8, <1>9, <2>2, <3>1
  <2>6. /\ conns' = [conns EXCEPT ![j] = b]
        /\ saved' = Append(saved, [conn |-> j, ticket |-> f.ticket, log |-> f.log, got |-> g])
    BY <1>1, <1>6, <1>11 DEF Store, b
  <2>7. NextCore /\ Delivered(j, f.ticket) /\ FinishedIsWhole' /\ InRequestOrder'
    <3> DEFINE P == <<h>> \o g
               l == f.log
               n == f.size
               t == f.ticket
    <3>1. /\ l \in Logs /\ n \in 0..Chunks /\ t \in Tickets /\ Len(g) = n /\ P = <<Header(l, n, t)>> \o g
          /\ InFlight(conns[j]) = P \o InFlight(b) /\ OnTheWay(b) \subseteq OnTheWay(conns[j])
          /\ t \in OnTheWay(conns[j]) /\ b.client = conns[j].client /\ b.up = conns[j].up
          /\ saved' = Append(saved, [conn |-> j, ticket |-> t, log |-> l, got |-> g])
      BY <1>3, <2>1, <2>2, <2>4, <2>5, <2>6 DEF h, s
    <3> HIDE DEF P, l, n, t
    <3>2. NextCore /\ Delivered(j, t) /\ FinishedIsWhole' /\ InRequestOrder'
      <4>1. /\ IInv /\ j \in DOMAIN conns /\ b \in Conn(Len(clients)) /\ ReaderOK(b)
            /\ g \in Seq(Items) /\ conns' = [conns EXCEPT ![j] = b]
            /\ UNCHANGED <<inodes, clients, owner>>
        BY <1>5, <2>2, <2>3, <2>6
      <4> QED  BY ONLY <3>1, <4>1, StepStores
    <3> QED  BY <3>2 DEF t
  <2> QED  BY <1>3, <2>7 DEF TurnEnds
<1> QED  BY <1>10, <1>11
\* A turn that reads a header.
LEMMA TurnOpens ==
  ASSUME IInv, NEW j \in DOMAIN conns, conns[j].file = NoFile,
         NEW x, NEW r, Turn(conns[j], x, r), x.kind = "header", ReadHeader(j, r, x),
         UNCHANGED <<inodes, clients, owner>>
  PROVE  TurnEnds(j)
<1> DEFINE s == conns[j]
           o == Opened(x)
           a == [r EXCEPT !.file = o]
<1> HIDE DEF s, o, a
<1>1. /\ s \in Conn(Len(clients)) /\ Len(clients) \in Nat /\ ReaderOK(s) /\ s.file = NoFile
      /\ Turn(s, x, r)
  BY Facts DEF Core, s
<1>2. /\ r \in Conn(Len(clients)) /\ x \in Items /\ r.file = NoFile /\ r.got = s.got /\ r.net = s.net
      /\ r.client = s.client /\ r.up = s.up /\ s.got = <<>>
      /\ r.reading => r.unread # <<>>
  BY <1>1 DEF Turn, ReaderOK
<1>3. /\ ReaderOK(r) /\ <<x>> \in Seq(Items) /\ InFlight(s) = <<x>> \o InFlight(r)
      /\ OnTheWay(r) \subseteq OnTheWay(s) /\ Lined(<<x>>) \subseteq OnTheWay(s)
  BY TurnSkips DEF s
<1>4. /\ x.log \in Logs /\ x.size \in 0..Chunks /\ x.ticket \in Tickets
      /\ x = Header(x.log, x.size, x.ticket) /\ x.size \in Nat
  BY <1>2, ItemFacts, FileTransferAssumption
<1>5. /\ o.log = x.log /\ o.size = x.size /\ o.ticket = x.ticket /\ o # NoFile
      /\ o \in [log : Logs, size : 0..Chunks, ticket : Tickets]
  <2>1. o.log = x.log /\ o.size = x.size /\ o.ticket = x.ticket
    BY DEF o, Opened
  <2>2. o.ticket # 0
    BY <1>4, <2>1 DEF Tickets
  <2>3. NoFile.ticket = 0
    BY DEF NoFile
  <2>4. o \in [log : Logs, size : 0..Chunks, ticket : Tickets]
    BY <1>4 DEF o, Opened
  <2> QED  BY <2>1, <2>2, <2>3, <2>4
<1>6. x.ticket \in Lined(<<x>>) /\ Lined(<<x>>) \subseteq OnTheWay(s)
  BY <1>3 DEF Lined
<1>7. /\ a \in Conn(Len(clients)) /\ a.got = <<>> /\ a.file = o /\ a.net = r.net
      /\ a.unread = r.unread /\ a.client = s.client /\ a.up = s.up /\ a.reading = r.reading
  BY <1>2, <1>5 DEF a, Conn
<1>8. r.net \in Seq(Items) /\ r.unread \in Seq(Items) /\ r.unread \o r.net \in Seq(Items)
  BY <1>1, <1>2, ConnTypes, ConcatFacts
<1>9. CASE Store(j, a) /\ 0 < x.size
  <2>1. conns' = [conns EXCEPT ![j] = a] /\ UNCHANGED saved
    BY <1>5, <1>7, <1>9 DEF Store
  <2>2. ReaderOK(a)
    BY <1>2, <1>5, <1>7, <1>9 DEF ReaderOK
  <2>3. OnTheWay(a) \subseteq OnTheWay(s)
    <3>1. OnTheWay(a) = Lined(r.net) \cup Lined(r.unread) \cup {x.ticket}
      BY <1>5, <1>7, <1>8, WayFacts
    <3>2. OnTheWay(r) = Lined(r.net) \cup Lined(r.unread)
      BY <1>2, <1>8, WayFacts
    <3> QED  BY <1>3, <1>6, <3>1, <3>2
  <2>4. InFlight(s) = <<>> \o InFlight(a) /\ <<>> \in Seq(Items)
    <3>1. Begun(a) = <<x>>
      <4>1. Begun(a) = <<x>> \o <<>>
        BY <1>4, <1>5, <1>7 DEF Begun
      <4> QED  BY <1>3, <4>1, SeqFacts
    <3>2. Begun(r) = <<>>
      BY <1>2 DEF Begun
    <3>3. InFlight(a) = <<x>> \o (r.unread \o r.net) /\ InFlight(r) = r.unread \o r.net
      BY <1>7, <1>8, <3>1, <3>2, SeqFacts DEF InFlight
    <3>4. InFlight(a) \in Seq(Items)
      BY <1>1, <1>7, BegunType
    <3> QED  BY <1>3, <3>3, <3>4, SeqFacts
  <2>5. NextCore /\ Quiet
    BY <1>7, <2>1, <2>2, <2>3, <2>4, StepDrops DEF s
  <2> QED  BY <2>5 DEF TurnEnds
<1>10. CASE Store(j, a) /\ ~(0 < x.size)
  <2> DEFINE b == [a EXCEPT !.file = NoFile, !.got = <<>>]
  <2> HIDE DEF b
  <2>1. x.size = 0
    BY <1>4, <1>10
  <2>2. /\ conns' = [conns EXCEPT ![j] = b]
        /\ saved' = Append(saved, [conn |-> j, ticket |-> x.ticket, log |-> x.log, got |-> <<>>])
    BY <1>5, <1>7, <1>10, <2>1 DEF Store, b
  <2>3. /\ b \in Conn(Len(clients)) /\ b.file = NoFile /\ b.got = <<>> /\ b.net = r.net
        /\ b.unread = r.unread /\ b.client = s.client /\ b.up = s.up /\ b.reading = r.reading
    <3>1. <<>> \in Seq(Items)
      OBVIOUS
    <3> QED  BY <1>7, <3>1 DEF b, Conn
  <2>4. /\ ReaderOK(b) /\ InFlight(b) = InFlight(r) /\ OnTheWay(b) = OnTheWay(r)
    BY <1>2, <2>3 DEF ReaderOK, InFlight, Begun, OnTheWay
  <2>5. NextCore /\ Delivered(j, x.ticket) /\ FinishedIsWhole' /\ InRequestOrder'
    <3> DEFINE l == x.log
               n == x.size
               t == x.ticket
               g == <<>>
               P == <<Header(l, n, t)>> \o g
    <3>1. P = <<x>> /\ g \in Seq(Items) /\ Len(g) = n
      BY <1>3, <1>4, <2>1, SeqFacts
    <3>2. /\ l \in Logs /\ n \in 0..Chunks /\ t \in Tickets /\ P = <<Header(l, n, t)>> \o g
          /\ InFlight(conns[j]) = P \o InFlight(b) /\ OnTheWay(b) \subseteq OnTheWay(conns[j])
          /\ t \in OnTheWay(conns[j]) /\ b.client = conns[j].client /\ b.up = conns[j].up
          /\ saved' = Append(saved, [conn |-> j, ticket |-> t, log |-> l, got |-> g])
      BY <1>3, <1>4, <1>6, <2>2, <2>3, <2>4, <3>1 DEF s
    <3>3. /\ IInv /\ j \in DOMAIN conns /\ b \in Conn(Len(clients)) /\ ReaderOK(b)
          /\ conns' = [conns EXCEPT ![j] = b] /\ UNCHANGED <<inodes, clients, owner>>
      BY <2>2, <2>3, <2>4
    <3> HIDE DEF P, l, n, t, g
    <3>4. NextCore /\ Delivered(j, t) /\ FinishedIsWhole' /\ InRequestOrder'
      BY ONLY <3>1, <3>2, <3>3, StepStores
    <3> QED  BY <3>4 DEF t
  <2> QED  BY <1>4, <2>5 DEF TurnEnds
<1>11. CASE ~Store(j, a)
  <2> DEFINE b == [r EXCEPT !.reading = FALSE]
  <2> HIDE DEF b
  <2>1. conns' = [conns EXCEPT ![j] = b] /\ UNCHANGED saved
    BY <1>11 DEF ReadHeader, a, o, b
  <2>2. /\ b \in Conn(Len(clients)) /\ b.file = r.file /\ b.got = r.got /\ b.net = r.net
        /\ b.unread = r.unread /\ b.client = s.client /\ b.up = s.up /\ b.reading = FALSE
    BY <1>2 DEF b, Conn
  <2>3. /\ ReaderOK(b) /\ InFlight(b) = InFlight(r) /\ OnTheWay(b) = OnTheWay(r)
    BY <1>2, <2>2 DEF ReaderOK, InFlight, Begun, OnTheWay
  <2>4. NextCore /\ Quiet
    BY <1>3, <2>1, <2>2, <2>3, StepDrops DEF s
  <2> QED  BY <2>4 DEF TurnEnds
<1> QED  BY <1>9, <1>10, <1>11

LEMMA StepReadNext ==
  ASSUME IInv, NEW j \in DOMAIN conns, ReadNext(j)
  PROVE  TurnEnds(j)
<1> DEFINE s == conns[j]
           x == Head(s.unread)
           r == [s EXCEPT !.unread = Tail(s.unread), !.reading = Len(s.unread) > 1]
<1>1. Turn(s, x, r) /\ UNCHANGED <<inodes, clients, owner>>
  BY TurnFacts DEF ReadNext, disk
<1> HIDE DEF x, r
<1>2. CASE s.file # NoFile
  <2>1. Store(j, [r EXCEPT !.got = Append(@, x)])
    BY <1>2 DEF ReadNext, x, r
  <2>2. Store(j, [r EXCEPT !.got = Append(r.got, x)])
    BY <2>1
  <2> QED  BY <1>1, <1>2, <2>2, TurnContinues
<1>3. CASE s.file = NoFile /\ (x.kind = "body" \/ s.glue)
  <2> DEFINE b == [r EXCEPT !.glue = x.kind = "body" /\ ~x.nl]
  <2>1. conns' = [conns EXCEPT ![j] = b] /\ UNCHANGED saved
    BY <1>3 DEF ReadNext, x, r
  <2>2. r \in Conn(Len(clients)) /\ r.client = s.client /\ r.up = s.up
    BY <1>1 DEF Turn
  <2>3. (x.kind = "body" /\ ~x.nl) \in BOOLEAN
    OBVIOUS
  <2>4. /\ b \in Conn(Len(clients)) /\ b.file = r.file /\ b.got = r.got /\ b.net = r.net
        /\ b.unread = r.unread /\ b.client = s.client /\ b.up = s.up /\ b.reading = r.reading
    BY <2>2, <2>3 DEF Conn
  <2> HIDE DEF b
  <2>5. /\ ReaderOK(r) /\ <<x>> \in Seq(Items) /\ InFlight(s) = <<x>> \o InFlight(r)
        /\ OnTheWay(r) \subseteq OnTheWay(s)
    BY <1>1, <1>3, TurnSkips
  <2>6. /\ ReaderOK(b) /\ InFlight(b) = InFlight(r) /\ OnTheWay(b) = OnTheWay(r)
    BY <2>4, <2>5 DEF ReaderOK, InFlight, Begun, OnTheWay
  <2>7. NextCore /\ Quiet
    BY <1>1, <2>1, <2>4, <2>5, <2>6, StepDrops
  <2> QED  BY <2>7 DEF TurnEnds
<1>4. CASE s.file = NoFile /\ ~(x.kind = "body" \/ s.glue)
  <2>1. ReadHeader(j, r, x)
    BY <1>4 DEF ReadNext, x, r
  <2>2. x.kind = "header"
    BY <1>1, <1>4, ItemFacts DEF Turn
  <2> QED  BY <1>1, <1>4, <2>1, <2>2, TurnOpens
<1> QED  BY <1>2, <1>3, <1>4
-----------------------------------------------------------------------------
(* The disk, and the whole step *)

LEMMA DiskSame ==
  ASSUME IInv, UNCHANGED disk, breaks' \in 0..MaxBreaks, fails' \in 0..MaxFails,
         clients # <<>> => clients' # <<>>
  PROVE  Grown /\ DiskType' /\ DiskInv'
<1>1. inodes' = inodes /\ dir' = dir /\ fd' = fd
  BY DEF disk
<1>2. Grown
  BY <1>1, GrownSame
<1>3. DiskType /\ DiskInv
  BY Facts
<1> QED  BY <1>1, <1>2, <1>3 DEF DiskType, DiskInv

LEMMA Replaced ==
  ASSUME NEW k \in DOMAIN clients, NEW f, clients' = [clients EXCEPT ![k] = f]
  PROVE  clients' # <<>>
<1>1. k \in DOMAIN clients'
  OBVIOUS
<1>2. DOMAIN <<>> = {}
  OBVIOUS
<1> QED  BY <1>1, <1>2

LEMMA DiskOpenLog ==
  ASSUME IInv, NEW l \in Logs, OpenLog(l)
  PROVE  DiskType' /\ DiskInv'
<1>1. /\ DiskType /\ DiskInv /\ clients # <<>> /\ clients' = clients /\ breaks' = breaks /\ fails' = fails
      /\ fd' = [fd EXCEPT ![l] = dir'[l]] /\ Len(inodes) \in Nat
  BY Facts DEF OpenLog
<1>2. CASE dir[l] = 0
  <2> DEFINE n == Len(inodes) + 1
             e == [name |-> l, size |-> 0]
  <2>1. inodes' = Append(inodes, e) /\ dir' = [dir EXCEPT ![l] = Len(inodes')]
    BY <1>2 DEF OpenLog
  <2>2. inodes \in Seq([name : Logs, size : 0..Chunks]) /\ e \in [name : Logs, size : 0..Chunks]
    BY Facts, FileTransferAssumption DEF Typed, Files
  <2> HIDE DEF e
  <2>3. /\ Len(inodes') = n /\ inodes'[n] = e
        /\ \A i \in 1..Len(inodes) : inodes'[i] = inodes[i]
    BY <2>1, <2>2, AppendFacts
  <2>4. n \in 0..n /\ n # 0 /\ 0..Len(inodes) \subseteq 0..n
    BY <1>1
  <2> HIDE DEF n
  <2>5. dir \in [Logs -> 0..n] /\ fd \in [Logs -> 0..n]
    BY <1>1, <2>4 DEF DiskType
  <2>6. dir' = [dir EXCEPT ![l] = n] /\ fd' = [fd EXCEPT ![l] = n]
    BY <1>1, <2>1, <2>3, <2>5
  <2>7. dir' \in [Logs -> 0..n] /\ fd' \in [Logs -> 0..n]
    BY <2>4, <2>5, <2>6
  <2>8. DiskType'
    BY <1>1, <2>3, <2>7 DEF DiskType
  <2>9. DiskInv'
    <3> SUFFICES ASSUME NEW m \in Logs
                 PROVE  /\ dir'[m] # 0 => inodes'[dir'[m]].name = m
                        /\ fd'[m] # 0 => clients' # <<>>
      BY DEF DiskInv
    <3>1. CASE m = l
      <4>1. dir'[m] = n /\ e.name = l
        BY <2>5, <2>6, <3>1 DEF e
      <4> QED  BY <1>1, <2>3, <3>1, <4>1
    <3>2. CASE m # l
      <4>1. dir'[m] = dir[m] /\ dir[m] \in 0..Len(inodes)
        BY <1>1, <2>5, <2>6, <3>2 DEF DiskType
      <4>2. dir[m] # 0 => inodes[dir[m]].name = m
        BY <1>1 DEF DiskInv
      <4>3. dir[m] # 0 => dir[m] \in 1..Len(inodes)
        BY <1>1, <4>1
      <4> QED  BY <1>1, <2>3, <4>1, <4>2, <4>3
    <3> QED  BY <3>1, <3>2
  <2> QED  BY <2>8, <2>9
<1>3. CASE dir[l] # 0
  <2>1. inodes' = inodes /\ dir' = dir
    BY <1>3 DEF OpenLog
  <2>2. fd' \in [Logs -> 0..Len(inodes)]
    BY <1>1, <2>1 DEF DiskType
  <2> QED  BY <1>1, <2>1, <2>2 DEF DiskType, DiskInv
<1> QED  BY <1>2, <1>3

LEMMA DiskToLogFile ==
  ASSUME IInv, NEW l \in Logs, ToLogFile(l)
  PROVE  DiskType' /\ DiskInv'
<1>1. /\ DiskType /\ DiskInv /\ dir' = dir /\ fd' = fd /\ clients' = clients
      /\ breaks' = breaks /\ fails' = fails
      /\ inodes' = [inodes EXCEPT ![fd[l]].size = @ + 1] /\ Len(inodes) \in Nat
  BY Facts DEF ToLogFile
<1>2. Len(inodes') = Len(inodes)
  <2>1. inodes \in Seq([name : Logs, size : 0..Chunks])
    BY Facts DEF Typed, Files
  <2> QED  BY <1>1, <2>1
<1>3. \A n \in DOMAIN inodes : inodes'[n].name = inodes[n].name
  BY GrownToLogFile DEF Grown
<1>4. \A m \in Logs : dir[m] # 0 => dir[m] \in DOMAIN inodes
  <2> TAKE m \in Logs
  <2>1. dir[m] \in 0..Len(inodes) /\ DOMAIN inodes = 1..Len(inodes)
    BY <1>1, Facts, TypedFacts DEF DiskType
  <2> QED  BY <1>1, <2>1
<1> QED  BY <1>1, <1>2, <1>3, <1>4 DEF DiskType, DiskInv

LEMMA DiskOnFinished ==
  ASSUME IInv, NEW l \in Logs, OnFinished(l)
  PROVE  Grown /\ DiskType' /\ DiskInv'
<1>1. /\ DiskType /\ DiskInv /\ dir' = dir /\ inodes' = inodes /\ fd' = [fd EXCEPT ![l] = 0]
      /\ breaks' = breaks /\ fails' = fails /\ Len(inodes) \in Nat /\ fd[l] # 0
  BY Facts DEF OnFinished
<1>2. clients' # <<>>
  <2>1. clients # <<>>
    BY <1>1 DEF DiskInv
  <2>2. CASE dir[l] = 0
    BY <2>1, <2>2 DEF OnFinished
  <2>3. CASE dir[l] # 0
    <3>1. clients' = [clients EXCEPT ![Len(clients)] = EnqueueFile(@, l, Len(owner'))]
      BY <2>3 DEF OnFinished
    <3>2. Len(clients) \in DOMAIN clients
      <4>1. clients \in Seq(Client(Len(conns), Len(inodes)))
        BY Facts DEF Typed
      <4> QED  BY <2>1, <4>1
    <3>3. Len(clients) \in DOMAIN clients' /\ DOMAIN <<>> = {}
      BY <3>1, <3>2
    <3> QED  BY <3>3
  <2> QED  BY <2>2, <2>3
<1>3. fd' \in [Logs -> 0..Len(inodes)]
  BY <1>1 DEF DiskType
<1>4. Grown
  BY <1>1, GrownSame
<1> QED  BY <1>1, <1>2, <1>3, <1>4 DEF DiskType, DiskInv

LEMMA DiskWritten ==
  ASSUME IInv, NEW k \in DOMAIN clients, Written(k)
  PROVE  Grown /\ DiskType' /\ DiskInv'
<1>1. /\ DiskType /\ DiskInv /\ inodes' = inodes /\ fd' = fd
      /\ breaks' = breaks /\ fails' = fails /\ Len(inodes) \in Nat
      /\ OnBytesWritten(k, [clients[k] EXCEPT !.wbuf = Tail(@)])
  BY Facts DEF Written
<1> DEFINE w == [clients[k] EXCEPT !.wbuf = Tail(@)]
<1>2. \E f : clients' = [clients EXCEPT ![k] = f]
  BY <1>1 DEF OnBytesWritten
<1>3. clients' # <<>>
  BY <1>2, Replaced
<1>4. dir' = dir \/ dir' = [dir EXCEPT ![inodes[w.cur].name] = 0]
  BY <1>1 DEF OnBytesWritten
<1>5. dir' \in [Logs -> 0..Len(inodes)] /\ \A l \in Logs : dir'[l] = dir[l] \/ dir'[l] = 0
  <2>1. 0 \in 0..Len(inodes) /\ dir \in [Logs -> 0..Len(inodes)]
    BY <1>1 DEF DiskType
  <2> HIDE DEF w
  <2> QED  BY <1>4, <2>1
<1>6. Grown
  BY <1>1, GrownSame
<1> QED  BY <1>1, <1>3, <1>5, <1>6 DEF DiskType, DiskInv

Step ==
  /\ NextCore /\ Grown /\ DiskType' /\ DiskInv'
  /\ \/ Quiet
     \/ \E k \in DOMAIN clients : Requested(k)
     \/ \E j \in DOMAIN conns, t \in Tickets :
          Delivered(j, t) /\ FinishedIsWhole' /\ InRequestOrder'

LEMMA NextSteps ==
  ASSUME IInv, Next
  PROVE  Step
<1>1. DiskType /\ {MaxBreaks, MaxFails} \subseteq Nat
  BY Facts, FileTransferAssumption
<1>2. breaks \in 0..MaxBreaks /\ fails \in 0..MaxFails
  BY <1>1 DEF DiskType
<1>3. ASSUME NEW k \in DOMAIN clients, OnConnected(k)
      PROVE  Step
  <2>1. UNCHANGED <<disk, breaks, fails>> /\ \E f : clients' = [clients EXCEPT ![k] = f]
    BY <1>3 DEF OnConnected
  <2>2. Grown /\ DiskType' /\ DiskInv'
    BY <1>2, <2>1, Replaced, DiskSame
  <2> QED  BY <1>3, <2>2, StepOnConnected DEF Step
<1>4. ASSUME NEW k \in DOMAIN clients, OnDisconnected(k)
      PROVE  Step
  <2>1. UNCHANGED <<disk, breaks, fails>> /\ \E f : clients' = [clients EXCEPT ![k] = f]
    BY <1>4 DEF OnDisconnected
  <2>2. Grown /\ DiskType' /\ DiskInv'
    BY <1>2, <2>1, Replaced, DiskSame
  <2> QED  BY <1>4, <2>2, StepOnDisconnected DEF Step
<1>5. ASSUME NEW k \in DOMAIN clients, Written(k)
      PROVE  Step
  BY <1>5, DiskWritten, StepWritten DEF Step
<1>6. ASSUME NEW j \in DOMAIN conns, OnReadyRead(j)
      PROVE  Step
  <2>1. UNCHANGED <<disk, breaks, fails, clients>>
    BY <1>6 DEF OnReadyRead
  <2>2. Grown /\ DiskType' /\ DiskInv'
    BY <1>2, <2>1, DiskSame
  <2> QED  BY <1>6, <2>2, StepOnReadyRead DEF Step
<1>7. ASSUME NEW j \in DOMAIN conns, ReadNext(j)
      PROVE  Step
  <2>1. UNCHANGED <<disk, clients, breaks>>
    BY <1>7 DEF ReadNext
  <2>2. fails' \in 0..MaxFails
    <3>1. fails' = fails \/ (fails < MaxFails /\ fails' = fails + 1)
      BY <1>7 DEF ReadNext, ReadHeader
    <3> QED  BY <1>1, <1>2, <3>1
  <2>3. Grown /\ DiskType' /\ DiskInv'
    BY <1>2, <2>1, <2>2, DiskSame
  <2> QED  BY <1>7, <2>3, StepReadNext DEF Step, TurnEnds
<1>8. CASE OnNewClient
  <2>1. UNCHANGED <<disk, breaks, fails>> /\ clients' = Append(clients, FreshClient)
    BY <1>8 DEF OnNewClient
  <2>2. clients' # <<>>
    <3>1. clients \in Seq(Client(Len(conns), Len(inodes)))
      BY Facts DEF Typed
    <3>2. Len(Append(clients, FreshClient)) = Len(clients) + 1 /\ Len(clients) \in Nat
      BY <3>1
    <3>3. Len(clients') # 0
      BY <2>1, <3>2
    <3> QED  BY <3>3
  <2>3. Grown /\ DiskType' /\ DiskInv'
    BY <1>2, <2>1, <2>2, DiskSame
  <2> QED  BY <1>8, <2>3, StepOnNewClient DEF Step
<1>9. ASSUME NEW l \in Logs, OpenLog(l)
      PROVE  Step
  BY <1>9, GrownOpenLog, DiskOpenLog, StepOpenLog DEF Step
<1>10. ASSUME NEW l \in Logs, ToLogFile(l)
       PROVE  Step
  BY <1>10, GrownToLogFile, DiskToLogFile, StepToLogFile DEF Step
<1>11. ASSUME NEW l \in Logs, OnFinished(l)
       PROVE  Step
  BY <1>11, DiskOnFinished, StepOnFinished DEF Step
<1>12. ASSUME NEW k \in DOMAIN clients, ConnectFails(k)
       PROVE  Step
  <2>1. /\ UNCHANGED <<disk, fails>> /\ breaks < MaxBreaks /\ breaks' = breaks + 1
        /\ \E f : clients' = [clients EXCEPT ![k] = f]
    BY <1>12 DEF ConnectFails
  <2>2. breaks' \in 0..MaxBreaks
    BY <1>1, <1>2, <2>1
  <2>3. Grown /\ DiskType' /\ DiskInv'
    BY <1>2, <2>1, <2>2, Replaced, DiskSame
  <2> QED  BY <1>12, <2>3, StepConnectFails DEF Step
<1>13. ASSUME NEW j \in DOMAIN conns, Break(j)
       PROVE  Step
  <2>1. /\ UNCHANGED <<disk, fails, clients>> /\ breaks < MaxBreaks /\ breaks' = breaks + 1
    BY <1>13 DEF Break
  <2>2. breaks' \in 0..MaxBreaks
    BY <1>1, <1>2, <2>1
  <2>3. Grown /\ DiskType' /\ DiskInv'
    BY <1>2, <2>1, <2>2, DiskSame
  <2> QED  BY <1>13, <2>3, StepBreak DEF Step
<1> QED  BY <1>3, <1>4, <1>5, <1>6, <1>7, <1>8, <1>9, <1>10, <1>11, <1>12, <1>13 DEF Next, Serve
-----------------------------------------------------------------------------
(* The invariant holds, and the promise is kept *)

LEMMA InitIInv == Init => IInv
<1> SUFFICES ASSUME Init
             PROVE  IInv
  OBVIOUS
<1>1. /\ inodes = <<>> /\ dir = [l \in Logs |-> 0] /\ fd = dir /\ clients = <<>> /\ conns = <<>>
      /\ owner = <<>> /\ saved = <<>> /\ breaks = 0 /\ fails = 0
  BY DEF Init
<1>2. {MaxRuns, Chunks, MaxClients, MaxBreaks, MaxFails} \subseteq Nat
  BY FileTransferAssumption
<1>3. /\ DOMAIN <<>> = {} /\ Len(<<>>) = 0 /\ \A S : <<>> \in Seq(S)
  OBVIOUS
<1>4. dir \in [Logs -> 0..Len(inodes)] /\ fd \in [Logs -> 0..Len(inodes)]
  BY <1>1, <1>3
<1>5. breaks \in 0..MaxBreaks /\ fails \in 0..MaxFails
  BY <1>1, <1>2
<1>6. TypeOK
  BY <1>1, <1>3, <1>4, <1>5 DEF TypeOK
<1>7. Typed(clients, conns, owner, saved, inodes)
  BY <1>1, <1>2, <1>3 DEF Typed, Files
<1>8. Core(clients, conns, owner, saved, inodes)
  BY <1>1, <1>3, <1>7 DEF Core, LinkInv, WireInv, QueueInv, OrderInv, ConnOrderInv
<1>9. DiskInv
  BY <1>1 DEF DiskInv
<1>10. FinishedIsWhole /\ InRequestOrder
  BY <1>1, <1>3 DEF FinishedIsWhole, InRequestOrder, Range
<1> QED  BY <1>6, <1>8, <1>9, <1>10 DEF IInv

\* What was saved stays whole and in order when files grow.
LEMMA StoredStays ==
  ASSUME IInv, Grown, saved' = saved
  PROVE  FinishedIsWhole' /\ InRequestOrder'
<1>1. FinishedIsWhole /\ InRequestOrder
  BY DEF IInv
<1>2. DOMAIN inodes \subseteq DOMAIN inodes' /\ \A n \in DOMAIN inodes : inodes'[n].name = inodes[n].name
  <2>1. Typed(clients, conns, owner, saved, inodes)
    BY Facts
  <2>2. DOMAIN inodes = 1..Len(inodes) /\ Len(inodes) \in Nat
    BY <2>1, TypedFacts
  <2>3. Len(inodes') \in Nat /\ DOMAIN inodes' = 1..Len(inodes')
    BY DEF Grown, Files
  <2> QED  BY <2>2, <2>3 DEF Grown
<1> QED  BY <1>1, <1>2 DEF FinishedIsWhole, InRequestOrder

LEMMA StepIInv ==
  ASSUME IInv, Step
  PROVE  IInv'
<1>1. NextCore /\ Grown /\ DiskType' /\ DiskInv'
  BY DEF Step
<1>2. TypeOK'
  <2>1. Typed(clients', conns', owner', saved', inodes')
    BY <1>1 DEF NextCore, Core
  <2> QED  BY <1>1, <2>1 DEF Typed, Files, Client, Conn, SavedFile, QueueEntry, DiskType, TypeOK
<1>3. FinishedIsWhole' /\ InRequestOrder'
  <2>1. CASE saved' = saved
    BY <1>1, <2>1, StoredStays
  <2>2. CASE saved' # saved
    BY <2>2 DEF Step, Quiet, Requested
  <2> QED  BY <2>1, <2>2
<1> QED  BY <1>1, <1>2, <1>3 DEF IInv, NextCore

LEMMA KeepsIInv == IInv /\ [Next]_vars => IInv'
<1>1. ASSUME IInv, Next
      PROVE  IInv'
  BY <1>1, NextSteps, StepIInv
<1>2. ASSUME IInv, UNCHANGED vars
      PROVE  IInv'
  <2>1. UNCHANGED <<inodes, dir, fd, clients, conns, owner, saved, breaks, fails>>
    BY <1>2 DEF vars
  <2>2. TypeOK'
    BY <1>2, <2>1 DEF IInv, TypeOK
  <2>3. Core(clients', conns', owner', saved', inodes')
    BY <1>2, <2>1 DEF IInv
  <2>4. DiskInv' /\ FinishedIsWhole' /\ InRequestOrder'
    BY <1>2, <2>1 DEF IInv, DiskInv, FinishedIsWhole, InRequestOrder
  <2> QED  BY <2>2, <2>3, <2>4 DEF IInv
<1> QED  BY <1>1, <1>2

LEMMA AlwaysIInv == Spec => []IInv
BY InitIInv, KeepsIInv, PTL DEF Spec

\* What arrived stays, with the console that it came to.
LEMMA ArrivedFacts ==
  ASSUME IInv, Linked
  PROVE  /\ Arrived \in Seq(Tickets \X Nat) /\ Len(Arrived) = Len(saved)
         /\ saved' = saved => Arrived' = Arrived
<1>1. Typed(clients, conns, owner, saved, inodes)
  BY Facts
<1>2. /\ saved \in Seq(SavedFile(Len(conns))) /\ DOMAIN saved = 1..Len(saved) /\ Len(saved) \in Nat
      /\ \A i \in DOMAIN saved : saved[i] \in SavedFile(Len(conns)) /\ saved[i].conn \in DOMAIN conns
      /\ \A j \in DOMAIN conns : conns[j].client \in 1..Len(clients)
  BY <1>1, TypedFacts DEF Typed
<1>3. \A i \in DOMAIN saved : <<saved[i].ticket, conns[saved[i].conn].client>> \in Tickets \X Nat
  BY <1>2 DEF SavedFile
<1>4. Arrived \in Seq(Tickets \X Nat) /\ Len(Arrived) = Len(saved)
  BY <1>2, <1>3 DEF Arrived
<1>5. ASSUME saved' = saved
      PROVE  Arrived' = Arrived
  BY <1>2, <1>5 DEF Arrived, Linked
<1> QED  BY <1>4, <1>5

LEMMA ArrivedGrows ==
  ASSUME IInv, NEW j \in DOMAIN conns, NEW t \in Tickets, Delivered(j, t)
  PROVE  Arrived' = Append(Arrived, <<t, owner[t]>>)
<1>1. PICK e \in SavedFile(Len(conns)) : saved' = Append(saved, e) /\ e.conn = j /\ e.ticket = t
  BY DEF Delivered
<1>2. Typed(clients, conns, owner, saved, inodes)
  BY Facts
<1>3. /\ saved \in Seq(SavedFile(Len(conns))) /\ DOMAIN saved = 1..Len(saved) /\ Len(saved) \in Nat
      /\ \A i \in DOMAIN saved : saved[i].conn \in DOMAIN conns
      /\ \A i \in DOMAIN conns : conns[i].client \in 1..Len(clients)
  BY <1>2, TypedFacts DEF Typed
<1>4. Linked /\ owner[t] = conns[j].client
  BY DEF Delivered
<1> DEFINE e2 == <<t, owner[t]>>
           A == Arrived
           n == Len(saved)
<1>5. A \in Seq(Tickets \X Nat) /\ Len(A) = n /\ e2 \in Tickets \X Nat
  <2>1. owner[t] \in Nat
    BY <1>3, <1>4
  <2> QED  BY <1>4, <2>1, ArrivedFacts
<1>6. /\ DOMAIN saved' = 1..(n + 1) /\ saved'[n + 1] = e
      /\ \A i \in 1..n : saved'[i] = saved[i]
  BY <1>1, <1>3, AppendFacts
<1>7. Arrived' = [i \in 1..(n + 1) |-> <<saved'[i].ticket, conns'[saved'[i].conn].client>>]
  BY <1>6 DEF Arrived
<1>8. \A i \in 1..n : A[i] = <<saved[i].ticket, conns[saved[i].conn].client>>
  BY <1>3 DEF Arrived
<1> HIDE DEF A, e2
<1>9. \A i \in 1..n : Arrived'[i] = A[i]
  <2> TAKE i \in 1..n
  <2>1. i \in 1..(n + 1) /\ i \in DOMAIN saved
    BY <1>3
  <2>2. conns'[saved[i].conn].client = conns[saved[i].conn].client
    BY <1>3, <1>4, <2>1 DEF Linked
  <2> QED  BY <1>6, <1>7, <1>8, <2>1, <2>2
<1>10. Arrived'[n + 1] = e2
  <2>1. n + 1 \in 1..(n + 1)
    BY <1>3
  <2>2. conns'[j].client = conns[j].client
    BY <1>4 DEF Linked
  <2> QED  BY <1>1, <1>4, <1>6, <1>7, <2>1, <2>2 DEF e2
<1>11. /\ Append(A, e2) \in Seq(Tickets \X Nat) /\ Len(Append(A, e2)) = n + 1
       /\ \A i \in 1..n : Append(A, e2)[i] = A[i]
       /\ Append(A, e2)[n + 1] = e2
  BY <1>5, AppendFacts
<1>12. \A i \in 1..(n + 1) : Arrived'[i] = Append(A, e2)[i]
  <2> TAKE i \in 1..(n + 1)
  <2>1. i \in 1..n \/ i = n + 1
    BY <1>3
  <2> QED  BY <1>9, <1>10, <1>11, <2>1
<1>13. Arrived' \in Seq(Tickets \X Nat) /\ Len(Arrived') = n + 1
  <2>1. \A i \in 1..(n + 1) : Arrived'[i] \in Tickets \X Nat
    <3>1. \A i \in 1..(n + 1) : Append(A, e2)[i] \in Tickets \X Nat
      BY <1>11
    <3> QED  BY <1>12, <3>1
  <2>2. DOMAIN Arrived' = 1..(n + 1) /\ n + 1 \in Nat
    BY <1>3, <1>7
  <2>3. Arrived' = [i \in 1..(n + 1) |-> Arrived'[i]]
    BY <1>7
  <2> QED  BY <2>1, <2>2, <2>3
<1>14. Arrived' = Append(A, e2)
  BY <1>11, <1>12, <1>13, SameSeq
<1> QED  BY <1>14 DEF A, e2

LEMMA InitDelivers == Init => Delivery!Init
<1> SUFFICES ASSUME Init
             PROVE  Delivery!Init
  OBVIOUS
<1>1. clients = <<>> /\ conns = <<>> /\ owner = <<>> /\ saved = <<>>
  BY DEF Init
<1>2. DOMAIN <<>> = {}
  OBVIOUS
<1>3. Open = {}
  BY <1>1, <1>2 DEF Open, Range
<1>4. Arrived = <<>>
  BY <1>1, <1>2 DEF Arrived
<1> QED  BY <1>1, <1>3, <1>4 DEF Delivery!Init

LEMMA StepDelivers ==
  ASSUME IInv, Step
  PROVE  Delivery!Next
<1>1. CASE Quiet
  <2>1. Arrived' = Arrived
    BY <1>1, ArrivedFacts DEF Quiet
  <2>2. Delivery!GiveUp
    BY <1>1, <2>1 DEF Quiet, Delivery!GiveUp
  <2> QED  BY <2>2 DEF Delivery!Next
<1>2. ASSUME NEW k \in DOMAIN clients, Requested(k)
      PROVE  Delivery!Next
  <2>1. Arrived' = Arrived
    BY <1>2, ArrivedFacts DEF Requested
  <2>2. k \in 1..MaxClients
    <3>1. Typed(clients, conns, owner, saved, inodes)
      BY Facts
    <3>2. Len(clients) <= MaxClients /\ k \in 1..Len(clients) /\ Len(clients) \in Nat /\ MaxClients \in Nat
      BY <3>1, Facts, FileTransferAssumption DEF Typed
    <3> QED  BY <3>2
  <2>3. Delivery!Request(k)
    BY <1>2, <2>1 DEF Requested, Delivery!Request
  <2> QED  BY <2>2, <2>3 DEF Delivery!Next
<1>3. ASSUME NEW j \in DOMAIN conns, NEW t \in Tickets, Delivered(j, t)
      PROVE  Delivery!Next
  <2>1. Arrived' = Append(Arrived, <<t, owner[t]>>)
    BY <1>3, ArrivedGrows
  <2>2. owner' = owner /\ t \in Open /\ Open' \subseteq Open \ {t}
    BY <1>3 DEF Delivered
  <2>3. Delivery!Arrive(t)
    BY <2>1, <2>2 DEF Delivery!Arrive
  <2> QED  BY <2>2, <2>3 DEF Delivery!Next
<1> QED  BY <1>1, <1>2, <1>3 DEF Step

LEMMA KeepsDelivering == IInv /\ [Next]_vars => [Delivery!Next]_(Delivery!vars)
<1>1. ASSUME IInv, Next
      PROVE  Delivery!Next
  BY <1>1, NextSteps, StepDelivers
<1>2. ASSUME UNCHANGED vars
      PROVE  UNCHANGED Delivery!vars
  <2>1. clients' = clients /\ conns' = conns /\ owner' = owner /\ saved' = saved
    BY <1>2 DEF vars
  <2>2. Open' = Open /\ Arrived' = Arrived
    BY <2>1 DEF Open, Arrived
  <2> QED  BY <2>1, <2>2 DEF Delivery!vars
<1> QED  BY <1>1, <1>2

-----------------------------------------------------------------------------
(* The log files, the file clients, the connections and the sockets of the *)
(* console keep their types: no client's file, position or connection goes *)
(* out of range, whatever is skipped, breaks or is handed in (fileclient   *)
(* .cpp, filesaveSocket.cpp).                                              *)
THEOREM TypeCorrect == Spec => []TypeOK
<1>1. IInv => TypeOK
  BY DEF IInv
<1> QED  BY <1>1, AlwaysIInv, PTL

(* Every file that a console reports finished is the beginning of one log  *)
(* of that name, in order and with nothing of another in it: the lengths   *)
(* that sendNextFile writes into its headers agree with what onReadyRead   *)
(* counts, though logs grow, are skipped and are removed meanwhile.        *)
THEOREM FinishedFilesAreWhole == Spec => []FinishedIsWhole
<1>1. IInv => FinishedIsWhole
  BY DEF IInv
<1> QED  BY <1>1, AlwaysIInv, PTL

(* The files that come over one connection are finished in the order in    *)
(* which the daemon handed them in.                                        *)
THEOREM OrderIsKept == Spec => []InRequestOrder
<1>1. IInv => InRequestOrder
  BY DEF IInv
<1> QED  BY <1>1, AlwaysIInv, PTL

(* The upload implements LogDelivery: a log that was handed in is stored   *)
(* at most once, at the console whose FileClient it was handed to, and not *)
(* after it was given up.                                                  *)
THEOREM UploadImplementsDelivery == Spec => AtMostOnce
<1>1. Spec => []IInv
  BY AlwaysIInv
<1> QED  BY <1>1, InitDelivers, KeepsDelivering, PTL DEF Spec, AtMostOnce, Delivery!Spec
=============================================================================
