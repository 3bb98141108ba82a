---------------------------- MODULE BridgesProofs ----------------------------
(***************************************************************************)
(* Proofs about Bridges, for every set of devices, any number of views and *)
(* whatever another console opened before: ports, listeners and tasks.     *)
(***************************************************************************)
EXTENDS Bridges, FiniteSetTheorems, TLAPS

-----------------------------------------------------------------------------
(* The shape of the state.                                                 *)
Task == [key : Key, idx : Nat, port : Nat,
         dev : {"none", "made", "trying", "open", "shut"},
         tcp : {"none", "made", "listening", "shut", "failed"}]
Command == [what : {"ADD", "DEL"}, key : Key, idx : Nat]
Opened == [idx : Nat, port : Nat]
Conn == [key : Key, state : {"opening", "open"}, heard : BOOLEAN,
         up : Seq(Command), down : Seq(Opened)]
View == [port : Nat, conn : Nat, asked : BOOLEAN]
Call == [key : Key, idx : Nat, conn : Nat]
Post == {"task", "dev", "tcp"} \X Nat

DaemonTypes ==
  /\ kind \in Kind /\ up \in BOOLEAN /\ deleted \in BOOLEAN /\ early \in BOOLEAN
  /\ tasks \in Seq(Task)
  /\ IsMap(registry, Key, DOMAIN tasks)
  /\ \A k \in DOMAIN registry : tasks[registry[k]].key = k
  /\ posted \in Seq(Post)
  /\ \A i \in DOMAIN posted : posted[i][2] \in DOMAIN tasks

ConsoleTypes ==
  /\ orderly \in BOOLEAN
  /\ conns \in Seq(Conn)
  /\ adding \in Seq(Call)
  /\ IsMap(views, Key, View)

\* Each WebSocket belongs to one view, or to one call that will make one.
ViewInv ==
  /\ \A k \in DOMAIN views :
       /\ views[k].conn \in DOMAIN conns
       /\ conns[views[k].conn].key = k /\ conns[views[k].conn].heard
  /\ \A i \in DOMAIN adding :
       /\ adding[i].conn \in DOMAIN conns
       /\ conns[adding[i].conn].key = adding[i].key /\ conns[adding[i].conn].heard
       /\ \A k \in DOMAIN views : views[k].conn # adding[i].conn
  /\ \A i, j \in DOMAIN adding : adding[i].conn = adding[j].conn => i = j

ConsoleInv == ConsoleTypes /\ ViewInv

-----------------------------------------------------------------------------
(* The tasks.                                                              *)
In(x, s) == \E i \in DOMAIN s : s[i] = x
Posted(what, n) == In(<<what, n>>, posted)

\* No call that makes or starts a TCP server is in s twice.
Once(s) ==
  \A i, j \in DOMAIN s : s[i] = s[j] /\ s[i][1] \in {"task", "tcp"} => i = j

\* A task waits for its init while it has no TCP server, and for that of its
\* TCP server when it has made one.
PostedInv ==
  /\ Once(posted)
  /\ \A n \in DOMAIN tasks :
       /\ Posted("task", n) => tasks[n].tcp \in {"none", "shut"}
       /\ Posted("tcp", n) => tasks[n].tcp = "made"

\* As long as nothing was deleted, task n has the n-th port.
PortInv ==
  ~deleted =>
    /\ MapCount(registry) = Len(tasks)
    /\ \A n \in DOMAIN tasks : tasks[n].port = Base + n - 1 /\ tasks[n].tcp # "failed"

\* Nothing outside the registry listens, or is about to.
HomeInv ==
  ~early => \A n \in DOMAIN tasks :
              tasks[n].tcp = "listening" \/ Awaits(n) =>
                tasks[n].key \in DOMAIN registry /\ registry[tasks[n].key] = n

DaemonInv == DaemonTypes /\ PostedInv /\ PortInv /\ HomeInv

-----------------------------------------------------------------------------
(* Sequences.                                                              *)
LEMMA SeqFacts ==
  ASSUME NEW S, NEW s \in Seq(S)
  PROVE  /\ Len(s) \in Nat /\ DOMAIN s = 1..Len(s)
         /\ \A i \in DOMAIN s : s[i] \in S
OBVIOUS

LEMMA AppendFacts ==
  ASSUME NEW S, NEW s \in Seq(S), NEW e \in S
  PROVE  /\ Append(s, e) \in Seq(S)
         /\ Len(Append(s, e)) = Len(s) + 1
         /\ DOMAIN Append(s, e) = 1..(Len(s) + 1) /\ DOMAIN s = 1..Len(s) /\ Len(s) \in Nat
         /\ \A i \in 1..Len(s) : Append(s, e)[i] = s[i]
         /\ Append(s, e)[Len(s) + 1] = e
OBVIOUS

LEMMA TailFacts ==
  ASSUME NEW S, NEW s \in Seq(S), s # <<>>
  PROVE  /\ Tail(s) \in Seq(S) /\ Head(s) \in S /\ Head(s) = s[1] /\ 1 \in DOMAIN s
         /\ \A i \in DOMAIN Tail(s) : i + 1 \in DOMAIN s /\ Tail(s)[i] = s[i + 1]
                                      /\ i \in Nat /\ i + 1 # 1
         /\ \A i \in DOMAIN s : i # 1 => i - 1 \in DOMAIN Tail(s) /\ Tail(s)[i - 1] = s[i]
OBVIOUS

\* A function on the places of a sequence is one.
LEMMA MapFacts ==
  ASSUME NEW S, NEW T, NEW s \in Seq(S), NEW f, DOMAIN f = DOMAIN s, \A i \in DOMAIN s : f[i] \in T,
         f = [i \in DOMAIN s |-> f[i]]
  PROVE  f \in Seq(T) /\ Len(f) = Len(s)
<1>1. Len(s) \in Nat /\ DOMAIN s = 1..Len(s)
  OBVIOUS
<1>2. f \in [1..Len(s) -> T]
  BY <1>1
<1> QED  BY <1>1, <1>2

\* One element of a sequence is replaced.
LEMMA ExceptFacts ==
  ASSUME NEW S, NEW s \in Seq(S), NEW n \in DOMAIN s, NEW e \in S
  PROVE  /\ [s EXCEPT ![n] = e] \in Seq(S)
         /\ DOMAIN [s EXCEPT ![n] = e] = DOMAIN s
         /\ Len([s EXCEPT ![n] = e]) = Len(s)
         /\ [s EXCEPT ![n] = e][n] = e
         /\ \A i \in DOMAIN s : i # n => [s EXCEPT ![n] = e][i] = s[i]
OBVIOUS
-----------------------------------------------------------------------------
(* The console.                                                            *)
\* A step that only moves messages on the WebSockets.
LEMMA ConsoleFrame ==
  ASSUME ConsoleInv, UNCHANGED <<views, adding, orderly>>,
         conns' \in Seq(Conn), DOMAIN conns' = DOMAIN conns,
         \A c \in DOMAIN conns : conns'[c].key = conns[c].key /\ conns'[c].heard = conns[c].heard
  PROVE  ConsoleInv'
<1>1. ConsoleTypes'
  BY DEF ConsoleInv, ConsoleTypes
<1>2. ViewInv'
  BY DEF ConsoleInv, ViewInv
<1> QED  BY <1>1, <1>2 DEF ConsoleInv

\* One WebSocket is changed.
LEMMA OneConn ==
  ASSUME conns \in Seq(Conn), NEW c \in DOMAIN conns, NEW r \in Conn,
         conns' = [conns EXCEPT ![c] = r]
  PROVE  /\ conns' \in Seq(Conn) /\ DOMAIN conns' = DOMAIN conns /\ conns'[c] = r
         /\ \A d \in DOMAIN conns : d # c => conns'[d] = conns[d]
<1> HIDE DEF Conn
<1> QED  BY ExceptFacts

LEMMA ConnFields ==
  ASSUME conns \in Seq(Conn), NEW c \in DOMAIN conns
  PROVE  /\ conns[c] \in Conn
         /\ conns[c].up \in Seq(Command) /\ conns[c].down \in Seq(Opened)
         /\ [conns[c] EXCEPT !.state = "open"] \in Conn
         /\ \A u \in Seq(Command) : [conns[c] EXCEPT !.up = u] \in Conn
         /\ \A d \in Seq(Opened) : [conns[c] EXCEPT !.down = d] \in Conn
         /\ \A u \in Seq(Command) :
              [conns[c] EXCEPT !.heard = FALSE, !.down = <<>>, !.up = u] \in Conn
<1>1. conns[c] \in Conn
  <2> HIDE DEF Conn
  <2> QED  BY SeqFacts
<1>2. <<>> \in Seq(Opened)
  OBVIOUS
<1> HIDE DEF Command, Opened
<1> QED  BY <1>1, <1>2 DEF Conn

\* The answers go out to all WebSockets and change nothing else about them.
LEMMA InformFacts ==
  ASSUME NEW cs \in Seq(Conn), NEW idx \in Nat, NEW port \in Nat
  PROVE  /\ Inform(cs, idx, port) \in Seq(Conn)
         /\ DOMAIN Inform(cs, idx, port) = DOMAIN cs
         /\ \A c \in DOMAIN cs : /\ Inform(cs, idx, port)[c].key = cs[c].key
                                 /\ Inform(cs, idx, port)[c].heard = cs[c].heard
<1> DEFINE f == Inform(cs, idx, port)
           e == [idx |-> idx, port |-> port]
<1>1. ASSUME NEW c \in DOMAIN cs
      PROVE  f[c] \in Conn /\ f[c].key = cs[c].key /\ f[c].heard = cs[c].heard
  <2>1. cs[c] \in Conn
    <3> HIDE DEF Conn
    <3> QED  BY SeqFacts
  <2>2. e \in Opened
    BY DEF Opened
  <2>3. f[c] = cs[c] \/ f[c] = [cs[c] EXCEPT !.down = Append(cs[c].down, e)]
    BY DEF Inform
  <2>4. Append(cs[c].down, e) \in Seq(Opened)
    <3>1. cs[c].down \in Seq(Opened)
      BY <2>1 DEF Conn
    <3> QED  BY <2>2, <3>1, AppendFacts
  <2> HIDE DEF f, e
  <2>5. ASSUME NEW d \in Seq(Opened)
        PROVE  LET r == [cs[c] EXCEPT !.down = d]
               IN  r \in Conn /\ r.key = cs[c].key /\ r.heard = cs[c].heard
    <3> HIDE DEF Opened, Command
    <3> QED  BY <2>1 DEF Conn
  <2> QED  BY <2>1, <2>3, <2>4, <2>5
<1>2. DOMAIN f = DOMAIN cs /\ f = [c \in DOMAIN cs |-> f[c]]
  BY DEF Inform
<1>3. f \in Seq(Conn)
  <2> HIDE DEF f, Conn
  <2> QED  BY <1>1, <1>2, MapFacts
<1> QED  BY <1>1, <1>2, <1>3

LEMMA AddViewStep == ASSUME ConsoleInv, NEW k0 \in Key, AddView(k0) PROVE ConsoleInv'
<1> DEFINE r == NewConn(k0)
           a == [key |-> k0, idx |-> MapCount(views), conn |-> Len(conns')]
<1> USE DEF ConsoleInv
<1>1. conns \in Seq(Conn) /\ adding \in Seq(Call) /\ IsMap(views, Key, View)
  BY DEF ConsoleTypes
<1>2. /\ conns' = Append(conns, r) /\ adding' = Append(adding, a) /\ UNCHANGED views
      /\ orderly' \in BOOLEAN
  BY DEF AddView
<1>3. r \in Conn /\ r.key = k0 /\ r.heard
  BY DEF NewConn, Conn
<1>4. /\ conns' \in Seq(Conn) /\ Len(conns') = Len(conns) + 1
      /\ DOMAIN conns' = 1..(Len(conns) + 1) /\ DOMAIN conns = 1..Len(conns)
      /\ Len(conns) \in Nat
      /\ \A c \in DOMAIN conns : conns'[c] = conns[c]
      /\ conns'[Len(conns) + 1] = r
  <2> HIDE DEF Conn, r
  <2> QED  BY <1>1, <1>2, <1>3, AppendFacts
<1>5. a \in Call /\ a.conn = Len(conns) + 1 /\ a.key = k0
  <2>1. MapCount(views) \in Nat
    BY <1>1, FS_CardinalityType DEF IsMap, MapCount
  <2> QED  BY <1>4, <2>1 DEF Call
<1> HIDE DEF a, r
<1>6. /\ adding' \in Seq(Call) /\ DOMAIN adding' = 1..(Len(adding) + 1)
      /\ DOMAIN adding = 1..Len(adding) /\ Len(adding) \in Nat
      /\ \A i \in DOMAIN adding : adding'[i] = adding[i]
      /\ adding'[Len(adding) + 1] = a
  <2> HIDE DEF Call
  <2> QED  BY <1>1, <1>2, <1>5, AppendFacts
<1>7. ConsoleTypes'
  BY <1>1, <1>2, <1>4, <1>6 DEF ConsoleTypes
<1>8. \A k \in DOMAIN views : views[k].conn \in DOMAIN conns
  BY DEF ViewInv
<1>9. \A i \in DOMAIN adding : adding[i].conn \in DOMAIN conns
  BY DEF ViewInv
<1>10. \A i \in DOMAIN adding' : i \in DOMAIN adding \/ (i = Len(adding) + 1 /\ adding'[i] = a)
  BY <1>6
<1>11. ViewInv'
  <2>1. \A k \in DOMAIN views' :
          /\ views'[k].conn \in DOMAIN conns'
          /\ conns'[views'[k].conn].key = k /\ conns'[views'[k].conn].heard
    BY <1>2, <1>4 DEF ViewInv
  <2>2. ASSUME NEW i \in DOMAIN adding'
        PROVE  /\ adding'[i].conn \in DOMAIN conns'
               /\ conns'[adding'[i].conn].key = adding'[i].key
               /\ conns'[adding'[i].conn].heard
               /\ \A k \in DOMAIN views' : views'[k].conn # adding'[i].conn
    <3>1. CASE i \in DOMAIN adding
      BY <1>2, <1>4, <1>6, <3>1 DEF ViewInv
    <3>2. CASE adding'[i] = a
      BY <1>2, <1>3, <1>4, <1>5, <1>8, <3>2
    <3> QED  BY <1>10, <3>1, <3>2
  <2>3. \A i, j \in DOMAIN adding' : adding'[i].conn = adding'[j].conn => i = j
    <3> SUFFICES ASSUME NEW i \in DOMAIN adding', NEW j \in DOMAIN adding',
                        adding'[i].conn = adding'[j].conn
                 PROVE  i = j
      OBVIOUS
    <3>1. CASE i \in DOMAIN adding /\ j \in DOMAIN adding
      BY <1>6, <3>1 DEF ViewInv
    <3>2. CASE i \notin DOMAIN adding \/ j \notin DOMAIN adding
      BY <1>4, <1>5, <1>6, <1>9, <1>10, <3>2
    <3> QED  BY <3>1, <3>2
  <2> QED  BY <2>1, <2>2, <2>3 DEF ViewInv
<1> QED  BY <1>7, <1>11

LEMMA ConnectedStep ==
  ASSUME ConsoleInv, NEW c \in DOMAIN conns, Connected(c) PROVE ConsoleInv'
<1> DEFINE r == [conns[c] EXCEPT !.state = "open"]
<1>1. conns' = [conns EXCEPT ![c] = r] /\ UNCHANGED consoleVars
  BY DEF Connected
<1>2. conns \in Seq(Conn)
  BY DEF ConsoleInv, ConsoleTypes
<1>3. r \in Conn /\ r.key = conns[c].key /\ r.heard = conns[c].heard
  BY <1>2, ConnFields DEF Conn
<1> HIDE DEF r
<1> QED  BY <1>1, <1>2, <1>3, OneConn, ConsoleFrame DEF consoleVars

\* The wait of a call ends: its WebSocket is now that of the view.
LEMMA FinishAddStep == ASSUME ConsoleInv, FinishAdd PROVE ConsoleInv'
<1> DEFINE n == Len(adding)
           a == adding[n]
           connected == conns[a.conn].state = "open"
           cmd == [what |-> "ADD", key |-> a.key, idx |-> a.idx]
           v == [port |-> 0, conn |-> a.conn, asked |-> connected]
<1> USE DEF ConsoleInv
<1>1. /\ conns \in Seq(Conn) /\ adding \in Seq(Call) /\ IsMap(views, Key, View)
      /\ orderly \in BOOLEAN
  BY DEF ConsoleTypes
<1>2. n \in DOMAIN adding /\ n \in Nat /\ DOMAIN adding = 1..n /\ a \in Call
  <2>1. adding # <<>>
    BY DEF FinishAdd
  <2> HIDE DEF Call
  <2> QED  BY <1>1, <2>1
<1>3. /\ a.conn \in DOMAIN conns /\ a.key \in Key /\ a.idx \in Nat
      /\ conns[a.conn].key = a.key /\ conns[a.conn].heard
      /\ \A k \in DOMAIN views : views[k].conn # a.conn
  BY <1>2 DEF ViewInv, Call
<1>4. /\ conns' \in Seq(Conn) /\ DOMAIN conns' = DOMAIN conns
      /\ \A c \in DOMAIN conns : conns'[c].key = conns[c].key /\ conns'[c].heard = conns[c].heard
  <2>1. CASE conns' = conns
    BY <1>1, <2>1
  <2>2. CASE conns' = [conns EXCEPT ![a.conn].up = Append(@, cmd)]
    <3> DEFINE u == Append(conns[a.conn].up, cmd)
               r == [conns[a.conn] EXCEPT !.up = u]
    <3>1. conns' = [conns EXCEPT ![a.conn] = r]
      BY <2>2
    <3>2. u \in Seq(Command)
      <4>1. cmd \in Command /\ conns[a.conn].up \in Seq(Command)
        BY <1>1, <1>3, ConnFields DEF Command
      <4> HIDE DEF Command, cmd
      <4> QED  BY <4>1
    <3>3. r \in Conn /\ r.key = conns[a.conn].key /\ r.heard = conns[a.conn].heard
      <4> HIDE DEF u
      <4> QED  BY <1>1, <1>3, <3>2, ConnFields DEF Conn
    <3> HIDE DEF a, r
    <3> QED  BY <1>1, <1>3, <3>1, <3>3, OneConn
  <2> QED  BY <2>1, <2>2 DEF FinishAdd
<1>5. /\ adding' \in Seq(Call) /\ DOMAIN adding' = 1..(n - 1)
      /\ \A i \in DOMAIN adding' : i \in DOMAIN adding /\ i # n /\ adding'[i] = adding[i]
  <2>1. adding' = SubSeq(adding, 1, n - 1)
    BY DEF FinishAdd
  <2> HIDE DEF Call
  <2> QED  BY <1>1, <1>2, <2>1
<1>6. /\ DOMAIN views' = DOMAIN views \cup {a.key}
      /\ views'[a.key] = v
      /\ \A k \in DOMAIN views : k # a.key => views'[k] = views[k]
      /\ orderly' \in BOOLEAN
  BY <1>1 DEF FinishAdd, MapInsert
<1>7. v \in View /\ v.conn = a.conn
  BY <1>3, <1>2 DEF View, Call
<1>8. IsMap(views', Key, View)
  <2>1. IsFiniteSet(DOMAIN views')
    <3>1. IsFiniteSet(DOMAIN views)
      BY <1>1 DEF IsMap
    <3>2. \A x : IsFiniteSet(DOMAIN views \cup {x})
      BY <3>1, FS_AddElement
    <3> QED  BY <1>6, <3>2
  <2> HIDE DEF a, v
  <2> QED  BY <1>1, <1>3, <1>6, <1>7, <2>1 DEF IsMap
<1>9. ConsoleTypes'
  BY <1>4, <1>5, <1>6, <1>8 DEF ConsoleTypes
<1>10. ViewInv'
  <2> HIDE DEF v, a
  <2>1. ASSUME NEW k \in DOMAIN views'
        PROVE  /\ views'[k].conn \in DOMAIN conns'
               /\ conns'[views'[k].conn].key = k /\ conns'[views'[k].conn].heard
               /\ \/ k = a.key /\ views'[k].conn = a.conn
                  \/ k \in DOMAIN views /\ views'[k] = views[k]
    <3>1. CASE k = a.key
      BY <1>3, <1>4, <1>6, <1>7, <3>1
    <3>2. CASE k # a.key
      BY <1>4, <1>6, <3>2 DEF ViewInv
    <3> QED  BY <3>1, <3>2
  <2>2. ASSUME NEW i \in DOMAIN adding'
        PROVE  /\ adding'[i].conn \in DOMAIN conns'
               /\ conns'[adding'[i].conn].key = adding'[i].key
               /\ conns'[adding'[i].conn].heard
               /\ \A k \in DOMAIN views' : views'[k].conn # adding'[i].conn
    <3>1. i \in DOMAIN adding /\ i # n /\ adding'[i] = adding[i]
      BY <1>5
    <3>2. adding[i].conn # a.conn
      BY <1>2, <3>1 DEF ViewInv, a
    <3> QED  BY <1>4, <2>1, <3>1, <3>2 DEF ViewInv
  <2>3. \A i, j \in DOMAIN adding' : adding'[i].conn = adding'[j].conn => i = j
    BY <1>5 DEF ViewInv
  <2> QED  BY <2>1, <2>2, <2>3 DEF ViewInv
<1> QED  BY <1>9, <1>10

\* A view is closed: nobody listens to its WebSocket any more.
LEMMA CloseViewStep == ASSUME ConsoleInv, NEW k0 \in Key, CloseView(k0) PROVE ConsoleInv'
<1> DEFINE c == views[k0].conn
           cmd == [what |-> "DEL", key |-> k0, idx |-> 0]
           u == IF conns[c].state = "open" THEN Append(conns[c].up, cmd) ELSE conns[c].up
           r == [conns[c] EXCEPT !.heard = FALSE, !.down = <<>>, !.up = u]
<1> USE DEF ConsoleInv
<1>1. /\ conns \in Seq(Conn) /\ adding \in Seq(Call) /\ IsMap(views, Key, View)
      /\ k0 \in DOMAIN views /\ c \in DOMAIN conns
  BY DEF ConsoleTypes, ViewInv, CloseView
<1>2. conns' = [conns EXCEPT ![c] = r]
  <2>1. CASE conns[c].state = "open"
    BY <1>1, <2>1 DEF CloseView
  <2>2. CASE conns[c].state # "open"
    BY <1>1, <2>2 DEF CloseView
  <2> QED  BY <2>1, <2>2
<1>3. u \in Seq(Command)
  <2>1. cmd \in Command /\ conns[c].up \in Seq(Command)
    BY <1>1, ConnFields DEF Command
  <2> HIDE DEF Command, cmd
  <2> QED  BY <2>1
<1>4. r \in Conn /\ r.key = conns[c].key
  <2>1. ASSUME NEW w \in Seq(Command)
        PROVE  LET x == [conns[c] EXCEPT !.heard = FALSE, !.down = <<>>, !.up = w]
               IN  x \in Conn /\ x.key = conns[c].key
    <3>1. [conns[c] EXCEPT !.heard = FALSE, !.down = <<>>, !.up = w] \in Conn
      BY <1>1, <2>1, ConnFields
    <3>2. conns[c] \in Conn
      BY <1>1, ConnFields
    <3> HIDE DEF c
    <3> QED  BY <3>1, <3>2 DEF Conn
  <2> HIDE DEF u
  <2> QED  BY <1>3, <2>1
<1> HIDE DEF r
<1>5. /\ conns' \in Seq(Conn) /\ DOMAIN conns' = DOMAIN conns
      /\ \A d \in DOMAIN conns : d # c => conns'[d] = conns[d]
  BY <1>1, <1>2, <1>4, OneConn
<1>6. /\ DOMAIN views' = DOMAIN views \ {k0}
      /\ \A k \in DOMAIN views' : views'[k] = views[k]
      /\ orderly' \in BOOLEAN /\ UNCHANGED adding
  BY DEF CloseView, MapRemove
<1>7. IsMap(views', Key, View)
  <2>1. IsFiniteSet(DOMAIN views')
    BY <1>1, <1>6, FS_RemoveElement DEF IsMap
  <2> QED  BY <1>1, <1>6, <2>1 DEF IsMap
<1>8. ConsoleTypes'
  BY <1>1, <1>5, <1>6, <1>7 DEF ConsoleTypes
<1>9. ViewInv'
  <2>1. \A k \in DOMAIN views' :
          /\ views'[k].conn \in DOMAIN conns'
          /\ conns'[views'[k].conn].key = k /\ conns'[views'[k].conn].heard
    <3> TAKE k \in DOMAIN views'
    <3>1. views[k].conn # c
      BY <1>1, <1>6 DEF ViewInv
    <3> QED  BY <1>5, <1>6, <3>1 DEF ViewInv
  <2>2. \A i \in DOMAIN adding :
       /\ adding[i].conn \in DOMAIN conns'
       /\ conns'[adding[i].conn].key = adding[i].key /\ conns'[adding[i].conn].heard
       /\ \A k \in DOMAIN views' : views'[k].conn # adding[i].conn
    BY <1>1, <1>5, <1>6 DEF ViewInv
  <2> QED  BY <1>6, <2>1, <2>2 DEF ViewInv
<1> QED  BY <1>8, <1>9

\* A view is told a port.
LEMMA OnOpenedStep ==
  ASSUME ConsoleInv, NEW c \in DOMAIN conns, OnOpened(c) PROVE ConsoleInv'
<1> DEFINE m == Head(conns[c].down)
           r == [conns[c] EXCEPT !.down = Tail(conns[c].down)]
<1> USE DEF ConsoleInv
<1>1. conns \in Seq(Conn) /\ IsMap(views, Key, View)
  BY DEF ConsoleTypes
<1>2. conns[c].down \in Seq(Opened) /\ conns[c].down # <<>> /\ conns' = [conns EXCEPT ![c] = r]
  BY <1>1, ConnFields DEF OnOpened
<1>3. m \in Opened /\ Tail(conns[c].down) \in Seq(Opened)
  <2> HIDE DEF Opened
  <2> QED  BY <1>2, TailFacts
<1>4. r \in Conn /\ r.key = conns[c].key /\ r.heard = conns[c].heard
  <2>1. ASSUME NEW d \in Seq(Opened)
        PROVE  LET x == [conns[c] EXCEPT !.down = d]
               IN  x \in Conn /\ x.key = conns[c].key /\ x.heard = conns[c].heard
    BY <1>1, <2>1, ConnFields DEF Conn
  <2> QED  BY <1>3, <2>1
<1> HIDE DEF r
<1>5. /\ conns' \in Seq(Conn) /\ DOMAIN conns' = DOMAIN conns
      /\ \A d \in DOMAIN conns : conns'[d].key = conns[d].key /\ conns'[d].heard = conns[d].heard
  BY <1>1, <1>2, <1>4, OneConn
<1>6. /\ DOMAIN views' = DOMAIN views /\ UNCHANGED <<adding, orderly>>
      /\ \A k \in DOMAIN views :
           views'[k] = IF IsAt(k, m.idx) THEN [views[k] EXCEPT !.port = m.port] ELSE views[k]
  BY DEF OnOpened
<1>7. \A k \in DOMAIN views : views'[k] \in View /\ views'[k].conn = views[k].conn
  <2> TAKE k \in DOMAIN views
  <2>1. views[k] \in View /\ m.port \in Nat
    BY <1>1, <1>3 DEF IsMap, Opened
  <2> HIDE DEF m
  <2> QED  BY <1>6, <2>1 DEF View
<1>8. ConsoleTypes'
  BY <1>1, <1>5, <1>6, <1>7 DEF ConsoleTypes, IsMap
<1>9. ViewInv'
  BY <1>5, <1>6, <1>7 DEF ViewInv
<1> QED  BY <1>8, <1>9

\* The daemon reads a command: what the WebSockets look like then.
ReadFrom(c) == [conns EXCEPT ![c].up = Tail(@)]

LEMMA ReadFacts ==
  ASSUME conns \in Seq(Conn), NEW c \in DOMAIN conns, conns[c].up # <<>>
  PROVE  /\ Head(conns[c].up) \in Command
         /\ ReadFrom(c) \in Seq(Conn) /\ DOMAIN ReadFrom(c) = DOMAIN conns
         /\ \A d \in DOMAIN conns : /\ ReadFrom(c)[d].key = conns[d].key
                                    /\ ReadFrom(c)[d].heard = conns[d].heard
<1>1. conns[c] \in Conn /\ conns[c].up \in Seq(Command)
  BY ConnFields
<1>2. Head(conns[c].up) \in Command /\ Tail(conns[c].up) \in Seq(Command)
  <2> HIDE DEF Command
  <2> QED  BY <1>1, TailFacts
<1> DEFINE r == [conns[c] EXCEPT !.up = Tail(conns[c].up)]
<1>3. r \in Conn /\ r.key = conns[c].key /\ r.heard = conns[c].heard
  <2>1. ASSUME NEW w \in Seq(Command)
        PROVE  LET x == [conns[c] EXCEPT !.up = w]
               IN  x \in Conn /\ x.key = conns[c].key /\ x.heard = conns[c].heard
    BY <1>1, <2>1, ConnFields DEF Conn
  <2> QED  BY <1>2, <2>1
<1>4. ReadFrom(c) = [conns EXCEPT ![c] = r]
  BY DEF ReadFrom
<1>5. /\ [conns EXCEPT ![c] = r] \in Seq(Conn) /\ DOMAIN [conns EXCEPT ![c] = r] = DOMAIN conns
      /\ [conns EXCEPT ![c] = r][c] = r
      /\ \A d \in DOMAIN conns : d # c => [conns EXCEPT ![c] = r][d] = conns[d]
  <2> HIDE DEF r, Conn
  <2> QED  BY <1>3, ExceptFacts
<1> HIDE DEF r
<1> QED  BY <1>2, <1>3, <1>4, <1>5

\* What a task is made of.
LEMMA TaskFields ==
  ASSUME DaemonTypes, NEW n \in DOMAIN tasks
  PROVE  /\ tasks[n] \in Task /\ n \in Nat \ {0} /\ n <= Len(tasks)
         /\ tasks[n].idx \in Nat /\ tasks[n].port \in Nat /\ tasks[n].key \in Key
<1>1. tasks[n] \in Task /\ n \in Nat \ {0} /\ n <= Len(tasks)
  <2>1. tasks \in Seq(Task)
    BY DEF DaemonTypes
  <2> HIDE DEF Task
  <2> QED  BY <2>1
<1> QED  BY <1>1 DEF Task

LEMMA RegisteredTask ==
  ASSUME DaemonTypes, NEW k \in DOMAIN registry
  PROVE  registry[k] \in DOMAIN tasks /\ tasks[registry[k]].key = k /\ k \in Key
BY DEF DaemonTypes, IsMap

\* A command and its answer leave the views as they are.
LEMMA CommandConns ==
  ASSUME DaemonTypes, ConsoleInv, NEW c \in DOMAIN conns, OnCommand(c) PROVE ConsoleInv'
<1> DEFINE cmd == Head(conns[c].up)
           cs == ReadFrom(c)
<1>1. conns \in Seq(Conn) /\ conns[c].up # <<>> /\ UNCHANGED <<views, adding, orderly>>
  BY DEF ConsoleInv, ConsoleTypes, OnCommand, consoleVars
<1>2. /\ cmd \in Command /\ cs \in Seq(Conn) /\ DOMAIN cs = DOMAIN conns
      /\ \A d \in DOMAIN conns : cs[d].key = conns[d].key /\ cs[d].heard = conns[d].heard
  BY <1>1, ReadFacts
<1>3. \/ conns' = cs
      \/ cmd.key \in DOMAIN registry /\ conns' = Inform(cs, cmd.idx, tasks[registry[cmd.key]].port)
  BY Zenon DEF OnCommand, OnAddNew, OnAddAgain, OnDel, ReadFrom
<1>4. CASE conns' = cs
  BY <1>1, <1>2, <1>4, ConsoleFrame
<1>5. CASE cmd.key \in DOMAIN registry
           /\ conns' = Inform(cs, cmd.idx, tasks[registry[cmd.key]].port)
  <2>1. cmd.idx \in Nat /\ tasks[registry[cmd.key]].port \in Nat
    BY <1>2, <1>5, RegisteredTask, TaskFields DEF Command
  <2> HIDE DEF cs, cmd
  <2>2. /\ conns' \in Seq(Conn) /\ DOMAIN conns' = DOMAIN cs
        /\ \A d \in DOMAIN cs : conns'[d].key = cs[d].key /\ conns'[d].heard = cs[d].heard
    BY <1>2, <1>5, <2>1, InformFacts, SMTT(30)
  <2> QED  BY <1>1, <1>2, <2>2, ConsoleFrame
<1> QED  BY <1>3, <1>4, <1>5

\* A posted call may tell the views of a port.
LEMMA PostedConns == ASSUME DaemonTypes, ConsoleInv, RunPosted PROVE ConsoleInv'
<1> DEFINE n == Head(posted)[2]
<1>1. conns \in Seq(Conn) /\ UNCHANGED <<views, adding, orderly>>
  BY DEF ConsoleInv, ConsoleTypes, RunPosted, consoleVars
<1>2. n \in DOMAIN tasks
  BY DEF DaemonTypes, RunPosted
<1>3. conns' = conns \/ conns' = Inform(conns, tasks[n].idx, tasks[n].port)
  BY DEF RunPosted, TaskInit, DevInit, TcpInit
<1>4. CASE conns' = conns
  BY <1>1, <1>4, ConsoleFrame
<1>5. CASE conns' = Inform(conns, tasks[n].idx, tasks[n].port)
  <2>1. tasks[n].idx \in Nat /\ tasks[n].port \in Nat
    BY <1>2, TaskFields
  <2> HIDE DEF n
  <2>2. /\ conns' \in Seq(Conn) /\ DOMAIN conns' = DOMAIN conns
        /\ \A d \in DOMAIN conns : conns'[d].key = conns[d].key /\ conns'[d].heard = conns[d].heard
    BY <1>1, <1>5, <2>1, InformFacts, ZenonT(30)
  <2> QED  BY <1>1, <2>2, ConsoleFrame
<1> QED  BY <1>3, <1>4, <1>5

\* Every step keeps the views at their WebSockets.
LEMMA NextConsole == ASSUME DaemonTypes, ConsoleInv, [Next]_vars PROVE ConsoleInv'
<1>1. ASSUME UNCHANGED <<conns, consoleVars>> PROVE ConsoleInv'
  BY <1>1, ConsoleFrame DEF ConsoleInv, ConsoleTypes, consoleVars
<1>2. CASE \E k \in Key : AddView(k) \/ CloseView(k)
  BY <1>2, AddViewStep, CloseViewStep
<1>3. CASE FinishAdd \/ RunPosted
  BY <1>3, FinishAddStep, PostedConns
<1>4. CASE \E c \in DOMAIN conns : Connected(c) \/ OnOpened(c) \/ OnCommand(c)
  BY <1>4, ConnectedStep, OnOpenedStep, CommandConns
<1>5. CASE \E n \in DOMAIN tasks : Shell(n)
  BY <1>1, <1>5 DEF Shell
<1>6. CASE UNCHANGED vars
  BY <1>1, <1>6 DEF vars, consoleVars
<1> QED  BY <1>2, <1>3, <1>4, <1>5, <1>6 DEF Next

-----------------------------------------------------------------------------
(* The daemon.                                                             *)
\* A call is posted, or the first one is run.
LEMMA PushFacts ==
  ASSUME NEW s \in Seq(Post), NEW e \in Post, Once(s), e[1] = "dev" \/ ~In(e, s)
  PROVE  /\ Append(s, e) \in Seq(Post) /\ Once(Append(s, e))
         /\ \A x : In(x, Append(s, e)) <=> In(x, s) \/ x = e
<1>1. /\ Append(s, e) \in Seq(Post)
      /\ \A i \in DOMAIN s : i \in DOMAIN Append(s, e) /\ Append(s, e)[i] = s[i]
      /\ Len(s) + 1 \in DOMAIN Append(s, e) /\ Append(s, e)[Len(s) + 1] = e
      /\ \A i \in DOMAIN Append(s, e) : i \in DOMAIN s \/ i = Len(s) + 1
  <2> HIDE DEF Post
  <2> QED  BY AppendFacts
<1>2. Once(Append(s, e))
  BY <1>1 DEF Once, In
<1> QED  BY <1>1, <1>2 DEF In

LEMMA PopFacts ==
  ASSUME NEW s \in Seq(Post), s # <<>>, Once(s)
  PROVE  /\ Tail(s) \in Seq(Post) /\ Once(Tail(s)) /\ Head(s) \in Post /\ In(Head(s), s)
         /\ \A x : In(x, Tail(s)) => In(x, s)
         /\ Head(s)[1] \in {"task", "tcp"} => ~In(Head(s), Tail(s))
<1>1. /\ Tail(s) \in Seq(Post) /\ Head(s) \in Post /\ Head(s) = s[1] /\ 1 \in DOMAIN s
      /\ \A i \in DOMAIN Tail(s) : i + 1 \in DOMAIN s /\ Tail(s)[i] = s[i + 1]
                                   /\ i \in Nat /\ i + 1 # 1
  <2> HIDE DEF Post
  <2> QED  BY TailFacts
<1>2. Once(Tail(s))
  <2> SUFFICES ASSUME NEW i \in DOMAIN Tail(s), NEW j \in DOMAIN Tail(s),
                      Tail(s)[i] = Tail(s)[j], Tail(s)[i][1] \in {"task", "tcp"}
               PROVE  i = j
    BY DEF Once
  <2>1. i + 1 = j + 1
    BY <1>1 DEF Once
  <2> QED  BY <1>1, <2>1
<1> QED  BY <1>1, <1>2 DEF Once, In

\* Whoever awaits a call is in the queue.
LEMMA AwaitsFacts ==
  ASSUME posted \in Seq(Post)
  PROVE  \A n : Awaits(n) <=> Posted("task", n) \/ Posted("dev", n) \/ Posted("tcp", n)
<1>1. \A i \in DOMAIN posted : posted[i] \in Post
  <2> HIDE DEF Post
  <2> QED  BY SeqFacts
<1>2. \A i \in DOMAIN posted : /\ posted[i] = <<posted[i][1], posted[i][2]>>
                               /\ posted[i][1] \in {"task", "dev", "tcp"}
  BY <1>1 DEF Post
<1> QED  BY <1>2 DEF Awaits, Posted, In

\* One task is changed.
LEMMA OneTask ==
  ASSUME tasks \in Seq(Task), NEW n \in DOMAIN tasks, NEW t \in Task,
         tasks' = [tasks EXCEPT ![n] = t]
  PROVE  /\ tasks' \in Seq(Task) /\ DOMAIN tasks' = DOMAIN tasks /\ Len(tasks') = Len(tasks)
         /\ tasks'[n] = t /\ \A m \in DOMAIN tasks : m # n => tasks'[m] = tasks[m]
<1> HIDE DEF Task
<1> QED  BY ExceptFacts

\* A step that leaves the tasks alone; up may change.
LEMMA DaemonFrame ==
  ASSUME DaemonInv, up' \in BOOLEAN, UNCHANGED <<kind, tasks, registry, posted, deleted, early>>
  PROVE  DaemonInv'
BY DEF DaemonInv, DaemonTypes, PostedInv, PortInv, HomeInv, Posted, Awaits

\* A step that changes one task, but neither its key nor its port, and after
\* which it only listens or waits if it did before or is registered.
LEMMA TaskFrame ==
  ASSUME DaemonInv, NEW n \in DOMAIN tasks, NEW t \in Task, tasks' = [tasks EXCEPT ![n] = t],
         t.key = tasks[n].key, t.port = tasks[n].port,
         UNCHANGED <<kind, up, registry, deleted, early>>,
         posted' \in Seq(Post), \A i \in DOMAIN posted' : posted'[i][2] \in DOMAIN tasks,
         PostedInv',
         ~deleted => t.tcp # "failed",
         \A m \in DOMAIN tasks : m # n => (Awaits(m)' => Awaits(m)),
         ~early /\ (t.tcp = "listening" \/ Awaits(n)') =>
           tasks[n].key \in DOMAIN registry /\ registry[tasks[n].key] = n
  PROVE  DaemonInv'
<1>1. tasks \in Seq(Task)
  BY DEF DaemonInv, DaemonTypes
<1>2. /\ tasks' \in Seq(Task) /\ DOMAIN tasks' = DOMAIN tasks /\ Len(tasks') = Len(tasks)
      /\ tasks'[n] = t /\ \A m \in DOMAIN tasks : m # n => tasks'[m] = tasks[m]
  BY <1>1, OneTask
<1>3. \A m \in DOMAIN tasks : tasks'[m].key = tasks[m].key /\ tasks'[m].port = tasks[m].port
  BY <1>2
<1>4. DaemonTypes'
  BY <1>2, <1>3 DEF DaemonInv, DaemonTypes, IsMap
<1>5. PortInv'
  BY <1>2, <1>3 DEF DaemonInv, PortInv
<1>6. HomeInv'
  BY <1>2, <1>3 DEF DaemonInv, HomeInv
<1> QED  BY <1>4, <1>5, <1>6 DEF DaemonInv

\* What is left of a task that closes.
LEMMA CloseFacts ==
  ASSUME NEW t \in Task
  PROVE  /\ Close(t) \in Task /\ Close(t).key = t.key /\ Close(t).port = t.port
         /\ Close(t).tcp # "listening"
         /\ Close(t).tcp = "failed" <=> t.tcp = "failed"
         /\ t.tcp # "listening" => Close(t).tcp = t.tcp
         /\ t.tcp = "listening" => Close(t).tcp = "shut"
BY DEF Close, Task

\* The queue as the invariant has it.
LEMMA QueueFacts ==
  ASSUME DaemonInv
  PROVE  /\ posted \in Seq(Post) /\ Once(posted)
         /\ \A i \in DOMAIN posted : posted[i][2] \in DOMAIN tasks
         /\ \A what, n : Posted(what, n) => n \in DOMAIN tasks
BY DEF DaemonInv, DaemonTypes, PostedInv, Posted, In

\* ADD of a device that has no task: the new one gets a port of its own.
LEMMA AddNewStep ==
  ASSUME DaemonInv, NEW cmd \in Command, NEW cs, OnAddNew(cmd, cs), UNCHANGED kind
  PROVE  DaemonInv'
<1> DEFINE t == [key |-> cmd.key, idx |-> cmd.idx, port |-> NextPort(cmd),
                 dev |-> "none", tcp |-> "none"]
           n == Len(tasks) + 1
           e == <<"task", n>>
<1>1. /\ tasks \in Seq(Task) /\ IsMap(registry, Key, DOMAIN tasks) /\ cmd.key \notin DOMAIN registry
      /\ UNCHANGED <<kind, up, deleted, early>>
  BY DEF DaemonInv, DaemonTypes, OnAddNew
<1>2. MapCount(registry) \in Nat
  BY <1>1, FS_CardinalityType DEF IsMap, MapCount
<1>3. t \in Task /\ cmd.key \in Key
  BY <1>2 DEF Task, Command, NextPort, Base
<1>4. /\ tasks' \in Seq(Task) /\ Len(tasks') = n /\ DOMAIN tasks' = 1..n
      /\ DOMAIN tasks = 1..Len(tasks) /\ Len(tasks) \in Nat
      /\ \A m \in DOMAIN tasks : tasks'[m] = tasks[m]
      /\ tasks'[n] = t
  <2>1. tasks' = Append(tasks, t)
    BY DEF OnAddNew
  <2> HIDE DEF Task, t
  <2> QED  BY <1>1, <1>3, <2>1, AppendFacts
<1>5. n \notin DOMAIN tasks /\ n \in Nat /\ \A m \in DOMAIN tasks' : m \in DOMAIN tasks \/ m = n
  BY <1>4
<1>6. /\ DOMAIN registry' = DOMAIN registry \cup {cmd.key} /\ registry'[cmd.key] = n
      /\ \A k \in DOMAIN registry : registry'[k] = registry[k]
  BY <1>1, <1>4 DEF OnAddNew, MapInsert
<1>7. posted' = Append(posted, e)
  BY <1>4 DEF OnAddNew
<1> HIDE DEF n
<1>8. /\ posted' \in Seq(Post) /\ Once(posted')
      /\ \A x : In(x, posted') <=> In(x, posted) \/ x = e
  <2>1. e \in Post /\ ~In(e, posted)
    BY <1>5, QueueFacts DEF Post, Posted
  <2> HIDE DEF e
  <2> QED  BY <1>7, <2>1, PushFacts, QueueFacts
<1>9. \A i \in DOMAIN posted' : posted'[i][2] \in DOMAIN tasks \/ posted'[i][2] = n
  <2> TAKE i \in DOMAIN posted'
  <2>1. In(posted'[i], posted) \/ posted'[i] = e
    BY <1>8 DEF In
  <2> QED  BY <2>1, QueueFacts DEF In
<1>10. DaemonTypes'
  <2>1. IsMap(registry', Key, DOMAIN tasks')
    <3>1. IsFiniteSet(DOMAIN registry \cup {cmd.key})
      BY <1>1, FS_AddElement DEF IsMap
    <3>2. DOMAIN registry' \subseteq Key
      BY <1>1, <1>3, <1>6 DEF IsMap
    <3>3. n \in DOMAIN tasks' /\ \A m \in DOMAIN tasks : m \in DOMAIN tasks'
      BY <1>4 DEF n
    <3>4. \A k \in DOMAIN registry : registry[k] \in DOMAIN tasks'
      BY <1>1, <3>3 DEF IsMap
    <3>5. \A k \in DOMAIN registry' : registry'[k] \in DOMAIN tasks'
      BY <1>6, <3>3, <3>4
    <3> QED  BY <1>6, <3>1, <3>2, <3>5 DEF IsMap
  <2>2. \A k \in DOMAIN registry' : tasks'[registry'[k]].key = k
    BY <1>1, <1>4, <1>6 DEF DaemonInv, DaemonTypes, IsMap
  <2>3. \A i \in DOMAIN posted' : posted'[i][2] \in DOMAIN tasks'
    BY <1>4, <1>9 DEF n
  <2> QED  BY <1>1, <1>4, <1>8, <2>1, <2>2, <2>3 DEF DaemonInv, DaemonTypes
<1>11. PostedInv'
  <2>1. ASSUME NEW m \in DOMAIN tasks'
        PROVE  /\ Posted("task", m)' => tasks'[m].tcp \in {"none", "shut"}
               /\ Posted("tcp", m)' => tasks'[m].tcp = "made"
    <3>1. CASE m = n
      <4>1. ~Posted("tcp", m)'
        BY <1>5, <1>8, <3>1, QueueFacts DEF Posted
      <4> QED  BY <1>4, <3>1, <4>1
    <3>2. CASE m \in DOMAIN tasks
      <4>1. (Posted("task", m)' <=> Posted("task", m)) /\ (Posted("tcp", m)' <=> Posted("tcp", m))
        <5>1. <<"task", m>> # e /\ <<"tcp", m>> # e
          BY <1>5, <3>2
        <5> HIDE DEF e
        <5> QED  BY <1>8, <5>1 DEF Posted
      <4> QED  BY <1>4, <3>2, <4>1 DEF DaemonInv, PostedInv
    <3> QED  BY <1>5, <3>1, <3>2
  <2> QED  BY <1>8, <2>1 DEF PostedInv
<1>12. PortInv'
  <2>1. MapCount(registry') = MapCount(registry) + 1
    BY <1>1, <1>6, FS_AddElement DEF IsMap, MapCount
  <2> QED  BY <1>1, <1>4, <1>5, <2>1 DEF DaemonInv, PortInv, NextPort, n
<1>13. HomeInv'
  <2> SUFFICES ASSUME ~early, NEW m \in DOMAIN tasks', tasks'[m].tcp = "listening" \/ Awaits(m)'
               PROVE  tasks'[m].key \in DOMAIN registry' /\ registry'[tasks'[m].key] = m
    BY <1>1 DEF HomeInv
  <2>1. CASE m = n
    BY <1>4, <1>6, <2>1
  <2>2. CASE m \in DOMAIN tasks
    <3>1. Awaits(m)' => Awaits(m)
      <4>1. \A i \in DOMAIN posted' : In(posted'[i], posted) \/ posted'[i] = e
        BY <1>8 DEF In
      <4> QED  BY <1>5, <2>2, <4>1 DEF Awaits, In
    <3> QED  BY <1>4, <1>6, <2>2, <3>1 DEF DaemonInv, HomeInv
  <2> QED  BY <1>5, <2>1, <2>2
<1> QED  BY <1>10, <1>11, <1>12, <1>13 DEF DaemonInv

\* ADD of a device whose task runs: it starts again.
LEMMA AddAgainStep ==
  ASSUME DaemonInv, NEW cmd \in Command, NEW cs, OnAddAgain(cmd, cs), UNCHANGED kind
  PROVE  DaemonInv'
<1> DEFINE n == registry[cmd.key]
           t == Close(tasks[n])
           e == <<"task", n>>
<1>1. n \in DOMAIN tasks /\ tasks[n].key = cmd.key /\ cmd.key \in DOMAIN registry
  BY RegisteredTask DEF OnAddAgain, DaemonInv
<1>2. tasks[n] \in Task /\ n \in Nat
  BY <1>1, TaskFields DEF DaemonInv
<1>3. CASE /\ IsRunning(tasks[n]) /\ tasks' = [tasks EXCEPT ![n] = t]
           /\ posted' = Append(posted, e) /\ UNCHANGED <<up, registry, deleted, early>>
  <2> HIDE DEF n
  <2>1. /\ t \in Task /\ t.key = tasks[n].key /\ t.port = tasks[n].port /\ t.tcp = "shut"
        /\ tasks[n].tcp = "listening"
    BY <1>2, <1>3, CloseFacts DEF IsRunning
  <2>2. ~Posted("task", n) /\ ~Posted("tcp", n)
    BY <1>1, <2>1 DEF DaemonInv, PostedInv
  <2>3. /\ posted' \in Seq(Post) /\ Once(posted')
        /\ \A x : In(x, posted') <=> In(x, posted) \/ x = e
    <3>1. e \in Post /\ ~In(e, posted)
      BY <1>2, <2>2 DEF Post, Posted
    <3> HIDE DEF e
    <3> QED  BY <1>3, <3>1, PushFacts, QueueFacts
  <2>4. \A i \in DOMAIN posted' : In(posted'[i], posted) \/ posted'[i] = e
    BY <2>3 DEF In
  <2>5. \A i \in DOMAIN posted' : posted'[i][2] \in DOMAIN tasks
    BY <1>1, <2>4, QueueFacts DEF In
  <2>6. \A m \in DOMAIN tasks : m # n => (Awaits(m)' => Awaits(m))
    BY <2>4 DEF Awaits, In
  <2> HIDE DEF t
  <2>7. tasks'[n] = t /\ DOMAIN tasks' = DOMAIN tasks
        /\ \A m \in DOMAIN tasks : m # n => tasks'[m] = tasks[m]
    BY <1>1, <1>3, <2>1, OneTask DEF DaemonInv, DaemonTypes
  <2>8. PostedInv'
    <3>1. ASSUME NEW m \in DOMAIN tasks
          PROVE  /\ Posted("task", m)' => tasks'[m].tcp \in {"none", "shut"}
                 /\ Posted("tcp", m)' => tasks'[m].tcp = "made"
      <4>1. CASE m = n
        BY <2>1, <2>2, <2>3, <2>7, <4>1 DEF Posted
      <4>2. CASE m # n
        BY <2>3, <2>7, <4>2 DEF Posted, DaemonInv, PostedInv
      <4> QED  BY <4>1, <4>2
    <3> QED  BY <2>3, <2>7, <3>1 DEF PostedInv
  <2>9. tasks[n].key \in DOMAIN registry /\ registry[tasks[n].key] = n
    BY <1>1 DEF n
  <2> QED  BY <1>1, <1>3, <2>1, <2>3, <2>5, <2>6, <2>8, <2>9, TaskFrame
<1>4. CASE UNCHANGED <<up, tasks, registry, posted, deleted, early>>
  BY <1>4, DaemonFrame DEF DaemonInv, DaemonTypes
<1>5. CASE Crash(tasks[n])
  BY <1>5, DaemonFrame DEF Crash
<1> QED  BY <1>3, <1>4, <1>5 DEF OnAddAgain

\* DEL: the task closes and leaves the registry.
LEMMA DelStep ==
  ASSUME DaemonInv, NEW cmd \in Command, NEW cs, OnDel(cmd, cs), UNCHANGED kind
  PROVE  DaemonInv'
<1> DEFINE n == registry[cmd.key]
           t == Close(tasks[n])
<1>1. CASE UNCHANGED <<up, tasks, registry, posted, deleted, early>>
  BY <1>1, DaemonFrame DEF DaemonInv, DaemonTypes
<1>2. CASE Crash(tasks[n])
  BY <1>2, DaemonFrame DEF Crash
<1>3. CASE /\ cmd.key \in DOMAIN registry
           /\ tasks' = [tasks EXCEPT ![n] = t] /\ registry' = MapRemove(registry, cmd.key)
           /\ deleted' = TRUE /\ early' = (early \/ Awaits(n)) /\ UNCHANGED <<up, posted>>
  <2>1. n \in DOMAIN tasks /\ tasks[n].key = cmd.key
    BY <1>3, RegisteredTask DEF DaemonInv
  <2>2. tasks[n] \in Task
    BY <2>1, TaskFields DEF DaemonInv
  <2>3. /\ t \in Task /\ t.key = tasks[n].key /\ t.tcp # "listening"
        /\ t.tcp = tasks[n].tcp \/ (tasks[n].tcp = "listening" /\ t.tcp = "shut")
    BY <2>2, CloseFacts
  <2>4. /\ DOMAIN registry' = DOMAIN registry \ {cmd.key}
        /\ \A k \in DOMAIN registry' : registry'[k] = registry[k]
    BY <1>3 DEF MapRemove
  <2> HIDE DEF t, n
  <2>5. /\ tasks' \in Seq(Task) /\ DOMAIN tasks' = DOMAIN tasks /\ tasks'[n] = t
        /\ \A m \in DOMAIN tasks : m # n => tasks'[m] = tasks[m]
    BY <1>3, <2>1, <2>3, OneTask DEF DaemonInv, DaemonTypes
  <2>6. DaemonTypes'
    <3>1. IsMap(registry', Key, DOMAIN tasks')
      <4>1. IsFiniteSet(DOMAIN registry \ {cmd.key})
        BY FS_RemoveElement DEF DaemonInv, DaemonTypes, IsMap
      <4> QED  BY <2>4, <2>5, <4>1 DEF DaemonInv, DaemonTypes, IsMap
    <3>2. \A k \in DOMAIN registry' : tasks'[registry'[k]].key = k
      BY <2>3, <2>4, <2>5, RegisteredTask DEF DaemonInv
    <3>3. early \in BOOLEAN /\ early' \in BOOLEAN
      BY <1>3 DEF DaemonInv, DaemonTypes
    <3> QED  BY <1>3, <2>5, <3>1, <3>2, <3>3 DEF DaemonInv, DaemonTypes
  <2>7. PostedInv'
    BY <1>3, <2>3, <2>5 DEF DaemonInv, PostedInv, Posted
  <2>8. PortInv'
    BY <1>3 DEF PortInv
  <2>9. HomeInv'
    <3> SUFFICES ASSUME ~early', NEW m \in DOMAIN tasks', tasks'[m].tcp = "listening" \/ Awaits(m)'
                 PROVE  tasks'[m].key \in DOMAIN registry' /\ registry'[tasks'[m].key] = m
      BY DEF HomeInv
    <3>1. ~early /\ ~Awaits(n) /\ (Awaits(m)' <=> Awaits(m))
      BY <1>3 DEF Awaits, DaemonInv, DaemonTypes
    <3>2. m # n
      BY <2>3, <2>5, <3>1
    <3>3. tasks[m].key \in DOMAIN registry /\ registry[tasks[m].key] = m
      BY <2>5, <3>1, <3>2 DEF DaemonInv, HomeInv
    <3>4. tasks[m].key # cmd.key
      BY <3>2, <3>3 DEF n
    <3> QED  BY <2>4, <2>5, <3>2, <3>3, <3>4
  <2> QED  BY <2>6, <2>7, <2>8, <2>9 DEF DaemonInv
<1> QED  BY <1>1, <1>2, <1>3 DEF OnDel

\* The first call of the queue is run for task n, which then is t; the calls
\* that it posts are of the same task.
LEMMA RunStep ==
  ASSUME DaemonInv, posted # <<>>, NEW n, n = Head(posted)[2], NEW t \in Task,
         tasks' = [tasks EXCEPT ![n] = t], t.key = tasks[n].key, t.port = tasks[n].port,
         UNCHANGED <<kind, up, registry, deleted, early>>,
         posted' \in Seq(Post), Once(posted'),
         \A x : In(x, posted') => In(x, Tail(posted)) \/ x = <<"dev", n>> \/ x = <<"tcp", n>>,
         Posted("task", n)' => t.tcp \in {"none", "shut"},
         Posted("tcp", n)' => t.tcp = "made",
         ~deleted => t.tcp # "failed"
  PROVE  DaemonInv'
<1>1. /\ Head(posted) \in Post /\ In(Head(posted), posted)
      /\ \A x : In(x, Tail(posted)) => In(x, posted)
  BY QueueFacts, PopFacts
<1>2. n \in DOMAIN tasks /\ Awaits(n)
  BY <1>1, QueueFacts DEF In, Awaits
<1>3. \A x : In(x, posted') => In(x, posted) \/ x = <<"dev", n>> \/ x = <<"tcp", n>>
  BY <1>1
<1>4. \A i \in DOMAIN posted' :
        In(posted'[i], posted) \/ posted'[i] = <<"dev", n>> \/ posted'[i] = <<"tcp", n>>
  BY <1>3 DEF In
<1>5. \A i \in DOMAIN posted' : posted'[i][2] \in DOMAIN tasks
  BY <1>2, <1>4, QueueFacts DEF In
<1>6. \A m \in DOMAIN tasks : m # n => (Awaits(m)' => Awaits(m))
  BY <1>4 DEF Awaits, In
<1>7. /\ DOMAIN tasks' = DOMAIN tasks /\ tasks'[n] = t
      /\ \A m \in DOMAIN tasks : m # n => tasks'[m] = tasks[m]
  BY <1>2, OneTask DEF DaemonInv, DaemonTypes
<1>8. PostedInv'
  <2>1. ASSUME NEW m \in DOMAIN tasks
        PROVE  /\ Posted("task", m)' => tasks'[m].tcp \in {"none", "shut"}
               /\ Posted("tcp", m)' => tasks'[m].tcp = "made"
    <3>1. CASE m = n
      BY <1>7, <3>1
    <3>2. CASE m # n
      <4>1. (Posted("task", m)' => Posted("task", m)) /\ (Posted("tcp", m)' => Posted("tcp", m))
        BY <1>3, <3>2 DEF Posted
      <4> QED  BY <1>7, <3>2, <4>1 DEF DaemonInv, PostedInv
    <3> QED  BY <3>1, <3>2
  <2> QED  BY <1>7, <2>1 DEF PostedInv
<1>9. ~early => tasks[n].key \in DOMAIN registry /\ registry[tasks[n].key] = n
  BY <1>2 DEF DaemonInv, HomeInv
<1> QED  BY <1>2, <1>5, <1>6, <1>8, <1>9, TaskFrame

LEMMA PostedStep == ASSUME DaemonInv, RunPosted PROVE DaemonInv'
<1>0. PICK n : n = Head(posted)[2]
  OBVIOUS
<1>1. posted # <<>> /\ UNCHANGED <<kind, up, registry, deleted, early>>
  BY DEF RunPosted
<1>2. posted \in Seq(Post) /\ Once(posted)
  BY QueueFacts
<1>3. /\ Tail(posted) \in Seq(Post) /\ Once(Tail(posted))
      /\ Head(posted) \in Post /\ In(Head(posted), posted)
      /\ \A x : In(x, Tail(posted)) => In(x, posted)
      /\ Head(posted)[1] \in {"task", "tcp"} => ~In(Head(posted), Tail(posted))
  BY <1>1, <1>2, PopFacts
<1>4. n \in DOMAIN tasks /\ n \in Nat /\ Head(posted) = <<Head(posted)[1], n>>
  BY <1>0, <1>3, QueueFacts DEF In, Post
<1>5. tasks[n] \in Task /\ tasks \in Seq(Task)
  BY <1>4, TaskFields DEF DaemonInv, DaemonTypes
<1>6. ~deleted => tasks[n].tcp # "failed"
  BY <1>4 DEF DaemonInv, PortInv
<1>7. CASE Head(posted)[1] = "task" /\ TaskInit(n)
  <2> DEFINE t == [tasks[n] EXCEPT !.dev = "made", !.tcp = "made"]
             d == <<"dev", n>>
             p == <<"tcp", n>>
  <2>1. Posted("task", n) /\ tasks[n].tcp \in {"none", "shut"}
    BY <1>3, <1>4, <1>7 DEF Posted, DaemonInv, PostedInv
  <2>2. ~In(p, Tail(posted)) /\ ~In(<<"task", n>>, Tail(posted))
    BY <1>3, <1>4, <1>7, <2>1 DEF Posted, DaemonInv, PostedInv
  <2>3. t \in Task /\ t.key = tasks[n].key /\ t.port = tasks[n].port /\ t.tcp = "made"
    BY <1>5 DEF Task
  <2>4. tasks' = [tasks EXCEPT ![n] = t] /\ posted' = Append(Append(Tail(posted), d), p)
    <3>1. Tail(posted) \o <<d, p>> = Append(Append(Tail(posted), d), p)
      <4> HIDE DEF d, p, Post
      <4> QED  BY <1>3
    <3> QED  BY <1>7, <3>1 DEF TaskInit
  <2>5. d \in Post /\ p \in Post /\ d[1] = "dev" /\ d # p /\ d # <<"task", n>> /\ p # <<"task", n>>
    BY <1>4 DEF Post
  <2> HIDE DEF d, p
  <2>6. /\ Append(Tail(posted), d) \in Seq(Post) /\ Once(Append(Tail(posted), d))
        /\ \A x : In(x, Append(Tail(posted), d)) <=> In(x, Tail(posted)) \/ x = d
    BY <1>3, <2>5, PushFacts
  <2>7. /\ posted' \in Seq(Post) /\ Once(posted')
        /\ \A x : In(x, posted') <=> In(x, Append(Tail(posted), d)) \/ x = p
    BY <2>2, <2>4, <2>5, <2>6, PushFacts
  <2>8. ~Posted("task", n)'
    BY <2>2, <2>5, <2>6, <2>7 DEF Posted
  <2>9. \A x : In(x, posted') => In(x, Tail(posted)) \/ x = <<"dev", n>> \/ x = <<"tcp", n>>
    BY <2>6, <2>7 DEF d, p
  <2> HIDE DEF t
  <2> QED  BY <1>0, <1>1, <2>3, <2>4, <2>7, <2>8, <2>9, RunStep
<1>8. CASE Head(posted)[1] = "dev" /\ DevInit(n)
  <2>1. PICK dev \in {"open", "shut", "trying"} : tasks' = [tasks EXCEPT ![n].dev = dev]
    BY <1>8 DEF DevInit
  <2> DEFINE t == [tasks[n] EXCEPT !.dev = dev]
  <2>2. /\ t \in Task /\ t.key = tasks[n].key /\ t.port = tasks[n].port /\ t.tcp = tasks[n].tcp
        /\ tasks' = [tasks EXCEPT ![n] = t] /\ posted' = Tail(posted)
    BY <1>5, <1>8, <2>1 DEF Task, DevInit
  <2>3. /\ Posted("task", n)' => t.tcp \in {"none", "shut"}
        /\ Posted("tcp", n)' => t.tcp = "made"
    <3>1. \A what : In(<<what, n>>, posted') => Posted(what, n)
      BY <1>3, <2>2 DEF Posted
    <3> HIDE DEF t
    <3> QED  BY <1>4, <2>2, <3>1 DEF Posted, DaemonInv, PostedInv
  <2> HIDE DEF t
  <2> QED  BY <1>0, <1>1, <1>3, <1>6, <2>2, <2>3, RunStep
<1>9. CASE Head(posted)[1] = "tcp" /\ TcpInit(n)
  <2> DEFINE taken == \E m \in DOMAIN tasks :
                        tasks[m].tcp = "listening" /\ tasks[m].port = tasks[n].port
             t == [tasks[n] EXCEPT !.tcp = IF taken THEN "failed" ELSE "listening"]
  <2>1. Posted("tcp", n) /\ tasks[n].tcp = "made"
    BY <1>3, <1>4, <1>9 DEF Posted, DaemonInv, PostedInv
  <2>2. ~In(<<"tcp", n>>, Tail(posted)) /\ ~In(<<"task", n>>, Tail(posted))
    BY <1>3, <1>4, <1>9, <2>1 DEF Posted, DaemonInv, PostedInv
  <2>3. ~deleted => ~taken
    <3> SUFFICES ASSUME ~deleted, NEW m \in DOMAIN tasks, tasks[m].tcp = "listening",
                        tasks[m].port = tasks[n].port
                 PROVE  FALSE
      OBVIOUS
    <3>1. Base + m - 1 = Base + n - 1 /\ m \in Nat
      BY <1>4, TaskFields DEF DaemonInv, PortInv
    <3> QED  BY <1>4, <2>1, <3>1 DEF Base
  <2>4. tasks' = [tasks EXCEPT ![n] = t] /\ posted' = Tail(posted)
    BY <1>9 DEF TcpInit
  <2> HIDE DEF taken
  <2>5. /\ t \in Task /\ t.key = tasks[n].key /\ t.port = tasks[n].port
        /\ taken \/ t.tcp # "failed"
    BY <1>5 DEF Task
  <2>6. ~Posted("task", n)' /\ ~Posted("tcp", n)'
    BY <2>2, <2>4 DEF Posted
  <2> HIDE DEF t
  <2> QED  BY <1>0, <1>1, <1>3, <2>3, <2>4, <2>5, <2>6, RunStep
<1> QED  BY <1>0, <1>7, <1>8, <1>9 DEF RunPosted

\* The remote shell starts or ends.
LEMMA ShellStep == ASSUME DaemonInv, NEW n \in DOMAIN tasks, Shell(n) PROVE DaemonInv'
<1>1. PICK dev \in {"open", "shut"} : tasks' = [tasks EXCEPT ![n].dev = dev]
  BY DEF Shell
<1> DEFINE t == [tasks[n] EXCEPT !.dev = dev]
<1>2. UNCHANGED <<kind, up, registry, posted, deleted, early>>
  BY DEF Shell
<1>3. /\ t \in Task /\ t.key = tasks[n].key /\ t.port = tasks[n].port /\ t.tcp = tasks[n].tcp
      /\ tasks' = [tasks EXCEPT ![n] = t]
  BY <1>1, TaskFields DEF Task, DaemonInv
<1> HIDE DEF t
<1>4. /\ DOMAIN tasks' = DOMAIN tasks /\ tasks'[n] = t
      /\ \A m \in DOMAIN tasks : m # n => tasks'[m] = tasks[m]
  BY <1>3, OneTask DEF DaemonInv, DaemonTypes
<1>5. PostedInv'
  BY <1>2, <1>3, <1>4 DEF DaemonInv, PostedInv, Posted
<1>6. ~early /\ (t.tcp = "listening" \/ Awaits(n)') =>
        tasks[n].key \in DOMAIN registry /\ registry[tasks[n].key] = n
  BY <1>2, <1>3 DEF DaemonInv, HomeInv, Awaits
<1>7. ~deleted => t.tcp # "failed"
  BY <1>3 DEF DaemonInv, PortInv
<1>8. \A m \in DOMAIN tasks : m # n => (Awaits(m)' => Awaits(m))
  BY <1>2 DEF Awaits
<1>9. posted' \in Seq(Post) /\ \A i \in DOMAIN posted' : posted'[i][2] \in DOMAIN tasks
  BY <1>2, QueueFacts
<1> QED  BY <1>2, <1>3, <1>5, <1>6, <1>7, <1>8, <1>9, TaskFrame

LEMMA NextDaemon == ASSUME DaemonInv, ConsoleTypes, [Next]_vars PROVE DaemonInv'
<1>1. ASSUME UNCHANGED daemonVars PROVE DaemonInv'
  BY <1>1, DaemonFrame DEF daemonVars, DaemonInv, DaemonTypes
<1>2. CASE \E k \in Key : AddView(k) \/ CloseView(k)
  BY <1>1, <1>2 DEF AddView, CloseView
<1>3. CASE FinishAdd
  BY <1>1, <1>3 DEF FinishAdd
<1>4. CASE RunPosted
  BY <1>4, PostedStep
<1>5. CASE \E c \in DOMAIN conns : Connected(c) \/ OnOpened(c)
  BY <1>1, <1>5 DEF Connected, OnOpened
<1>6. ASSUME NEW c \in DOMAIN conns, OnCommand(c) PROVE DaemonInv'
  <2> DEFINE cmd == Head(conns[c].up)
             cs == ReadFrom(c)
  <2>1. cmd \in Command
    BY <1>6, ReadFacts DEF ConsoleTypes, OnCommand
  <2>2. UNCHANGED kind /\ (OnAddNew(cmd, cs) \/ OnAddAgain(cmd, cs) \/ OnDel(cmd, cs))
    BY <1>6, Zenon DEF OnCommand, ReadFrom
  <2> HIDE DEF cmd, cs
  <2> QED  BY <2>1, <2>2, AddNewStep, AddAgainStep, DelStep
<1>7. CASE \E n \in DOMAIN tasks : Shell(n)
  BY <1>7, ShellStep
<1>8. CASE UNCHANGED vars
  BY <1>1, <1>8 DEF vars, daemonVars
<1> QED  BY <1>2, <1>3, <1>4, <1>5, <1>6, <1>7, <1>8 DEF Next

-----------------------------------------------------------------------------
\* The other console's bridges are there from the beginning.
LEMMA InitBridges == ASSUME BridgesAssumption, Init PROVE DaemonInv /\ ConsoleInv
<1>1. PICK keys \in Earlier :
        /\ others = {keys[n] : n \in DOMAIN keys}
        /\ tasks = [n \in DOMAIN keys |-> [key |-> keys[n], idx |-> n - 1, port |-> Base + n - 1,
                                          dev |-> "open", tcp |-> "listening"]]
        /\ registry = [k \in others |-> CHOOSE n \in DOMAIN keys : keys[n] = k]
        /\ orderly = (keys = <<>>)
  BY DEF Init
<1>2. /\ keys \in Seq(Key) /\ Len(keys) \in Nat /\ DOMAIN keys = 1..Len(keys)
      /\ \A m, n \in DOMAIN keys : keys[m] = keys[n] => m = n
      /\ \A n \in DOMAIN keys : keys[n] \in Key
  BY DEF BridgesAssumption
<1>3. \A n \in DOMAIN keys :
        /\ tasks[n] \in Task /\ tasks[n].key = keys[n] /\ tasks[n].port = Base + n - 1
        /\ tasks[n].tcp = "listening"
  BY <1>1, <1>2 DEF Task, Base
<1>4. tasks \in Seq(Task) /\ DOMAIN tasks = DOMAIN keys /\ Len(tasks) = Len(keys)
  <2>1. DOMAIN tasks = DOMAIN keys /\ tasks = [n \in DOMAIN keys |-> tasks[n]]
    BY <1>1
  <2> HIDE DEF Task
  <2> QED  BY <1>2, <1>3, <2>1, MapFacts
<1>5. DOMAIN registry = others /\ \A n \in DOMAIN keys : registry[keys[n]] = n /\ keys[n] \in others
  <2>1. ASSUME NEW n \in DOMAIN keys
        PROVE  registry[keys[n]] = n /\ keys[n] \in others
    <3>1. keys[n] \in others
      BY <1>1
    <3>2. (CHOOSE m \in DOMAIN keys : keys[m] = keys[n]) = n
      BY <1>2
    <3> QED  BY <1>1, <3>1, <3>2
  <2> QED  BY <1>1, <2>1
<1>6. \A k \in others : \E n \in DOMAIN keys : k = keys[n]
  BY <1>1
<1>7. IsFiniteSet(others) /\ Cardinality(others) = Len(keys)
  <2> DEFINE f == [n \in DOMAIN keys |-> keys[n]]
  <2>1. f \in Bijection(1..Len(keys), others)
    <3>1. f \in [1..Len(keys) -> others]
      BY <1>1, <1>2
    <3>2. \A m, n \in 1..Len(keys) : f[m] = f[n] => m = n
      BY <1>2
    <3>3. \A k \in others : \E n \in 1..Len(keys) : f[n] = k
      BY <1>2, <1>6
    <3> QED  BY <3>1, <3>2, <3>3 DEF Bijection, Injection, Surjection, IsInjective
  <2>2. IsFiniteSet(1..Len(keys)) /\ Cardinality(1..Len(keys)) = Len(keys)
    BY <1>2, FS_Interval, SMTT(30)
  <2>3. ExistsBijection(1..Len(keys), others)
    BY <2>1 DEF ExistsBijection
  <2> QED  BY <2>2, <2>3, FS_Bijection
<1>8. IsMap(registry, Key, DOMAIN tasks)
  BY <1>2, <1>4, <1>5, <1>6, <1>7 DEF IsMap
<1>9. posted = <<>> /\ posted \in Seq(Post) /\ DOMAIN posted = {}
  BY DEF Init
<1>10. DaemonTypes
  <2>1. \A k \in DOMAIN registry : tasks[registry[k]].key = k
    BY <1>3, <1>5, <1>6
  <2>2. kind \in Kind /\ up = TRUE /\ deleted = FALSE /\ early = FALSE
    BY DEF Init
  <2> QED  BY <1>4, <1>8, <1>9, <2>1, <2>2 DEF DaemonTypes
<1>11. PostedInv /\ PortInv /\ HomeInv
  <2>1. PostedInv
    BY <1>9 DEF PostedInv, Once, Posted, In
  <2>2. PortInv
    BY <1>3, <1>4, <1>5, <1>7 DEF PortInv, MapCount
  <2>3. HomeInv
    BY <1>3, <1>4, <1>5 DEF HomeInv
  <2> QED  BY <2>1, <2>2, <2>3
<1>12. ConsoleTypes
  <2>1. views = EmptyMap /\ conns = <<>> /\ adding = <<>> /\ orderly \in BOOLEAN
    BY <1>1 DEF Init
  <2>2. IsMap(views, Key, View)
    BY <2>1, FS_EmptySet DEF IsMap, EmptyMap
  <2> QED  BY <2>1, <2>2 DEF ConsoleTypes
<1>13. ViewInv
  BY DEF Init, ViewInv, EmptyMap
<1> QED  BY <1>10, <1>11, <1>12, <1>13 DEF DaemonInv, ConsoleInv

LEMMA Inductive == Spec => [](DaemonInv /\ ConsoleInv)
<1>1. Init => DaemonInv /\ ConsoleInv
  BY InitBridges, BridgesAssumption
<1>2. DaemonInv /\ ConsoleInv /\ [Next]_vars => (DaemonInv /\ ConsoleInv)'
  BY NextDaemon, NextConsole DEF DaemonInv, ConsoleInv
<1> QED  BY <1>1, <1>2, PTL DEF Spec

\* Every reachable state is well typed: a registered device is that of its task,
\* and a view has a WebSocket of its own that it listens to.
THEOREM TypeCorrect == Spec => []TypeOK
<1>1. DaemonInv /\ ConsoleInv => TypeOK
  <2> SUFFICES ASSUME DaemonInv, ConsoleInv PROVE TypeOK
    OBVIOUS
  <2>1. \A n \in DOMAIN tasks : tasks[n] \in Task
    BY TaskFields DEF DaemonInv
  <2>2. \A i \in DOMAIN posted : posted[i] \in {"task", "dev", "tcp"} \X DOMAIN tasks
    <3>1. \A i \in DOMAIN posted : posted[i] \in Post
      <4> HIDE DEF Post
      <4> QED  BY QueueFacts, SeqFacts
    <3> QED  BY <3>1, QueueFacts DEF Post
  <2>3. \A k \in DOMAIN views : conns[views[k].conn].key = k /\ conns[views[k].conn].heard
    BY DEF ConsoleInv, ViewInv
  <2> QED  BY <2>1, <2>2, <2>3
          DEF TypeOK, Task, DaemonInv, DaemonTypes, ConsoleInv, ConsoleTypes
<1> QED  BY <1>1, Inductive, PTL

\* As long as nothing was deleted, a bridge finds its port free, also when its
\* task starts again: its port is its number (CMD_SERIAL_ADD, CMD_SSH_ADD).
THEOREM PortsAreFree == Spec => []ListenFailsOnlyAfterDel
<1>1. DaemonInv => ListenFailsOnlyAfterDel
  BY DEF DaemonInv, PortInv, ListenFailsOnlyAfterDel
<1> QED  BY <1>1, Inductive, PTL

\* DEL leaves no listener behind, however ADD and DEL of several views and the
\* restarts of a task follow each other, unless it came between an ADD and the
\* calls of init that this posted (CMD_SERIAL_DEL, CMD_SSH_DEL).
THEOREM NoListenerIsLeft == Spec => []ListenersAreRegistered
<1>1. DaemonInv => ListenersAreRegistered
  BY DEF DaemonInv, HomeInv, ListenersAreRegistered
<1> QED  BY <1>1, Inductive, PTL
-----------------------------------------------------------------------------
(* What the daemon keeps, against what the views asked for.                *)
Distinct == \A c, d \in DOMAIN conns : conns[c].key = conns[d].key => c = d

Asked(k) == k \in DOMAIN views /\ views[k].asked

\* What the daemon will have come to when it has read a WebSocket to its end.
Wanted(c) ==
  LET s == conns[c].up
  IN  IF s = <<>> THEN conns[c].key \in DOMAIN registry ELSE s[Len(s)].what = "ADD"

\* A WebSocket only carries commands for its own device; what is registered
\* was asked for on one, and a view has asked on an open one.
AskInv ==
  /\ \A c \in DOMAIN conns : \A i \in DOMAIN conns[c].up : conns[c].up[i].key = conns[c].key
  /\ \A k \in DOMAIN registry : k \in others \/ \E c \in DOMAIN conns : conns[c].key = k
  /\ \A k \in DOMAIN views : views[k].asked => conns[views[k].conn].state = "open"

WantInv ==
  up /\ Distinct =>
    \A c \in DOMAIN conns : conns[c].key \notin others => (Wanted(c) <=> Asked(conns[c].key))

-----------------------------------------------------------------------------
(* The index of a view, from its call to the answer.                       *)
\* The one view that is being opened will be the last.
CallInv ==
  /\ Len(adding) <= 1
  /\ \A i \in DOMAIN adding :
       adding[i].idx = MapCount(views) /\ \A j \in DOMAIN views : j < adding[i].key

\* A command, and later the task it makes, has the index of its view.
CommandInv ==
  \A c \in DOMAIN conns : \A i \in DOMAIN conns[c].up :
    LET cmd == conns[c].up[i]
    IN  cmd.what = "ADD" /\ cmd.key \in DOMAIN views /\ IsAt(cmd.key, cmd.idx)

TaskInv ==
  \A n \in DOMAIN tasks :
    /\ tasks[n].key \in DOMAIN views /\ IsAt(tasks[n].key, tasks[n].idx)
    /\ tasks[n].key \in DOMAIN registry /\ registry[tasks[n].key] = n

\* An answer tells the port of the task with its index.
IsAnswer(r) == \E n \in DOMAIN tasks : r.idx = tasks[n].idx /\ r.port = tasks[n].port

AnswerInv ==
  \A c \in DOMAIN conns : \A i \in DOMAIN conns[c].down : IsAnswer(conns[c].down[i])

OrderInv == orderly => CallInv /\ CommandInv /\ TaskInv /\ AnswerInv /\ ViewsMatch

-----------------------------------------------------------------------------
(* How the messages on the WebSockets change.                              *)
\* A WebSocket that is told of a port is otherwise as it was.
LEMMA InformMoves ==
  ASSUME NEW cs \in Seq(Conn), NEW idx \in Nat, NEW port \in Nat, NEW c \in DOMAIN cs
  PROVE  /\ Inform(cs, idx, port)[c].key = cs[c].key
         /\ Inform(cs, idx, port)[c].state = cs[c].state
         /\ Inform(cs, idx, port)[c].up = cs[c].up
         /\ \/ Inform(cs, idx, port)[c].down = cs[c].down
            \/ Inform(cs, idx, port)[c].down = Append(cs[c].down, [idx |-> idx, port |-> port])
<1> DEFINE e == [idx |-> idx, port |-> port]
<1>1. cs[c] \in Conn
  <2> HIDE DEF Conn
  <2> QED  BY SeqFacts
<1>2. \/ Inform(cs, idx, port)[c] = cs[c]
      \/ Inform(cs, idx, port)[c] = [cs[c] EXCEPT !.down = Append(cs[c].down, e)]
  BY DEF Inform
<1>3. \A d : /\ [cs[c] EXCEPT !.down = d].key = cs[c].key
             /\ [cs[c] EXCEPT !.down = d].state = cs[c].state
             /\ [cs[c] EXCEPT !.down = d].up = cs[c].up
             /\ [cs[c] EXCEPT !.down = d].down = d
  BY <1>1 DEF Conn
<1> HIDE DEF e
<1>4. /\ Inform(cs, idx, port)[c].key = cs[c].key
      /\ Inform(cs, idx, port)[c].state = cs[c].state
      /\ Inform(cs, idx, port)[c].up = cs[c].up
      /\ \/ Inform(cs, idx, port)[c].down = cs[c].down
         \/ Inform(cs, idx, port)[c].down = Append(cs[c].down, e)
  BY <1>2, <1>3
<1> QED  BY <1>4 DEF e

\* The WebSocket that is read loses its first command, the others nothing.
LEMMA ReadMoves ==
  ASSUME conns \in Seq(Conn), NEW c \in DOMAIN conns
  PROVE  /\ ReadFrom(c)[c].up = Tail(conns[c].up)
         /\ \A d \in DOMAIN conns : /\ d # c => ReadFrom(c)[d].up = conns[d].up
                                    /\ ReadFrom(c)[d].state = conns[d].state
                                    /\ ReadFrom(c)[d].down = conns[d].down
<1>1. conns[c] \in Conn
  BY ConnFields
<1> QED  BY <1>1 DEF ReadFrom, Conn

\* The last element of a sequence stays the last.
LEMMA LastFacts ==
  ASSUME NEW S, NEW s \in Seq(S), s # <<>>
  PROVE  /\ Tail(s) = <<>> => s[Len(s)] = Head(s)
         /\ Tail(s) # <<>> => Tail(s)[Len(Tail(s))] = s[Len(s)]
<1>1. /\ Len(s) \in Nat \ {0} /\ Tail(s) \in Seq(S) /\ Len(Tail(s)) = Len(s) - 1
      /\ \A i \in 1..(Len(s) - 1) : Tail(s)[i] = s[i + 1]
  OBVIOUS
<1>2. \A t \in Seq(S) : t = <<>> <=> Len(t) = 0
  OBVIOUS
<1>3. Tail(s) = <<>> <=> Len(s) = 1
  BY <1>1, <1>2, SMTT(30)
<1> QED  BY <1>1, <1>3

LEMMA LastAppended ==
  ASSUME NEW S, NEW s \in Seq(S), NEW e \in S
  PROVE  Append(s, e) # <<>> /\ Append(s, e)[Len(Append(s, e))] = e
OBVIOUS

\* One more command is sent.
LEMMA SentFacts ==
  ASSUME conns \in Seq(Conn), NEW c \in DOMAIN conns, NEW cmd \in Command,
         conns' = [conns EXCEPT ![c].up = Append(@, cmd)]
  PROVE  /\ DOMAIN conns' = DOMAIN conns
         /\ conns'[c].up = Append(conns[c].up, cmd)
         /\ \A d \in DOMAIN conns : d # c => conns'[d].up = conns[d].up
         /\ \A d \in DOMAIN conns : /\ conns'[d].key = conns[d].key
                                    /\ conns'[d].state = conns[d].state
                                    /\ conns'[d].down = conns[d].down
<1> DEFINE u == Append(conns[c].up, cmd)
           r == [conns[c] EXCEPT !.up = u]
<1>1. conns' = [conns EXCEPT ![c] = r]
  OBVIOUS
<1>2. u \in Seq(Command)
  <2>1. conns[c].up \in Seq(Command)
    BY ConnFields
  <2> HIDE DEF Command
  <2> QED  BY <2>1, AppendFacts
<1>3. ASSUME NEW w \in Seq(Command)
      PROVE  LET x == [conns[c] EXCEPT !.up = w]
             IN  /\ x \in Conn /\ x.key = conns[c].key /\ x.state = conns[c].state
                 /\ x.down = conns[c].down /\ x.up = w
  BY <1>3, ConnFields DEF Conn
<1> HIDE DEF u
<1>4. /\ r \in Conn /\ r.key = conns[c].key /\ r.state = conns[c].state
      /\ r.down = conns[c].down /\ r.up = u
  BY <1>2, <1>3
<1> HIDE DEF r
<1>5. /\ DOMAIN conns' = DOMAIN conns /\ conns'[c] = r
      /\ \A d \in DOMAIN conns : d # c => conns'[d] = conns[d]
  BY <1>1, <1>4, OneConn
<1> QED  BY <1>4, <1>5 DEF u

-----------------------------------------------------------------------------
(* What was asked for stays what the daemon comes to.                      *)
\* A step that leaves the commands, the registry and what the views asked for.
LEMMA AskFrame ==
  ASSUME ConsoleInv, AskInv, WantInv, UNCHANGED <<others, up, registry>>,
         DOMAIN conns' = DOMAIN conns,
         \A c \in DOMAIN conns : /\ conns'[c].key = conns[c].key /\ conns'[c].up = conns[c].up
                                 /\ conns[c].state = "open" => conns'[c].state = "open",
         DOMAIN views' = DOMAIN views,
         \A k \in DOMAIN views : views'[k].asked = views[k].asked /\ views'[k].conn = views[k].conn
  PROVE  AskInv' /\ WantInv'
<1>1. \A k \in DOMAIN views : views[k].conn \in DOMAIN conns
  BY DEF ConsoleInv, ViewInv
<1>2. AskInv'
  <2>1. \A c \in DOMAIN conns' : \A i \in DOMAIN conns'[c].up : conns'[c].up[i].key = conns'[c].key
    BY DEF AskInv
  <2>2. \A k \in DOMAIN registry : k \in others \/ \E c \in DOMAIN conns' : conns'[c].key = k
    BY DEF AskInv
  <2>3. \A k \in DOMAIN views' : views'[k].asked => conns'[views'[k].conn].state = "open"
    BY <1>1 DEF AskInv
  <2> QED  BY <2>1, <2>2, <2>3 DEF AskInv
<1>3. Distinct' => Distinct
  BY DEF Distinct
<1>4. \A c \in DOMAIN conns : Wanted(c)' <=> Wanted(c)
  BY DEF Wanted
<1>5. \A k : Asked(k)' <=> Asked(k)
  BY DEF Asked
<1>6. WantInv'
  BY <1>3, <1>4, <1>5 DEF WantInv
<1> QED  BY <1>2, <1>6

\* A view is opened: nothing is asked for yet.
LEMMA AskAddView ==
  ASSUME ConsoleInv, AskInv, WantInv, NEW k0 \in Key, AddView(k0) PROVE AskInv' /\ WantInv'
<1> DEFINE r == NewConn(k0)
           n == Len(conns) + 1
<1>1. /\ k0 \notin DOMAIN views /\ UNCHANGED <<others, up, registry, views>>
      /\ conns \in Seq(Conn) /\ conns' = Append(conns, r)
  BY DEF ConsoleInv, ConsoleTypes, AddView, daemonVars
<1>2. r \in Conn /\ r.key = k0 /\ r.up = <<>>
  BY DEF NewConn, Conn
<1> HIDE DEF r
<1>3. /\ DOMAIN conns' = 1..n /\ DOMAIN conns = 1..Len(conns) /\ Len(conns) \in Nat
      /\ \A c \in DOMAIN conns : conns'[c] = conns[c]
      /\ conns'[n] = r
  <2> HIDE DEF Conn
  <2> QED  BY <1>1, <1>2, AppendFacts
<1>4. \A c \in DOMAIN conns' : c \in DOMAIN conns \/ c = n
  BY <1>3
<1>5. \A c \in DOMAIN conns : c \in DOMAIN conns' /\ c # n
  BY <1>3
<1>6. n \in DOMAIN conns'
  BY <1>3
<1> HIDE DEF n
<1>7. AskInv'
  <2>1. ASSUME NEW c \in DOMAIN conns', NEW i \in DOMAIN conns'[c].up
        PROVE  conns'[c].up[i].key = conns'[c].key
    <3>1. CASE c \in DOMAIN conns
      BY <1>3, <2>1, <3>1 DEF AskInv
    <3>2. CASE c = n
      BY <1>2, <1>3, <2>1, <3>2
    <3> QED  BY <1>4, <3>1, <3>2
  <2>2. \A k \in DOMAIN registry' : k \in others' \/ \E c \in DOMAIN conns' : conns'[c].key = k
    BY <1>1, <1>3, <1>5 DEF AskInv
  <2>3. \A k \in DOMAIN views' : views'[k].asked => conns'[views'[k].conn].state = "open"
    BY <1>1, <1>3 DEF AskInv, ConsoleInv, ViewInv
  <2> QED  BY <2>1, <2>2, <2>3 DEF AskInv
<1>8. WantInv'
  <2> SUFFICES ASSUME up, Distinct', NEW c \in DOMAIN conns', conns'[c].key \notin others
               PROVE  Wanted(c)' <=> Asked(conns[c].key)'
    BY <1>1 DEF WantInv
  <2>1. CASE c \in DOMAIN conns
    <3>1. Distinct
      BY <1>3, <1>5, Distinct' DEF Distinct
    <3>2. Wanted(c)' <=> Wanted(c)
      BY <1>1, <1>3, <2>1 DEF Wanted
    <3>3. Asked(conns[c].key)' <=> Asked(conns[c].key)
      BY <1>1, <1>3, <2>1 DEF Asked
    <3> QED  BY <1>3, <2>1, <3>1, <3>2, <3>3 DEF WantInv
  <2>2. CASE c = n
    <3>1. \A d \in DOMAIN conns : conns[d].key # k0
      BY <1>2, <1>3, <1>5, <1>6 DEF Distinct
    <3>2. ~Wanted(c)'
      BY <1>1, <1>2, <1>3, <2>2, <3>1 DEF AskInv, Wanted
    <3>3. ~Asked(conns[c].key)'
      BY <1>1, <1>2, <1>3, <2>2 DEF Asked
    <3> QED  BY <3>2, <3>3
  <2> QED  BY <1>4, <2>1, <2>2
<1> QED  BY <1>7, <1>8

\* The commands of one WebSocket, c, change; its device is k.  If each device
\* has one WebSocket, it is enough to look at this one.
LEMMA AskOne ==
  ASSUME AskInv, WantInv, NEW c \in DOMAIN conns, NEW k, conns[c].key = k,
         UNCHANGED others, up' => up, DOMAIN conns' = DOMAIN conns,
         \A d \in DOMAIN conns : conns'[d].key = conns[d].key,
         \A d \in DOMAIN conns : d # c => conns'[d].up = conns[d].up,
         \A j : j # k => (Asked(j)' <=> Asked(j)) /\ (j \in DOMAIN registry' <=> j \in DOMAIN registry),
         up' /\ Distinct /\ k \notin others => (Wanted(c)' <=> Asked(k)')
  PROVE  WantInv'
<1> SUFFICES ASSUME up', Distinct', NEW d \in DOMAIN conns, conns[d].key \notin others
             PROVE  Wanted(d)' <=> Asked(conns[d].key)'
  BY DEF WantInv
<1>1. Distinct
  BY Distinct' DEF Distinct
<1>2. CASE d = c
  BY <1>1, <1>2
<1>3. CASE d # c
  <2>1. conns[d].key # k
    BY <1>1, <1>3 DEF Distinct
  <2>2. Wanted(d)' <=> Wanted(d)
    BY <1>3, <2>1 DEF Wanted
  <2> QED  BY <1>1, <2>1, <2>2 DEF WantInv
<1> QED  BY <1>2, <1>3

\* One more command is sent on the WebSocket c, for its own device.
LEMMA AskSent ==
  ASSUME conns \in Seq(Conn), AskInv, NEW c \in DOMAIN conns,
         NEW cmd \in Command, cmd.key = conns[c].key, UNCHANGED <<others, registry>>,
         DOMAIN conns' = DOMAIN conns,
         \A d \in DOMAIN conns : conns'[d].key = conns[d].key,
         \A d \in DOMAIN conns : d # c => conns'[d].up = conns[d].up,
         conns'[c].up = Append(conns[c].up, cmd)
  PROVE  /\ \A d \in DOMAIN conns' : \A i \in DOMAIN conns'[d].up : conns'[d].up[i].key = conns'[d].key
         /\ \A k \in DOMAIN registry' : k \in others' \/ \E d \in DOMAIN conns' : conns'[d].key = k
         /\ Wanted(c)' <=> cmd.what = "ADD"
<1>1. conns[c].up \in Seq(Command)
  BY ConnFields
<1>2. /\ \A i \in DOMAIN conns'[c].up : i \in DOMAIN conns[c].up \/ i = Len(conns[c].up) + 1
      /\ \A i \in DOMAIN conns[c].up : conns'[c].up[i] = conns[c].up[i]
      /\ conns'[c].up[Len(conns[c].up) + 1] = cmd
  <2> HIDE DEF Command
  <2> QED  BY <1>1, AppendFacts
<1>3. conns'[c].up # <<>> /\ conns'[c].up[Len(conns'[c].up)] = cmd
  <2> HIDE DEF Command
  <2> QED  BY <1>1, LastAppended, SMTT(30)
<1>4. ASSUME NEW d \in DOMAIN conns', NEW i \in DOMAIN conns'[d].up
      PROVE  conns'[d].up[i].key = conns'[d].key
  <2>1. CASE d = c
    <3>1. conns[c].up[i].key = conns[c].key \/ i \notin DOMAIN conns[c].up
      BY DEF AskInv
    <3> QED  BY <1>2, <1>4, <2>1, <3>1
  <2>2. CASE d # c
    BY <1>4, <2>2 DEF AskInv
  <2> QED  BY <2>1, <2>2
<1>5. \A k \in DOMAIN registry' : k \in others' \/ \E d \in DOMAIN conns' : conns'[d].key = k
  BY DEF AskInv
<1>6. Wanted(c)' <=> cmd.what = "ADD"
  BY <1>3 DEF Wanted
<1> QED  BY <1>4, <1>5, <1>6

\* The wait ends: if ADD is sent, the view has asked.
LEMMA AskFinishAdd == ASSUME ConsoleInv, AskInv, WantInv, FinishAdd PROVE AskInv' /\ WantInv'
<1>1. /\ conns \in Seq(Conn) /\ adding \in Seq(Call) /\ adding # <<>>
      /\ UNCHANGED <<others, up, registry>>
  BY DEF ConsoleInv, ConsoleTypes, FinishAdd, daemonVars
<1>0. Len(adding) \in DOMAIN adding /\ adding[Len(adding)] \in Call
  <2> HIDE DEF Call
  <2> QED  BY <1>1
<1>2. PICK a \in Call : a = adding[Len(adding)]
  BY <1>0
<1> DEFINE connected == conns[a.conn].state = "open"
           cmd == [what |-> "ADD", key |-> a.key, idx |-> a.idx]
<1>3. /\ a.conn \in DOMAIN conns /\ a.key \in Key /\ a.idx \in Nat /\ conns[a.conn].key = a.key
      /\ \A k \in DOMAIN views : views[k].conn # a.conn
  BY <1>0, <1>2 DEF ConsoleInv, ViewInv, Call
<1>4. cmd \in Command /\ cmd.key = a.key /\ cmd.what = "ADD"
  BY <1>3 DEF Command
<1>5. /\ DOMAIN views' = DOMAIN views \cup {a.key}
      /\ views'[a.key].asked = connected /\ views'[a.key].conn = a.conn
      /\ \A k \in DOMAIN views : k # a.key => views'[k] = views[k]
  BY <1>2 DEF FinishAdd, MapInsert
<1>6. \A j : j # a.key => (Asked(j)' <=> Asked(j))
  BY <1>5 DEF Asked
<1>7. Asked(a.key)' <=> connected
  <2>1. a.key \in DOMAIN views'
    BY <1>5
  <2> HIDE DEF connected
  <2> QED  BY <1>5, <2>1 DEF Asked
<1>8. Distinct => ~Asked(a.key)
  BY <1>3 DEF Distinct, Asked, ConsoleInv, ViewInv
<1>9. CASE connected
  <2>1. conns' = [conns EXCEPT ![a.conn].up = Append(@, cmd)]
    BY <1>2, <1>9 DEF FinishAdd
  <2> HIDE DEF cmd
  <2>2. /\ DOMAIN conns' = DOMAIN conns
        /\ conns'[a.conn].up = Append(conns[a.conn].up, cmd)
        /\ \A d \in DOMAIN conns : d # a.conn => conns'[d].up = conns[d].up
        /\ \A d \in DOMAIN conns : /\ conns'[d].key = conns[d].key
                                   /\ conns'[d].state = conns[d].state
                                   /\ conns'[d].down = conns[d].down
    BY <1>1, <1>3, <1>4, <2>1, SentFacts
  <2>3. /\ \A d \in DOMAIN conns' : \A i \in DOMAIN conns'[d].up : conns'[d].up[i].key = conns'[d].key
        /\ \A k \in DOMAIN registry' : k \in others' \/ \E d \in DOMAIN conns' : conns'[d].key = k
        /\ Wanted(a.conn)'
    <3>1. conns[a.conn].key = cmd.key
      BY <1>3, <1>4
    <3> QED  BY <1>1, <1>3, <1>4, <2>2, <3>1, AskSent
  <2>4. \A k \in DOMAIN views' : views'[k].asked => conns'[views'[k].conn].state = "open"
    <3> SUFFICES ASSUME NEW k \in DOMAIN views', views'[k].asked
                 PROVE  conns'[views'[k].conn].state = "open"
      OBVIOUS
    <3>1. CASE k = a.key
      BY <1>3, <1>5, <1>9, <2>2, <3>1
    <3>2. CASE k # a.key
      BY <1>5, <2>2, <3>2 DEF AskInv, ConsoleInv, ViewInv
    <3> QED  BY <3>1, <3>2
  <2>5. AskInv'
    BY <2>3, <2>4 DEF AskInv
  <2>6. WantInv'
    BY <1>1, <1>3, <1>6, <1>7, <1>9, <2>2, <2>3, AskOne
  <2> QED  BY <2>5, <2>6
<1>10. CASE ~connected
  <2>1. conns' = conns
    BY <1>2, <1>10 DEF FinishAdd
  <2>2. AskInv'
    <3>1. \A k \in DOMAIN views' : views'[k].asked => conns'[views'[k].conn].state = "open"
      <4> SUFFICES ASSUME NEW k \in DOMAIN views', views'[k].asked
                   PROVE  conns'[views'[k].conn].state = "open"
        OBVIOUS
      <4>1. k # a.key
        BY <1>5, <1>10
      <4> QED  BY <1>5, <2>1, <4>1 DEF AskInv
    <3> QED  BY <1>1, <2>1, <3>1 DEF AskInv
  <2>3. Wanted(a.conn)' <=> Wanted(a.conn)
    BY <1>1, <2>1 DEF Wanted
  <2>4. up /\ Distinct /\ a.key \notin others => ~Wanted(a.conn)
    BY <1>3, <1>8 DEF WantInv
  <2>5. WantInv'
    BY <1>1, <1>3, <1>6, <1>7, <1>10, <2>1, <2>3, <2>4, AskOne
  <2> QED  BY <2>2, <2>5
<1> QED  BY <1>9, <1>10

\* A view is closed: if its WebSocket is open, DEL is sent; if not, the view
\* has not asked.
LEMMA AskCloseView ==
  ASSUME ConsoleInv, AskInv, WantInv, NEW k0 \in Key, CloseView(k0) PROVE AskInv' /\ WantInv'
<1>1. /\ conns \in Seq(Conn) /\ k0 \in DOMAIN views /\ views[k0].conn \in DOMAIN conns
      /\ conns[views[k0].conn].key = k0
      /\ UNCHANGED <<others, up, registry>>
  BY DEF ConsoleInv, ConsoleTypes, ViewInv, CloseView, daemonVars
<1>2. PICK c \in DOMAIN conns : c = views[k0].conn /\ conns[c].key = k0
  BY <1>1
<1> DEFINE cmd == [what |-> "DEL", key |-> k0, idx |-> 0]
           u == IF conns[c].state = "open" THEN Append(conns[c].up, cmd) ELSE conns[c].up
           r == [conns[c] EXCEPT !.heard = FALSE, !.down = <<>>, !.up = u]
<1>3. conns' = [conns EXCEPT ![c] = r]
  <2>1. CASE conns[c].state = "open"
    BY <1>2, <2>1 DEF CloseView
  <2>2. CASE conns[c].state # "open"
    BY <1>2, <2>2 DEF CloseView
  <2> QED  BY <2>1, <2>2
<1>4. cmd \in Command /\ cmd.key = k0 /\ cmd.what # "ADD"
  BY DEF Command
<1>5. u \in Seq(Command)
  <2>1. conns[c].up \in Seq(Command)
    BY <1>1, ConnFields
  <2> HIDE DEF Command, cmd
  <2> QED  BY <1>4, <2>1
<1>6. r \in Conn /\ r.key = conns[c].key /\ r.state = conns[c].state /\ r.up = u
  <2>1. ASSUME NEW w \in Seq(Command)
        PROVE  LET x == [conns[c] EXCEPT !.heard = FALSE, !.down = <<>>, !.up = w]
               IN  x \in Conn /\ x.key = conns[c].key /\ x.state = conns[c].state /\ x.up = w
    <3>1. [conns[c] EXCEPT !.heard = FALSE, !.down = <<>>, !.up = w] \in Conn
      BY <1>1, <2>1, ConnFields
    <3>2. conns[c] \in Conn
      BY <1>1, ConnFields
    <3> QED  BY <3>1, <3>2 DEF Conn
  <2> HIDE DEF u
  <2> QED  BY <1>5, <2>1
<1> HIDE DEF r
<1>7. /\ DOMAIN conns' = DOMAIN conns /\ conns'[c] = r
      /\ \A d \in DOMAIN conns : d # c => conns'[d] = conns[d]
  BY <1>1, <1>3, <1>6, OneConn
<1>8. \A d \in DOMAIN conns : conns'[d].key = conns[d].key /\ conns'[d].state = conns[d].state
  BY <1>6, <1>7
<1>9. /\ DOMAIN views' = DOMAIN views \ {k0}
      /\ \A k \in DOMAIN views' : views'[k] = views[k]
  BY DEF CloseView, MapRemove
<1>10. \A k \in DOMAIN views' : views'[k].asked => conns'[views'[k].conn].state = "open"
  BY <1>8, <1>9 DEF AskInv, ConsoleInv, ViewInv
<1>11. ~Asked(k0)' /\ \A j : j # k0 => (Asked(j)' <=> Asked(j))
  BY <1>9 DEF Asked
<1>12. CASE conns[c].state = "open"
  <2>1. conns'[c].up = Append(conns[c].up, cmd)
    BY <1>6, <1>7, <1>12
  <2> HIDE DEF cmd
  <2>2. /\ \A d \in DOMAIN conns' : \A i \in DOMAIN conns'[d].up : conns'[d].up[i].key = conns'[d].key
        /\ \A k \in DOMAIN registry' : k \in others' \/ \E d \in DOMAIN conns' : conns'[d].key = k
        /\ ~Wanted(c)'
    <3>1. cmd.key = conns[c].key
      BY <1>2, <1>4
    <3> QED  BY <1>1, <1>4, <1>7, <1>8, <2>1, <3>1, AskSent
  <2>3. AskInv'
    BY <1>10, <2>2 DEF AskInv
  <2>4. WantInv'
    BY <1>1, <1>2, <1>7, <1>8, <1>11, <2>2, AskOne
  <2> QED  BY <2>3, <2>4
<1>13. CASE conns[c].state # "open"
  <2>1. \A d \in DOMAIN conns : conns'[d].up = conns[d].up
    BY <1>6, <1>7, <1>13
  <2>2. AskInv'
    <3>1. \A d \in DOMAIN conns' : \A i \in DOMAIN conns'[d].up : conns'[d].up[i].key = conns'[d].key
      BY <1>7, <1>8, <2>1 DEF AskInv
    <3>2. \A k \in DOMAIN registry' : k \in others' \/ \E d \in DOMAIN conns' : conns'[d].key = k
      BY <1>1, <1>7, <1>8 DEF AskInv
    <3> QED  BY <1>10, <3>1, <3>2 DEF AskInv
  <2>3. ~Asked(k0)
    BY <1>2, <1>13 DEF AskInv, Asked
  <2>4. Wanted(c)' <=> Wanted(c)
    BY <1>1, <1>8, <2>1 DEF Wanted
  <2>5. up /\ Distinct /\ k0 \notin others => ~Wanted(c)
    BY <1>2, <2>3 DEF WantInv
  <2>6. WantInv'
    BY <1>1, <1>2, <1>7, <1>8, <1>11, <2>1, <2>4, <2>5, AskOne
  <2> QED  BY <2>2, <2>6
<1> QED  BY <1>12, <1>13

\* A command does to the registry what it says, unless the daemon dies of it.
LEMMA CommandEffect ==
  ASSUME NEW cmd \in Command, NEW cs,
         IF cmd.what = "ADD" THEN OnAddNew(cmd, cs) \/ OnAddAgain(cmd, cs) ELSE OnDel(cmd, cs)
  PROVE  /\ \/ up' = FALSE /\ DOMAIN registry' = DOMAIN registry
            \/ up' = up /\ cmd.what = "ADD" /\ DOMAIN registry' = DOMAIN registry \cup {cmd.key}
            \/ up' = up /\ cmd.what # "ADD" /\ DOMAIN registry' = DOMAIN registry \ {cmd.key}
         /\ \/ conns' = cs
            \/ /\ cmd.key \in DOMAIN registry
               /\ conns' = Inform(cs, cmd.idx, tasks[registry[cmd.key]].port)
<1>1. CASE OnAddNew(cmd, cs) /\ cmd.what = "ADD"
  BY <1>1 DEF OnAddNew, MapInsert
<1>2. CASE OnAddAgain(cmd, cs) /\ cmd.what = "ADD"
  BY <1>2 DEF OnAddAgain, Crash
<1>3. CASE OnDel(cmd, cs) /\ cmd.what # "ADD"
  BY <1>3 DEF OnDel, Crash, MapRemove
<1> QED  BY <1>1, <1>2, <1>3

\* What a command leaves on the WebSockets: the one it came on has lost it, and
\* some may be told of the port of a running task.
LEMMA CommandMoves ==
  ASSUME DaemonTypes, conns \in Seq(Conn), NEW c \in DOMAIN conns, conns[c].up # <<>>,
         NEW cmd \in Command, NEW cs, cs = ReadFrom(c),
         \/ conns' = cs
         \/ /\ cmd.key \in DOMAIN registry
            /\ conns' = Inform(cs, cmd.idx, tasks[registry[cmd.key]].port)
  PROVE  /\ DOMAIN conns' = DOMAIN conns
         /\ conns'[c].up = Tail(conns[c].up)
         /\ \A d \in DOMAIN conns :
              /\ conns'[d].key = conns[d].key /\ conns'[d].state = conns[d].state
              /\ d # c => conns'[d].up = conns[d].up
              /\ \/ conns'[d].down = conns[d].down
                 \/ /\ cmd.key \in DOMAIN registry
                    /\ conns'[d].down = Append(conns[d].down,
                         [idx |-> cmd.idx, port |-> tasks[registry[cmd.key]].port])
<1>1. /\ cs \in Seq(Conn) /\ DOMAIN cs = DOMAIN conns
      /\ \A d \in DOMAIN conns : cs[d].key = conns[d].key
  BY ReadFacts
<1>2. /\ cs[c].up = Tail(conns[c].up)
      /\ \A d \in DOMAIN conns : /\ d # c => cs[d].up = conns[d].up
                                 /\ cs[d].state = conns[d].state
                                 /\ cs[d].down = conns[d].down
  BY ReadMoves
<1>3. CASE conns' = cs
  BY <1>1, <1>2, <1>3
<1>4. CASE /\ cmd.key \in DOMAIN registry
           /\ conns' = Inform(cs, cmd.idx, tasks[registry[cmd.key]].port)
  <2>1. cmd.idx \in Nat /\ tasks[registry[cmd.key]].port \in Nat
    BY <1>4, RegisteredTask, TaskFields DEF Command
  <2>2. PICK idx \in Nat, port \in Nat :
          /\ idx = cmd.idx /\ port = tasks[registry[cmd.key]].port
          /\ conns' = Inform(cs, idx, port)
    BY <1>4, <2>1
  <2>3. DOMAIN Inform(cs, idx, port) = DOMAIN cs
    BY DEF Inform
  <2>4. ASSUME NEW d \in DOMAIN cs
        PROVE  /\ Inform(cs, idx, port)[d].key = cs[d].key
               /\ Inform(cs, idx, port)[d].state = cs[d].state
               /\ Inform(cs, idx, port)[d].up = cs[d].up
               /\ \/ Inform(cs, idx, port)[d].down = cs[d].down
                  \/ Inform(cs, idx, port)[d].down
                       = Append(cs[d].down, [idx |-> idx, port |-> port])
    BY <1>1, InformMoves
  <2>5. DOMAIN conns' = DOMAIN conns /\ conns'[c].up = Tail(conns[c].up)
    BY <1>1, <1>2, <2>2, <2>3, <2>4
  <2>6. ASSUME NEW d \in DOMAIN conns
        PROVE  /\ conns'[d].key = conns[d].key /\ conns'[d].state = conns[d].state
               /\ d # c => conns'[d].up = conns[d].up
               /\ \/ conns'[d].down = conns[d].down
                  \/ conns'[d].down = Append(conns[d].down, [idx |-> idx, port |-> port])
    <3>1. d \in DOMAIN cs /\ conns'[d] = Inform(cs, idx, port)[d]
      BY <1>1, <2>2
    <3>2. conns'[d].key = conns[d].key
      BY <1>1, <2>4, <3>1
    <3>3. conns'[d].state = conns[d].state /\ (d # c => conns'[d].up = conns[d].up)
      BY <1>2, <2>4, <3>1
    <3>4. \/ conns'[d].down = conns[d].down
          \/ conns'[d].down = Append(conns[d].down, [idx |-> idx, port |-> port])
      <4>1. cs[d].down = conns[d].down
        BY <1>2
      <4> QED  BY <2>4, <3>1, <4>1, Zenon
    <3> QED  BY <3>2, <3>3, <3>4
  <2> QED  BY <1>4, <2>2, <2>5, <2>6
<1> QED  BY <1>3, <1>4

\* A command is handled, and with it one wish is fulfilled, the last one or one
\* that a later command of the same WebSocket revokes.
LEMMA AskCommand ==
  ASSUME DaemonTypes, ConsoleInv, AskInv, WantInv, NEW c \in DOMAIN conns, OnCommand(c)
  PROVE  AskInv' /\ WantInv'
<1>1. /\ conns \in Seq(Conn) /\ conns[c].up # <<>> /\ up
      /\ UNCHANGED <<others, views>>
  BY DEF ConsoleInv, ConsoleTypes, OnCommand, consoleVars
<1>2. PICK cs : cs = ReadFrom(c)
  OBVIOUS
<1>3. PICK cmd \in Command : cmd = Head(conns[c].up)
  BY <1>1, ReadFacts
<1>4. IF cmd.what = "ADD" THEN OnAddNew(cmd, cs) \/ OnAddAgain(cmd, cs) ELSE OnDel(cmd, cs)
  BY <1>2, <1>3, Zenon DEF OnCommand, ReadFrom
<1>5. /\ \/ up' = FALSE /\ DOMAIN registry' = DOMAIN registry
         \/ up' = up /\ cmd.what = "ADD" /\ DOMAIN registry' = DOMAIN registry \cup {cmd.key}
         \/ up' = up /\ cmd.what # "ADD" /\ DOMAIN registry' = DOMAIN registry \ {cmd.key}
      /\ \/ conns' = cs
         \/ /\ cmd.key \in DOMAIN registry
            /\ conns' = Inform(cs, cmd.idx, tasks[registry[cmd.key]].port)
  BY <1>4, CommandEffect
<1>6. /\ DOMAIN conns' = DOMAIN conns
      /\ conns'[c].up = Tail(conns[c].up)
      /\ \A d \in DOMAIN conns :
           /\ conns'[d].key = conns[d].key /\ conns'[d].state = conns[d].state
           /\ d # c => conns'[d].up = conns[d].up
  BY <1>1, <1>2, <1>5, CommandMoves, ZenonT(30)
<1>7. /\ conns[c].up \in Seq(Command)
      /\ 1 \in DOMAIN conns[c].up /\ cmd = conns[c].up[1]
      /\ \A i \in DOMAIN Tail(conns[c].up) :
           i + 1 \in DOMAIN conns[c].up /\ Tail(conns[c].up)[i] = conns[c].up[i + 1]
  <2>1. conns[c].up \in Seq(Command)
    BY <1>1, ConnFields
  <2> HIDE DEF Command
  <2> QED  BY <1>1, <1>3, <2>1, TailFacts
<1>8. cmd.key = conns[c].key
  BY <1>7 DEF AskInv
<1>9. AskInv'
  <2>1. ASSUME NEW d \in DOMAIN conns', NEW i \in DOMAIN conns'[d].up
        PROVE  conns'[d].up[i].key = conns'[d].key
    <3>1. CASE d = c
      <4>1. i + 1 \in DOMAIN conns[c].up /\ conns'[c].up[i] = conns[c].up[i + 1]
        BY <1>6, <1>7, <2>1, <3>1
      <4> QED  BY <1>6, <3>1, <4>1 DEF AskInv
    <3>2. CASE d # c
      BY <1>6, <2>1, <3>2 DEF AskInv
    <3> QED  BY <3>1, <3>2
  <2>2. \A k \in DOMAIN registry' : k \in others' \/ \E d \in DOMAIN conns' : conns'[d].key = k
    <3> TAKE k \in DOMAIN registry'
    <3>1. CASE k = conns[c].key
      BY <1>6, <3>1
    <3>2. CASE k # conns[c].key
      <4>1. k \in DOMAIN registry
        BY <1>5, <1>8, <3>2
      <4> QED  BY <1>1, <1>6, <4>1 DEF AskInv
    <3> QED  BY <3>1, <3>2
  <2>3. \A k \in DOMAIN views' : views'[k].asked => conns'[views'[k].conn].state = "open"
    BY <1>1, <1>6 DEF AskInv, ConsoleInv, ViewInv
  <2> QED  BY <2>1, <2>2, <2>3 DEF AskInv
<1>10. up' => /\ cmd.key \in DOMAIN registry' <=> cmd.what = "ADD"
              /\ \A j : j # cmd.key => (j \in DOMAIN registry' <=> j \in DOMAIN registry)
  BY <1>5
<1>11. up' => (Wanted(c)' <=> Wanted(c))
  <2> SUFFICES ASSUME up' PROVE Wanted(c)' <=> Wanted(c)
    OBVIOUS
  <2>1. CASE Tail(conns[c].up) = <<>>
    <3>1. conns[c].up[Len(conns[c].up)] = cmd
      BY <1>1, <1>3, <1>7, <2>1, LastFacts
    <3>2. Wanted(c) <=> cmd.what = "ADD"
      BY <1>1, <3>1 DEF Wanted
    <3>3. Wanted(c)' <=> cmd.key \in DOMAIN registry'
      BY <1>6, <1>8, <2>1 DEF Wanted
    <3> QED  BY <1>10, <3>2, <3>3
  <2>2. CASE Tail(conns[c].up) # <<>>
    <3>1. Tail(conns[c].up)[Len(Tail(conns[c].up))] = conns[c].up[Len(conns[c].up)]
      BY <1>1, <1>7, <2>2, LastFacts
    <3> QED  BY <1>1, <1>6, <2>2, <3>1 DEF Wanted
  <2> QED  BY <2>1, <2>2
<1>12. \A j : Asked(j)' <=> Asked(j)
  BY <1>1 DEF Asked
<1>13. WantInv'
  <2>1. CASE up'
    <3>1. up /\ Distinct /\ cmd.key \notin others => (Wanted(c) <=> Asked(cmd.key))
      BY <1>8 DEF WantInv
    <3>2. up' /\ Distinct /\ cmd.key \notin others => (Wanted(c)' <=> Asked(cmd.key)')
      BY <1>1, <1>11, <1>12, <3>1
    <3>3. \A d \in DOMAIN conns : conns'[d].key = conns[d].key
      BY <1>6
    <3>4. \A d \in DOMAIN conns : d # c => conns'[d].up = conns[d].up
      BY <1>6
    <3>5. \A j : j # cmd.key =>
                   /\ Asked(j)' <=> Asked(j)
                   /\ j \in DOMAIN registry' <=> j \in DOMAIN registry
      BY <1>10, <1>12, <2>1
    <3> QED  BY <1>1, <1>6, <1>8, <3>2, <3>3, <3>4, <3>5, AskOne
  <2>2. CASE ~up'
    BY <2>2 DEF WantInv
  <2> QED  BY <2>1, <2>2
<1> QED  BY <1>9, <1>13

\* Every step.
LEMMA NextAsk ==
  ASSUME DaemonTypes, ConsoleInv, AskInv, WantInv, [Next]_vars PROVE AskInv' /\ WantInv'
<1>1. conns \in Seq(Conn)
  BY DEF ConsoleInv, ConsoleTypes
<1>2. ASSUME UNCHANGED <<others, up, registry, conns, views>> PROVE AskInv' /\ WantInv'
  BY <1>2, AskFrame
<1>3. CASE \E k \in Key : AddView(k) \/ CloseView(k)
  BY <1>3, AskAddView, AskCloseView
<1>4. CASE FinishAdd
  BY <1>4, AskFinishAdd
<1>5. CASE RunPosted
  <2>1. UNCHANGED <<others, up, registry, views>>
    BY <1>5 DEF RunPosted, consoleVars
  <2>2. PICK n \in DOMAIN tasks : conns' = conns \/ conns' = Inform(conns, tasks[n].idx, tasks[n].port)
    BY <1>5, SMTT(30) DEF DaemonTypes, RunPosted, TaskInit, DevInit, TcpInit
  <2>3. CASE conns' = conns
    BY <1>2, <2>1, <2>3
  <2>4. CASE conns' = Inform(conns, tasks[n].idx, tasks[n].port)
    <3>1. PICK idx \in Nat, port \in Nat : conns' = Inform(conns, idx, port)
      BY <2>4, TaskFields
    <3>2. DOMAIN Inform(conns, idx, port) = DOMAIN conns
      BY DEF Inform
    <3>3. \A c \in DOMAIN conns : /\ Inform(conns, idx, port)[c].key = conns[c].key
                                  /\ Inform(conns, idx, port)[c].state = conns[c].state
                                  /\ Inform(conns, idx, port)[c].up = conns[c].up
      BY <1>1, InformMoves
    <3> QED  BY <2>1, <3>1, <3>2, <3>3, AskFrame
  <2> QED  BY <2>2, <2>3, <2>4
<1>6. ASSUME NEW c \in DOMAIN conns, Connected(c) PROVE AskInv' /\ WantInv'
  <2> DEFINE r == [conns[c] EXCEPT !.state = "open"]
  <2>1. conns' = [conns EXCEPT ![c] = r] /\ UNCHANGED <<others, up, registry, views>>
    BY <1>6 DEF Connected, daemonVars, consoleVars
  <2>2. r \in Conn /\ r.key = conns[c].key /\ r.up = conns[c].up /\ r.state = "open"
    BY <1>1, ConnFields DEF Conn
  <2> HIDE DEF r
  <2>3. /\ DOMAIN conns' = DOMAIN conns /\ conns'[c] = r
        /\ \A d \in DOMAIN conns : d # c => conns'[d] = conns[d]
    BY <1>1, <2>1, <2>2, OneConn
  <2>4. \A d \in DOMAIN conns : /\ conns'[d].key = conns[d].key /\ conns'[d].up = conns[d].up
                                /\ conns[d].state = "open" => conns'[d].state = "open"
    BY <2>2, <2>3
  <2> QED  BY <2>1, <2>3, <2>4, AskFrame
<1>7. ASSUME NEW c \in DOMAIN conns, OnOpened(c) PROVE AskInv' /\ WantInv'
  <2> DEFINE d0 == Tail(conns[c].down)
             r == [conns[c] EXCEPT !.down = d0]
  <2>1. /\ conns[c] \in Conn /\ conns[c].down # <<>>
        /\ conns' = [conns EXCEPT ![c] = r] /\ UNCHANGED <<others, up, registry>>
    BY <1>1, <1>7, ConnFields DEF OnOpened, daemonVars
  <2>2. d0 \in Seq(Opened)
    <3>1. conns[c].down \in Seq(Opened)
      BY <1>1, ConnFields
    <3> HIDE DEF Opened
    <3> QED  BY <2>1, <3>1, TailFacts
  <2>3. r \in Conn /\ r.key = conns[c].key /\ r.up = conns[c].up /\ r.state = conns[c].state
    <3> HIDE DEF d0
    <3> QED  BY <1>1, <2>1, <2>2, ConnFields DEF Conn
  <2> HIDE DEF r
  <2>4. /\ DOMAIN conns' = DOMAIN conns /\ conns'[c] = r
        /\ \A d \in DOMAIN conns : d # c => conns'[d] = conns[d]
    BY <1>1, <2>1, <2>3, OneConn
  <2>5. \A d \in DOMAIN conns : /\ conns'[d].key = conns[d].key /\ conns'[d].up = conns[d].up
                                /\ conns[d].state = "open" => conns'[d].state = "open"
    BY <2>3, <2>4
  <2>6. /\ DOMAIN views' = DOMAIN views
        /\ \A k \in DOMAIN views : views'[k].asked = views[k].asked /\ views'[k].conn = views[k].conn
    <3>1. \A k \in DOMAIN views : views[k] \in View
      BY DEF ConsoleInv, ConsoleTypes, IsMap
    <3> QED  BY <1>7, <3>1 DEF OnOpened, View
  <2> QED  BY <2>1, <2>4, <2>5, <2>6, AskFrame
<1>8. CASE \E c \in DOMAIN conns : OnCommand(c)
  BY <1>8, AskCommand
<1>9. CASE \E n \in DOMAIN tasks : Shell(n)
  BY <1>2, <1>9 DEF Shell, consoleVars
<1>10. CASE UNCHANGED vars
  BY <1>2, <1>10 DEF vars
<1> QED  BY <1>3, <1>4, <1>5, <1>6, <1>7, <1>8, <1>9, <1>10 DEF Next

LEMMA AskInductive == Spec => [](AskInv /\ WantInv)
<1>1. Init => AskInv /\ WantInv
  <2> SUFFICES ASSUME Init PROVE AskInv /\ WantInv
    OBVIOUS
  <2>1. DOMAIN registry = others /\ DOMAIN conns = {} /\ DOMAIN views = {}
    BY DEF Init, EmptyMap
  <2> QED  BY <2>1 DEF AskInv, WantInv
<1>2. DaemonInv /\ ConsoleInv /\ AskInv /\ WantInv /\ [Next]_vars => (AskInv /\ WantInv)'
  BY NextAsk DEF DaemonInv
<1> QED  BY <1>1, <1>2, Inductive, PTL DEF Spec

\* When every device was opened once and all commands are handled, the daemon
\* has a task for just the views that are open and got their connection in
\* time, whatever happened on the way: the commands of one view stay in order,
\* and those of different views do not meet (onAddSerial, onSerialClosed,
\* CMD_SERIAL_ADD, CMD_SERIAL_DEL and the same for SSH).
THEOREM RegistryMatchesViews == Spec => []RegistryFollows
<1>1. ConsoleInv /\ AskInv /\ WantInv => RegistryFollows
  <2> SUFFICES ASSUME ConsoleInv, AskInv, WantInv, Settled, Distinct
               PROVE  DOMAIN registry \ others = {k \in DOMAIN views : views[k].asked} \ others
    BY DEF RegistryFollows, Distinct
  <2>1. \A c \in DOMAIN conns :
          conns[c].key \notin others => (conns[c].key \in DOMAIN registry <=> Asked(conns[c].key))
    BY DEF Settled, WantInv, Wanted
  <2>2. \A k \in DOMAIN registry : k \in others \/ \E c \in DOMAIN conns : conns[c].key = k
    BY DEF AskInv
  <2>3. \A k \in DOMAIN views : \E c \in DOMAIN conns : conns[c].key = k
    BY DEF ConsoleInv, ViewInv
  <2>4. \A k : k \notin others => (k \in DOMAIN registry <=> Asked(k))
    BY <2>1, <2>2, <2>3 DEF Asked
  <2> QED  BY <2>4 DEF Asked
<1> QED  BY <1>1, Inductive, AskInductive, PTL

-----------------------------------------------------------------------------
(* The index of a view is its place, from its call to the answer.          *)
\* Each place is that of one view.
LEMMA OnePlace ==
  ASSUME BridgesAssumption, ConsoleTypes, NEW j \in DOMAIN views, NEW k \in DOMAIN views,
         NEW idx, IsAt(j, idx), IsAt(k, idx)
  PROVE  j = k
<1>1. DOMAIN views \subseteq Nat /\ IsFiniteSet(DOMAIN views)
  BY DEF BridgesAssumption, ConsoleTypes, IsMap
<1>2. ASSUME NEW m \in DOMAIN views, NEW n \in DOMAIN views, m < n, IsAt(m, idx), IsAt(n, idx)
      PROVE  FALSE
  <2> DEFINE S == {i \in DOMAIN views : i < m}
             T == {i \in DOMAIN views : i < n}
  <2>1. IsFiniteSet(T)
    BY <1>1, FS_Subset
  <2>2. S \subseteq T /\ m \in T \ S
    BY <1>1, <1>2
  <2>3. Cardinality(S) = Cardinality(T)
    BY <1>2 DEF IsAt
  <2> HIDE DEF S, T
  <2> QED  BY <2>1, <2>2, <2>3, FS_Subset
<1> QED  BY <1>1, <1>2

\* A view that comes last moves no other.
LEMMA LastPlace ==
  ASSUME BridgesAssumption, ConsoleTypes, NEW k \in Key, DOMAIN views' = DOMAIN views \cup {k},
         \A j \in DOMAIN views : j < k, NEW n, n = MapCount(views)
  PROVE  /\ \A j \in DOMAIN views : \A idx : IsAt(j, idx)' <=> IsAt(j, idx)
         /\ IsAt(k, n)'
<1>1. DOMAIN views \subseteq Nat /\ k \in Nat
  BY DEF BridgesAssumption, ConsoleTypes, IsMap
<1>2. ASSUME NEW j \in DOMAIN views, NEW idx PROVE IsAt(j, idx)' <=> IsAt(j, idx)
  <2>1. {i \in DOMAIN views' : i < j} = {i \in DOMAIN views : i < j}
    BY <1>1
  <2> QED  BY <2>1 DEF IsAt
<1>3. IsAt(k, n)'
  <2>1. \A i : i \in DOMAIN views' /\ i < k <=> i \in DOMAIN views
    BY <1>1
  <2>2. {i \in DOMAIN views' : i < k} = DOMAIN views
    BY <2>1
  <2> QED  BY <2>2 DEF IsAt, MapCount
<1> QED  BY <1>2, <1>3

\* A step that leaves the views, the calls that wait, the commands and what a
\* task has of its view; the answers are old, or of a task.
LEMMA OrderFrame ==
  ASSUME OrderInv, ConsoleInv, UNCHANGED <<views, adding, orderly, registry>>,
         DOMAIN tasks' = DOMAIN tasks,
         \A n \in DOMAIN tasks : /\ tasks'[n].key = tasks[n].key /\ tasks'[n].idx = tasks[n].idx
                                 /\ tasks'[n].port = tasks[n].port,
         \A k \in DOMAIN registry : registry[k] \in DOMAIN tasks,
         DOMAIN conns' = DOMAIN conns,
         \A c \in DOMAIN conns : conns'[c].up = conns[c].up,
         \A c \in DOMAIN conns : \A i \in DOMAIN conns'[c].down :
           In(conns'[c].down[i], conns[c].down) \/ IsAnswer(conns'[c].down[i])
  PROVE  OrderInv'
<1> SUFFICES ASSUME orderly PROVE (CallInv /\ CommandInv /\ TaskInv /\ AnswerInv /\ ViewsMatch)'
  BY DEF OrderInv
<1>1. CallInv /\ CommandInv /\ TaskInv /\ AnswerInv /\ ViewsMatch
  BY DEF OrderInv
<1>2. \A k, idx : IsAt(k, idx)' <=> IsAt(k, idx)
  BY DEF IsAt
<1>3. CallInv'
  BY <1>1 DEF CallInv
<1>4. CommandInv'
  BY <1>1, <1>2 DEF CommandInv
<1>5. TaskInv'
  BY <1>1, <1>2 DEF TaskInv
<1>6. AnswerInv'
  <2> SUFFICES ASSUME NEW c \in DOMAIN conns, NEW i \in DOMAIN conns'[c].down
               PROVE  \E n \in DOMAIN tasks' : /\ conns'[c].down[i].idx = tasks'[n].idx
                                               /\ conns'[c].down[i].port = tasks'[n].port
    BY DEF AnswerInv, IsAnswer
  <2>1. IsAnswer(conns'[c].down[i])
    BY <1>1 DEF AnswerInv, In
  <2> QED  BY <2>1 DEF IsAnswer
<1>7. ViewsMatch'
  BY <1>1 DEF ViewsMatch
<1> QED  BY <1>3, <1>4, <1>5, <1>6, <1>7

\* The one view to open: it will be the last.
LEMMA OrderAddView ==
  ASSUME ConsoleInv, OrderInv, NEW k0 \in Key, AddView(k0) PROVE OrderInv'
<1> SUFFICES ASSUME orderly'
             PROVE  (CallInv /\ CommandInv /\ TaskInv /\ AnswerInv /\ ViewsMatch)'
  BY DEF OrderInv
<1>1. /\ orderly /\ adding = <<>> /\ \A j \in DOMAIN views : j < k0
      /\ UNCHANGED <<tasks, registry, views>> /\ conns \in Seq(Conn)
      /\ conns' = Append(conns, NewConn(k0))
  BY DEF AddView, daemonVars, ConsoleInv, ConsoleTypes
<1>2. CommandInv /\ TaskInv /\ AnswerInv /\ ViewsMatch
  BY <1>1 DEF OrderInv
<1>3. \A k, idx : IsAt(k, idx)' <=> IsAt(k, idx)
  BY <1>1 DEF IsAt
<1>4. \A c \in DOMAIN conns' : \/ c \in DOMAIN conns /\ conns'[c] = conns[c]
                               \/ conns'[c].up = <<>> /\ conns'[c].down = <<>>
  <2> DEFINE r == NewConn(k0)
  <2>1. r \in Conn /\ r.up = <<>> /\ r.down = <<>>
    BY DEF NewConn, Conn
  <2> HIDE DEF r, Conn
  <2>2. /\ DOMAIN conns' = 1..(Len(conns) + 1) /\ DOMAIN conns = 1..Len(conns) /\ Len(conns) \in Nat
        /\ \A c \in 1..Len(conns) : conns'[c] = conns[c]
        /\ conns'[Len(conns) + 1] = r
    BY <1>1, <2>1, AppendFacts DEF r
  <2> QED  BY <2>1, <2>2
<1>5. CallInv'
  <2>1. PICK a : adding' = <<a>> /\ a.idx = MapCount(views) /\ a.key = k0
    BY <1>1 DEF AddView
  <2> QED  BY <1>1, <2>1 DEF CallInv
<1>6. CommandInv'
  BY <1>1, <1>2, <1>3, <1>4 DEF CommandInv
<1>7. TaskInv'
  BY <1>1, <1>2, <1>3 DEF TaskInv
<1>8. AnswerInv'
  <2> SUFFICES ASSUME NEW c \in DOMAIN conns', NEW i \in DOMAIN conns'[c].down
               PROVE  IsAnswer(conns'[c].down[i])
    BY <1>1 DEF AnswerInv, IsAnswer
  <2>1. c \in DOMAIN conns /\ conns'[c] = conns[c]
    BY <1>4
  <2> QED  BY <1>2, <2>1 DEF AnswerInv
<1>9. ViewsMatch'
  BY <1>1, <1>2 DEF ViewsMatch
<1> QED  BY <1>5, <1>6, <1>7, <1>8, <1>9

\* The wait ends and the view is the last one; ADD carries its place.
LEMMA OrderFinishAdd == ASSUME BridgesAssumption, ConsoleInv, OrderInv, FinishAdd PROVE OrderInv'
<1> SUFFICES ASSUME orderly'
             PROVE  (CallInv /\ CommandInv /\ TaskInv /\ AnswerInv /\ ViewsMatch)'
  BY DEF OrderInv
<1>1. /\ conns \in Seq(Conn) /\ adding \in Seq(Call) /\ adding # <<>>
      /\ UNCHANGED <<tasks, registry>>
  BY DEF ConsoleInv, ConsoleTypes, FinishAdd, daemonVars
<1>2. Len(adding) \in DOMAIN adding /\ adding[Len(adding)] \in Call
  <2> HIDE DEF Call
  <2> QED  BY <1>1
<1>3. PICK a \in Call : a = adding[Len(adding)]
  BY <1>2
<1> DEFINE cmd == [what |-> "ADD", key |-> a.key, idx |-> a.idx]
<1>4. orderly /\ conns[a.conn].state = "open"
  BY <1>3 DEF FinishAdd
<1>5. CallInv /\ CommandInv /\ TaskInv /\ AnswerInv /\ ViewsMatch
  BY <1>4 DEF OrderInv
<1>6. /\ a.conn \in DOMAIN conns /\ a.key \in Key /\ a.idx \in Nat
      /\ a.idx = MapCount(views) /\ \A j \in DOMAIN views : j < a.key
  BY <1>2, <1>3, <1>5 DEF ConsoleInv, ViewInv, Call, CallInv
<1>7. cmd \in Command /\ cmd.what = "ADD" /\ cmd.key = a.key /\ cmd.idx = a.idx
  BY <1>6 DEF Command
<1>8. conns' = [conns EXCEPT ![a.conn].up = Append(@, cmd)]
  BY <1>3, <1>4 DEF FinishAdd
<1>9. /\ DOMAIN views' = DOMAIN views \cup {a.key} /\ views'[a.key].port = 0
      /\ \A k \in DOMAIN views : k # a.key => views'[k] = views[k]
  BY <1>3 DEF FinishAdd, MapInsert
<1>10. /\ \A j \in DOMAIN views : \A idx : IsAt(j, idx)' <=> IsAt(j, idx)
       /\ IsAt(a.key, a.idx)'
  BY <1>6, <1>9, LastPlace DEF ConsoleInv
<1>11. conns[a.conn].up \in Seq(Command)
  BY <1>1, <1>6, ConnFields
<1> HIDE DEF cmd
<1>12. /\ DOMAIN conns' = DOMAIN conns
       /\ conns'[a.conn].up = Append(conns[a.conn].up, cmd)
       /\ \A d \in DOMAIN conns : d # a.conn => conns'[d].up = conns[d].up
       /\ \A d \in DOMAIN conns : /\ conns'[d].key = conns[d].key
                                  /\ conns'[d].state = conns[d].state
                                  /\ conns'[d].down = conns[d].down
  BY <1>1, <1>6, <1>7, <1>8, SentFacts
<1>13. CallInv'
  <2>1. Len(adding) <= 1 /\ adding' = SubSeq(adding, 1, Len(adding) - 1)
    BY <1>5 DEF CallInv, FinishAdd
  <2>2. Len(adding') = 0 /\ DOMAIN adding' = {}
    <3> HIDE DEF Call
    <3> QED  BY <1>1, <2>1
  <2> QED  BY <2>2 DEF CallInv
<1>14. CommandInv'
  <2> SUFFICES ASSUME NEW c \in DOMAIN conns, NEW i \in DOMAIN conns'[c].up
               PROVE  /\ conns'[c].up[i].what = "ADD" /\ conns'[c].up[i].key \in DOMAIN views'
                      /\ \A idx : idx = conns'[c].up[i].idx => IsAt(conns[c].up[i].key, idx)'
    BY <1>12 DEF CommandInv
  <2>1. \/ conns'[c].up[i] = cmd
        \/ i \in DOMAIN conns[c].up /\ conns'[c].up[i] = conns[c].up[i]
    <3>1. CASE c = a.conn
      <4>1. /\ \A j \in DOMAIN Append(conns[c].up, cmd) :
                 j \in DOMAIN conns[c].up \/ j = Len(conns[c].up) + 1
            /\ \A j \in DOMAIN conns[c].up : Append(conns[c].up, cmd)[j] = conns[c].up[j]
            /\ Append(conns[c].up, cmd)[Len(conns[c].up) + 1] = cmd
        <5> HIDE DEF Command
        <5> QED  BY <1>7, <1>11, <3>1, AppendFacts
      <4> QED  BY <1>12, <3>1, <4>1
    <3>2. CASE c # a.conn
      BY <1>12, <3>2
    <3> QED  BY <3>1, <3>2
  <2>2. CASE conns'[c].up[i] = cmd
    BY <1>7, <1>9, <1>10, <2>2
  <2>3. CASE i \in DOMAIN conns[c].up /\ conns'[c].up[i] = conns[c].up[i]
    BY <1>5, <1>9, <1>10, <2>3 DEF CommandInv
  <2> QED  BY <2>1, <2>2, <2>3
<1>15. TaskInv'
  BY <1>1, <1>5, <1>9, <1>10 DEF TaskInv
<1>16. AnswerInv'
  BY <1>1, <1>5, <1>12, SMTT(30) DEF AnswerInv, IsAnswer
<1>17. ViewsMatch'
  BY <1>1, <1>5, <1>9, <1>4 DEF ViewsMatch
<1> QED  BY <1>13, <1>14, <1>15, <1>16, <1>17

\* The view at the index of an answer is that of the task which it is of.
LEMMA OrderOpened ==
  ASSUME BridgesAssumption, DaemonTypes, ConsoleInv, OrderInv, NEW c \in DOMAIN conns, OnOpened(c)
  PROVE  OrderInv'
<1> SUFFICES ASSUME orderly
             PROVE  (CallInv /\ CommandInv /\ TaskInv /\ AnswerInv /\ ViewsMatch)'
  BY DEF OrderInv, OnOpened
<1>1. CallInv /\ CommandInv /\ TaskInv /\ AnswerInv /\ ViewsMatch
  BY DEF OrderInv
<1>2. /\ conns \in Seq(Conn) /\ conns[c].down \in Seq(Opened) /\ conns[c].down # <<>>
      /\ UNCHANGED <<tasks, registry, adding>>
  BY ConnFields DEF ConsoleInv, ConsoleTypes, OnOpened, daemonVars
<1>3. /\ Tail(conns[c].down) \in Seq(Opened)
      /\ 1 \in DOMAIN conns[c].down /\ Head(conns[c].down) = conns[c].down[1]
      /\ \A i \in DOMAIN Tail(conns[c].down) :
           i + 1 \in DOMAIN conns[c].down /\ Tail(conns[c].down)[i] = conns[c].down[i + 1]
  <2> HIDE DEF Opened
  <2> QED  BY <1>2, TailFacts
<1>4. PICK m : m = Head(conns[c].down)
  OBVIOUS
<1>5. PICK n \in DOMAIN tasks : m.idx = tasks[n].idx /\ m.port = tasks[n].port
  BY <1>1, <1>3, <1>4 DEF AnswerInv, IsAnswer
<1> DEFINE d0 == Tail(conns[c].down)
           r == [conns[c] EXCEPT !.down = d0]
<1>6. conns' = [conns EXCEPT ![c] = r]
  BY DEF OnOpened
<1>7. r \in Conn /\ r.up = conns[c].up /\ r.down = d0
  <2>1. conns[c] \in Conn
    BY <1>2, ConnFields
  <2> HIDE DEF d0
  <2> QED  BY <1>2, <1>3, <2>1, ConnFields DEF Conn, d0
<1> HIDE DEF r
<1>8. /\ DOMAIN conns' = DOMAIN conns /\ conns'[c] = r
      /\ \A d \in DOMAIN conns : d # c => conns'[d] = conns[d]
  BY <1>2, <1>6, <1>7, OneConn
<1>9. \A d \in DOMAIN conns : conns'[d].up = conns[d].up
  BY <1>7, <1>8
<1>10. /\ DOMAIN views' = DOMAIN views
       /\ \A k \in DOMAIN views :
            views'[k] = IF IsAt(k, m.idx) THEN [views[k] EXCEPT !.port = m.port] ELSE views[k]
  BY <1>4 DEF OnOpened
<1>11. \A k, idx : IsAt(k, idx)' <=> IsAt(k, idx)
  BY <1>10 DEF IsAt
<1>12. CallInv'
  BY <1>1, <1>2, <1>10 DEF CallInv, MapCount
<1>13. CommandInv'
  BY <1>1, <1>8, <1>9, <1>10, <1>11 DEF CommandInv
<1>14. TaskInv'
  BY <1>1, <1>2, <1>10, <1>11 DEF TaskInv
<1>15. AnswerInv'
  <2> SUFFICES ASSUME NEW d \in DOMAIN conns, NEW i \in DOMAIN conns'[d].down
               PROVE  IsAnswer(conns'[d].down[i])
    BY <1>2, <1>8 DEF AnswerInv, IsAnswer
  <2>1. CASE d = c
    <3>1. i + 1 \in DOMAIN conns[c].down /\ conns'[d].down[i] = conns[c].down[i + 1]
      BY <1>3, <1>7, <1>8, <2>1
    <3> QED  BY <1>1, <3>1 DEF AnswerInv
  <2>2. CASE d # c
    BY <1>1, <1>8, <2>2 DEF AnswerInv
  <2> QED  BY <2>1, <2>2
<1>16. ViewsMatch'
  <2> SUFFICES ASSUME NEW k \in DOMAIN views, views'[k].port # 0
               PROVE  k \in DOMAIN registry /\ tasks[registry[k]].port = views'[k].port
    BY <1>2, <1>10 DEF ViewsMatch
  <2>1. CASE IsAt(k, m.idx)
    <3>1. tasks[n].key \in DOMAIN views /\ IsAt(tasks[n].key, m.idx)
      BY <1>1, <1>5 DEF TaskInv
    <3>2. k = tasks[n].key
      BY <2>1, <3>1, OnePlace DEF ConsoleInv
    <3>3. k \in DOMAIN registry /\ registry[k] = n
      BY <1>1, <3>2 DEF TaskInv
    <3>4. views'[k].port = m.port
      <4>1. views[k] \in View
        BY DEF ConsoleInv, ConsoleTypes, IsMap
      <4> QED  BY <1>10, <2>1, <4>1 DEF View
    <3> QED  BY <1>5, <3>3, <3>4
  <2>2. CASE ~IsAt(k, m.idx)
    BY <1>1, <1>10, <2>2 DEF ViewsMatch
  <2> QED  BY <2>1, <2>2
<1> QED  BY <1>12, <1>13, <1>14, <1>15, <1>16

\* ADD keeps the tasks and their ports; a new one is that of the command.
LEMMA AddEffect ==
  ASSUME DaemonTypes, NEW cmd \in Command, NEW cs, OnAddNew(cmd, cs) \/ OnAddAgain(cmd, cs)
  PROVE  /\ \A n \in DOMAIN tasks :
              /\ n \in DOMAIN tasks' /\ tasks'[n].key = tasks[n].key
              /\ tasks'[n].idx = tasks[n].idx /\ tasks'[n].port = tasks[n].port
         /\ \A k \in DOMAIN registry : k \in DOMAIN registry' /\ registry'[k] = registry[k]
         /\ \A n \in DOMAIN tasks' :
              \/ n \in DOMAIN tasks
              \/ /\ tasks'[n].key = cmd.key /\ tasks'[n].idx = cmd.idx
                 /\ cmd.key \in DOMAIN registry' /\ registry'[cmd.key] = n
<1>1. tasks \in Seq(Task)
  BY DEF DaemonTypes
<1>2. CASE OnAddNew(cmd, cs)
  <2> DEFINE t == [key |-> cmd.key, idx |-> cmd.idx, port |-> NextPort(cmd),
                   dev |-> "none", tcp |-> "none"]
  <2>1. MapCount(registry) \in Nat
    BY FS_CardinalityType DEF DaemonTypes, IsMap, MapCount
  <2>2. t \in Task /\ t.key = cmd.key /\ t.idx = cmd.idx
    BY <2>1 DEF Task, Command, NextPort, Base
  <2>3. tasks' = Append(tasks, t) /\ cmd.key \notin DOMAIN registry
    BY <1>2 DEF OnAddNew
  <2> HIDE DEF t
  <2>4. /\ Len(tasks') = Len(tasks) + 1
        /\ DOMAIN tasks' = 1..(Len(tasks) + 1) /\ DOMAIN tasks = 1..Len(tasks) /\ Len(tasks) \in Nat
        /\ \A n \in 1..Len(tasks) : tasks'[n] = tasks[n]
        /\ tasks'[Len(tasks) + 1] = t
    <3> HIDE DEF Task
    <3> QED  BY <1>1, <2>2, <2>3, AppendFacts
  <2>5. /\ DOMAIN registry' = DOMAIN registry \cup {cmd.key}
        /\ registry'[cmd.key] = Len(tasks) + 1
        /\ \A k \in DOMAIN registry : registry'[k] = registry[k]
    BY <1>2, <2>3, <2>4 DEF OnAddNew, MapInsert
  <2> QED  BY <2>2, <2>4, <2>5
<1>3. CASE OnAddAgain(cmd, cs)
  <2>1. PICK n : n = registry[cmd.key]
    OBVIOUS
  <2>2. n \in DOMAIN tasks /\ UNCHANGED registry
    BY <1>3, <2>1, RegisteredTask DEF OnAddAgain, Crash
  <2>3. UNCHANGED tasks \/ tasks' = [tasks EXCEPT ![n] = Close(tasks[n])]
    BY <1>3, <2>1 DEF OnAddAgain, Crash
  <2>4. tasks[n] \in Task
    BY <2>2, TaskFields
  <2>5. /\ Close(tasks[n]) \in Task /\ Close(tasks[n]).key = tasks[n].key
        /\ Close(tasks[n]).idx = tasks[n].idx /\ Close(tasks[n]).port = tasks[n].port
    BY <2>4 DEF Close, Task
  <2>6. CASE UNCHANGED tasks
    BY <2>2, <2>6
  <2>7. CASE tasks' = [tasks EXCEPT ![n] = Close(tasks[n])]
    <3>1. /\ DOMAIN tasks' = DOMAIN tasks /\ tasks'[n] = Close(tasks[n])
          /\ \A m \in DOMAIN tasks : m # n => tasks'[m] = tasks[m]
      BY <1>1, <2>2, <2>5, <2>7, OneTask
    <3> QED  BY <2>2, <2>5, <3>1
  <2> QED  BY <2>3, <2>6, <2>7
<1> QED  BY <1>2, <1>3

\* ADD of a view carries its place to the task and to the answer.
LEMMA OrderCommand ==
  ASSUME DaemonTypes, ConsoleInv, OrderInv, NEW c \in DOMAIN conns, OnCommand(c) PROVE OrderInv'
<1>1. /\ conns \in Seq(Conn) /\ conns[c].up # <<>> /\ conns[c].up \in Seq(Command)
      /\ UNCHANGED <<views, adding, orderly>>
  BY ConnFields DEF ConsoleInv, ConsoleTypes, OnCommand, consoleVars
<1> SUFFICES ASSUME orderly
             PROVE  (CallInv /\ CommandInv /\ TaskInv /\ AnswerInv /\ ViewsMatch)'
  BY <1>1 DEF OrderInv
<1>2. CallInv /\ CommandInv /\ TaskInv /\ AnswerInv /\ ViewsMatch
  BY DEF OrderInv
<1>3. PICK cs : cs = ReadFrom(c)
  OBVIOUS
<1>4. PICK cmd \in Command : cmd = Head(conns[c].up)
  BY <1>1, ReadFacts
<1>5. IF cmd.what = "ADD" THEN OnAddNew(cmd, cs) \/ OnAddAgain(cmd, cs) ELSE OnDel(cmd, cs)
  BY <1>3, <1>4, Zenon DEF OnCommand, ReadFrom
<1>6. /\ 1 \in DOMAIN conns[c].up /\ cmd = conns[c].up[1]
      /\ \A i \in DOMAIN Tail(conns[c].up) :
           i + 1 \in DOMAIN conns[c].up /\ Tail(conns[c].up)[i] = conns[c].up[i + 1]
  <2> HIDE DEF Command
  <2> QED  BY <1>1, <1>4, TailFacts
<1>7. cmd.what = "ADD" /\ cmd.key \in DOMAIN views /\ IsAt(cmd.key, cmd.idx)
  BY <1>2, <1>6 DEF CommandInv
<1>8. /\ \A n \in DOMAIN tasks :
           /\ n \in DOMAIN tasks' /\ tasks'[n].key = tasks[n].key
           /\ tasks'[n].idx = tasks[n].idx /\ tasks'[n].port = tasks[n].port
      /\ \A k \in DOMAIN registry : k \in DOMAIN registry' /\ registry'[k] = registry[k]
      /\ \A n \in DOMAIN tasks' :
           \/ n \in DOMAIN tasks
           \/ /\ tasks'[n].key = cmd.key /\ tasks'[n].idx = cmd.idx
              /\ cmd.key \in DOMAIN registry' /\ registry'[cmd.key] = n
  BY <1>5, <1>7, AddEffect
<1>9. \/ conns' = cs
      \/ /\ cmd.key \in DOMAIN registry
         /\ conns' = Inform(cs, cmd.idx, tasks[registry[cmd.key]].port)
  BY <1>5, CommandEffect
<1>10. /\ DOMAIN conns' = DOMAIN conns
       /\ conns'[c].up = Tail(conns[c].up)
       /\ \A d \in DOMAIN conns :
            /\ conns'[d].key = conns[d].key /\ conns'[d].state = conns[d].state
            /\ d # c => conns'[d].up = conns[d].up
            /\ \/ conns'[d].down = conns[d].down
               \/ /\ cmd.key \in DOMAIN registry
                  /\ conns'[d].down = Append(conns[d].down,
                       [idx |-> cmd.idx, port |-> tasks[registry[cmd.key]].port])
  BY <1>1, <1>3, <1>9, CommandMoves
<1>11. \A k, idx : IsAt(k, idx)' <=> IsAt(k, idx)
  BY <1>1 DEF IsAt
<1>12. CallInv'
  BY <1>1, <1>2 DEF CallInv
<1>13. CommandInv'
  <2> SUFFICES ASSUME NEW d \in DOMAIN conns, NEW i \in DOMAIN conns'[d].up
               PROVE  /\ conns'[d].up[i].what = "ADD" /\ conns'[d].up[i].key \in DOMAIN views
                      /\ IsAt(conns'[d].up[i].key, conns'[d].up[i].idx)
    BY <1>1, <1>10, ZenonT(30) DEF CommandInv, IsAt
  <2>1. CASE d = c
    <3>1. i + 1 \in DOMAIN conns[c].up /\ conns'[d].up[i] = conns[c].up[i + 1]
      BY <1>6, <1>10, <2>1
    <3> QED  BY <1>2, <3>1 DEF CommandInv
  <2>2. CASE d # c
    BY <1>2, <1>10, <2>2 DEF CommandInv
  <2> QED  BY <2>1, <2>2
<1>14. TaskInv'
  <2> SUFFICES ASSUME NEW n \in DOMAIN tasks'
               PROVE  /\ tasks'[n].key \in DOMAIN views /\ IsAt(tasks'[n].key, tasks'[n].idx)
                      /\ tasks'[n].key \in DOMAIN registry' /\ registry'[tasks'[n].key] = n
    BY <1>1 DEF TaskInv, IsAt
  <2>1. CASE n \in DOMAIN tasks
    BY <1>2, <1>8, <2>1 DEF TaskInv
  <2>2. CASE n \notin DOMAIN tasks
    BY <1>7, <1>8, <2>2
  <2> QED  BY <2>1, <2>2
<1>15. AnswerInv'
  <2>1. ASSUME NEW r, IsAnswer(r) PROVE IsAnswer(r)'
    BY <1>8, <2>1 DEF IsAnswer
  <2> SUFFICES ASSUME NEW d \in DOMAIN conns, NEW i \in DOMAIN conns'[d].down
               PROVE  IsAnswer(conns'[d].down[i])
    <3>1. \A d \in DOMAIN conns : \A i \in DOMAIN conns'[d].down :
            \E n \in DOMAIN tasks : /\ conns'[d].down[i].idx = tasks[n].idx
                                    /\ conns'[d].down[i].port = tasks[n].port
      BY DEF IsAnswer
    <3> QED  BY <1>8, <1>10, <3>1 DEF AnswerInv, IsAnswer
  <2>2. CASE conns'[d].down = conns[d].down
    BY <1>2, <2>2 DEF AnswerInv
  <2>3. CASE /\ cmd.key \in DOMAIN registry
             /\ conns'[d].down = Append(conns[d].down,
                  [idx |-> cmd.idx, port |-> tasks[registry[cmd.key]].port])
    <3>1. PICK n \in DOMAIN tasks : n = registry[cmd.key] /\ tasks[n].key = cmd.key
      BY <2>3, RegisteredTask
    <3>2. tasks[n].idx = cmd.idx
      BY <1>2, <1>7, <3>1 DEF TaskInv, IsAt
    <3>3. PICK e \in Opened : e = [idx |-> cmd.idx, port |-> tasks[n].port]
      BY <3>1, TaskFields DEF Opened, Command
    <3>4. IsAnswer(e)
      BY <3>2, <3>3 DEF IsAnswer
    <3>5. conns[d].down \in Seq(Opened)
      BY <1>1, ConnFields
    <3>6. /\ \A j \in DOMAIN Append(conns[d].down, e) :
               j \in DOMAIN conns[d].down \/ j = Len(conns[d].down) + 1
          /\ \A j \in DOMAIN conns[d].down : Append(conns[d].down, e)[j] = conns[d].down[j]
          /\ Append(conns[d].down, e)[Len(conns[d].down) + 1] = e
      <4> HIDE DEF Opened
      <4> QED  BY <3>5, AppendFacts
    <3>7. conns'[d].down = Append(conns[d].down, e)
      BY <2>3, <3>1, <3>3
    <3>8. CASE i \in DOMAIN conns[d].down
      BY <1>2, <3>6, <3>7, <3>8 DEF AnswerInv
    <3>9. CASE i = Len(conns[d].down) + 1
      BY <3>4, <3>6, <3>7, <3>9
    <3> QED  BY <3>6, <3>7, <3>8, <3>9
  <2> QED  BY <1>10, <2>2, <2>3
<1>16. ViewsMatch'
  <2>1. \A k \in DOMAIN registry : registry[k] \in DOMAIN tasks
    BY RegisteredTask
  <2> QED  BY <1>1, <1>2, <1>8, <2>1 DEF ViewsMatch
<1> QED  BY <1>12, <1>13, <1>14, <1>15, <1>16

\* A task that changes keeps its device, its place and its port.
LEMMA SameTask ==
  ASSUME DaemonTypes, NEW n \in DOMAIN tasks, NEW t \in Task, tasks' = [tasks EXCEPT ![n] = t],
         t.key = tasks[n].key, t.idx = tasks[n].idx, t.port = tasks[n].port
  PROVE  /\ DOMAIN tasks' = DOMAIN tasks
         /\ \A m \in DOMAIN tasks : /\ tasks'[m].key = tasks[m].key /\ tasks'[m].idx = tasks[m].idx
                                    /\ tasks'[m].port = tasks[m].port
<1>1. tasks \in Seq(Task)
  BY DEF DaemonTypes
<1>2. /\ DOMAIN tasks' = DOMAIN tasks /\ tasks'[n] = t
      /\ \A m \in DOMAIN tasks : m # n => tasks'[m] = tasks[m]
  BY <1>1, OneTask
<1> QED  BY <1>2

\* Every step.
LEMMA NextOrder ==
  ASSUME BridgesAssumption, DaemonTypes, ConsoleInv, OrderInv, [Next]_vars PROVE OrderInv'
<1>1. conns \in Seq(Conn) /\ \A k \in DOMAIN registry : registry[k] \in DOMAIN tasks
  BY RegisteredTask DEF ConsoleInv, ConsoleTypes
<1>2. \A c \in DOMAIN conns : \A i \in DOMAIN conns[c].down : In(conns[c].down[i], conns[c].down)
  BY DEF In
<1>3. CASE \E k \in Key : AddView(k)
  BY <1>3, OrderAddView
<1>4. CASE \E k \in Key : CloseView(k)
  BY <1>4 DEF CloseView, OrderInv
<1>5. CASE FinishAdd
  BY <1>5, OrderFinishAdd
<1>6. CASE RunPosted
  <2>1. UNCHANGED <<views, adding, orderly, registry>>
    BY <1>6 DEF RunPosted, consoleVars
  <2>2. PICK n \in DOMAIN tasks : n = Head(posted)[2]
    BY <1>6 DEF DaemonTypes, RunPosted
  <2>3. /\ DOMAIN tasks' = DOMAIN tasks
        /\ \A m \in DOMAIN tasks : /\ tasks'[m].key = tasks[m].key /\ tasks'[m].idx = tasks[m].idx
                                   /\ tasks'[m].port = tasks[m].port
    <3>1. tasks[n] \in Task
      BY TaskFields
    <3>2. CASE TaskInit(n)
      <4> DEFINE t == [tasks[n] EXCEPT !.dev = "made", !.tcp = "made"]
      <4>1. tasks' = [tasks EXCEPT ![n] = t]
        BY <3>2 DEF TaskInit
      <4>2. t \in Task /\ t.key = tasks[n].key /\ t.idx = tasks[n].idx /\ t.port = tasks[n].port
        BY <3>1 DEF Task
      <4> HIDE DEF t
      <4> QED  BY <4>1, <4>2, SameTask
    <3>3. CASE DevInit(n)
      <4>1. PICK dev \in {"open", "shut", "trying"} : tasks' = [tasks EXCEPT ![n].dev = dev]
        BY <3>3 DEF DevInit
      <4> DEFINE t == [tasks[n] EXCEPT !.dev = dev]
      <4>2. t \in Task /\ t.key = tasks[n].key /\ t.idx = tasks[n].idx /\ t.port = tasks[n].port
        BY <3>1, <4>1 DEF Task
      <4>3. tasks' = [tasks EXCEPT ![n] = t]
        BY <4>1
      <4> HIDE DEF t
      <4> QED  BY <4>2, <4>3, SameTask
    <3>4. CASE TcpInit(n)
      <4>1. PICK tcp \in {"failed", "listening"} : tasks' = [tasks EXCEPT ![n].tcp = tcp]
        BY <3>4 DEF TcpInit
      <4> DEFINE t == [tasks[n] EXCEPT !.tcp = tcp]
      <4>2. t \in Task /\ t.key = tasks[n].key /\ t.idx = tasks[n].idx /\ t.port = tasks[n].port
        BY <3>1, <4>1 DEF Task
      <4>3. tasks' = [tasks EXCEPT ![n] = t]
        BY <4>1
      <4> HIDE DEF t
      <4> QED  BY <4>2, <4>3, SameTask
    <3> QED  BY <1>6, <2>2, <3>2, <3>3, <3>4 DEF RunPosted
  <2>4. conns' = conns \/ conns' = Inform(conns, tasks[n].idx, tasks[n].port)
    BY <1>6, <2>2 DEF RunPosted, TaskInit, DevInit, TcpInit
  <2>5. CASE conns' = conns
    BY <1>1, <1>2, <2>1, <2>3, <2>5, OrderFrame
  <2>6. CASE conns' = Inform(conns, tasks[n].idx, tasks[n].port)
    <3>1. PICK idx \in Nat, port \in Nat :
            idx = tasks[n].idx /\ port = tasks[n].port /\ conns' = Inform(conns, idx, port)
      BY <2>6, TaskFields
    <3>2. DOMAIN Inform(conns, idx, port) = DOMAIN conns
      BY DEF Inform
    <3>3. ASSUME NEW c \in DOMAIN conns
          PROVE  /\ Inform(conns, idx, port)[c].key = conns[c].key
                 /\ Inform(conns, idx, port)[c].state = conns[c].state
                 /\ Inform(conns, idx, port)[c].up = conns[c].up
                 /\ \/ Inform(conns, idx, port)[c].down = conns[c].down
                    \/ Inform(conns, idx, port)[c].down
                         = Append(conns[c].down, [idx |-> idx, port |-> port])
      BY <1>1, InformMoves
    <3>4. PICK e \in Opened : e = [idx |-> idx, port |-> port] /\ e.idx = idx /\ e.port = port
      <4> DEFINE x == [idx |-> idx, port |-> port]
      <4>1. x \in Opened /\ x.idx = idx /\ x.port = port
        BY <3>1 DEF Opened
      <4> HIDE DEF Opened
      <4> QED  BY <4>1
    <3>5. IsAnswer(e)
      BY <3>1, <3>4 DEF IsAnswer
    <3>6. ASSUME NEW c \in DOMAIN conns, NEW i \in DOMAIN conns'[c].down
          PROVE  In(conns'[c].down[i], conns[c].down) \/ IsAnswer(conns'[c].down[i])
      <4>1. conns'[c].down = conns[c].down \/ conns'[c].down = Append(conns[c].down, e)
        BY <3>1, <3>3, <3>4, Zenon
      <4>2. conns[c].down \in Seq(Opened)
        BY <1>1, ConnFields
      <4>3. /\ \A j \in DOMAIN Append(conns[c].down, e) :
                 j \in DOMAIN conns[c].down \/ j = Len(conns[c].down) + 1
            /\ \A j \in DOMAIN conns[c].down : Append(conns[c].down, e)[j] = conns[c].down[j]
            /\ Append(conns[c].down, e)[Len(conns[c].down) + 1] = e
        <5> HIDE DEF Opened
        <5> QED  BY <4>2, AppendFacts
      <4>4. CASE conns'[c].down = conns[c].down
        BY <4>4 DEF In
      <4>5. CASE conns'[c].down = Append(conns[c].down, e)
        <5>1. i \in DOMAIN conns[c].down \/ i = Len(conns[c].down) + 1
          BY <4>3, <4>5
        <5>2. conns'[c].down[i] = e \/ In(conns'[c].down[i], conns[c].down)
          BY <4>3, <4>5, <5>1 DEF In
        <5> QED  BY <3>5, <5>2
      <4> QED  BY <4>1, <4>4, <4>5
    <3> QED  BY <1>1, <2>1, <2>3, <3>1, <3>2, <3>3, <3>6, OrderFrame
  <2> QED  BY <2>4, <2>5, <2>6
<1>7. ASSUME NEW c \in DOMAIN conns, Connected(c) PROVE OrderInv'
  <2> DEFINE r == [conns[c] EXCEPT !.state = "open"]
  <2>1. conns' = [conns EXCEPT ![c] = r] /\ UNCHANGED <<views, adding, orderly, registry, tasks>>
    BY <1>7 DEF Connected, daemonVars, consoleVars
  <2>2. r \in Conn /\ r.up = conns[c].up /\ r.down = conns[c].down
    BY <1>1, ConnFields DEF Conn
  <2> HIDE DEF r
  <2>3. /\ DOMAIN conns' = DOMAIN conns /\ conns'[c] = r
        /\ \A d \in DOMAIN conns : d # c => conns'[d] = conns[d]
    BY <1>1, <2>1, <2>2, OneConn
  <2>4. \A d \in DOMAIN conns : conns'[d].up = conns[d].up /\ conns'[d].down = conns[d].down
    BY <2>2, <2>3
  <2> QED  BY <1>1, <1>2, <2>1, <2>3, <2>4, OrderFrame
<1>8. CASE \E c \in DOMAIN conns : OnOpened(c)
  BY <1>8, OrderOpened
<1>9. CASE \E c \in DOMAIN conns : OnCommand(c)
  BY <1>9, OrderCommand
<1>10. ASSUME NEW n \in DOMAIN tasks, Shell(n) PROVE OrderInv'
  <2>1. UNCHANGED <<views, adding, orderly, registry, conns>>
    BY <1>10 DEF Shell, consoleVars
  <2>2. /\ DOMAIN tasks' = DOMAIN tasks
        /\ \A m \in DOMAIN tasks : /\ tasks'[m].key = tasks[m].key /\ tasks'[m].idx = tasks[m].idx
                                   /\ tasks'[m].port = tasks[m].port
    <3>1. PICK dev \in {"open", "shut"} : tasks' = [tasks EXCEPT ![n].dev = dev]
      BY <1>10 DEF Shell
    <3> DEFINE t == [tasks[n] EXCEPT !.dev = dev]
    <3>2. t \in Task /\ t.key = tasks[n].key /\ t.idx = tasks[n].idx /\ t.port = tasks[n].port
      BY <3>1, TaskFields DEF Task
    <3>3. tasks' = [tasks EXCEPT ![n] = t]
      BY <3>1
    <3> HIDE DEF t
    <3> QED  BY <3>2, <3>3, SameTask
  <2> QED  BY <1>1, <1>2, <2>1, <2>2, OrderFrame
<1>11. CASE UNCHANGED vars
  BY <1>1, <1>2, <1>11, OrderFrame DEF vars
<1> QED  BY <1>3, <1>4, <1>5, <1>6, <1>7, <1>8, <1>9, <1>10, <1>11 DEF Next

\* Views that are opened one by one in the order of their keys get the ports of
\* their own devices, in whatever order the daemon reads their WebSockets and
\* the answers arrive: the place of a view is that of its call, its task and
\* its answer (onAddSerial, onSerialOpened, VirtualDeviceTcp::init).
THEOREM ViewsGetTheirPort == Spec => []ViewsMatch
<1>1. Init => OrderInv
  <2> SUFFICES ASSUME Init, orderly PROVE OrderInv
    BY DEF OrderInv
  <2>1. DOMAIN tasks = {}
    <3>1. PICK keys \in Earlier :
            /\ tasks = [n \in DOMAIN keys |-> [key |-> keys[n], idx |-> n - 1, port |-> Base + n - 1,
                                              dev |-> "open", tcp |-> "listening"]]
            /\ orderly = (keys = <<>>)
      BY DEF Init
    <3>2. keys = <<>>
      BY <3>1
    <3> QED  BY <3>1, <3>2
  <2>2. conns = <<>> /\ adding = <<>> /\ DOMAIN views = {}
    BY DEF Init, EmptyMap
  <2> QED  BY <2>1, <2>2 DEF OrderInv, CallInv, CommandInv, TaskInv, AnswerInv, ViewsMatch
<1>2. DaemonInv /\ ConsoleInv /\ OrderInv /\ [Next]_vars => OrderInv'
  BY NextOrder, BridgesAssumption DEF DaemonInv
<1>3. OrderInv => ViewsMatch
  BY DEF OrderInv, ViewsMatch
<1> QED  BY <1>1, <1>2, <1>3, Inductive, PTL DEF Spec
=============================================================================
