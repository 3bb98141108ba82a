--------------------------- MODULE WSServerProofs ---------------------------
(***************************************************************************)
(* Proofs about WSServer, for every set of clients, every number of rows   *)
(* and every assignment of throughput to consoles: who gets a broadcast,   *)
(* and in which order.                                                     *)
(***************************************************************************)
EXTENDS WSServer, WellFoundedInduction, TLAPS

\* The worker of m's row has emitted m; it waits at the main thread; neither.
Emitted(m) == \E j \in 1..emitted[m[1]] : Kinds[j] = m[2]
Queued(m) == \E i \in DOMAIN signals : signals[i] = m
Unsent(m) == Queued(m) \/ ~Emitted(m)
InFrame(m) == \E i \in DOMAIN frames : frames[i].msg = m

\* No signal waits twice, and each was emitted.
SignalInv ==
  /\ \A i, j \in DOMAIN signals : signals[i] = signals[j] => i = j
  /\ \A m \in Reports : Queued(m) => Emitted(m)

\* What was not broadcast yet has left no trace.
Fresh ==
  \A m \in Reports : Unsent(m) =>
    members[m] = {} /\ ~InFrame(m) /\ \A k \in Clients : ~Has(k, m)

\* Each broadcast on the stack is another one, and goes to its members.
FrameInv ==
  /\ \A i, j \in DOMAIN frames : frames[i].msg = frames[j].msg => i = j
  /\ \A i \in DOMAIN frames : frames[i].ts \subseteq members[frames[i].msg]
  /\ \A m \in Reports : m[2] = "DATA" => members[m] = {} /\ ~InFrame(m)

GotOnce(k) == \A i, j \in DOMAIN got[k] : got[k][i] = got[k][j] => i = j
Once == \A k \in Clients : GotOnce(k)

\* Served or still to be served, never both.
Served ==
  \A k \in Clients, m \in Reports :
    /\ Has(k, m) => ~Pending(m, k)
    /\ k \in m_clients \cap members[m] => Has(k, m) \/ Pending(m, k)

IInv == TypeOK /\ SignalInv /\ Fresh /\ FrameInv /\ Once /\ Served /\ OnlyMembers

-----------------------------------------------------------------------------
Less == {pair \in Nat \X Nat : pair[1] < pair[2]}

\* The lowest of a set of keys is one of them.
LEMMA LowestIsMember ==
  ASSUME NEW S \in SUBSET Nat, S # {}
  PROVE  Lowest(S) \in S
<1>1. IsWellFoundedOn(Less, Nat)
  BY Zenon, NatLessThanWellFounded DEF OpToRel, Less
<1>2. PICK x \in S : \A y \in S : ~ (<<y, x>> \in Less)
  BY <1>1, WFMin, Zenon
<1>3. \A x1, y1 \in Nat : <<y1, x1>> \in Less <=> y1 < x1
  BY DEF Less
<1>4. \A y \in S : ~ (y < x) /\ y \in Nat /\ x \in Nat
  BY <1>2, <1>3
<1>5. \A y \in S : x <= y
  BY <1>4
<1> QED  BY <1>5 DEF Lowest

\* The three kinds of reports are distinct and in order.
LEMMA KindFacts ==
  /\ Len(Kinds) = 3
  /\ \A j \in 1..3 : Kinds[j] \in {"STARTED", "DATA", "STOPED"}
  /\ \A i, j \in 1..3 : Kinds[i] = Kinds[j] => i = j
BY DEF Kinds

\* The elements of a sequence, and what is left of it without the last one.
LEMMA SequenceFacts ==
  ASSUME NEW S, NEW s \in Seq(S)
  PROVE  /\ \A i \in DOMAIN s : s[i] \in S
         /\ Len(s) \in Nat /\ DOMAIN s = 1..Len(s)
         /\ s # <<>> => Len(s) # 0 /\ Len(s) \in DOMAIN s
OBVIOUS

LEMMA WithoutLast ==
  ASSUME NEW S, NEW s \in Seq(S), Len(s) # 0
  PROVE  /\ SubSeq(s, 1, Len(s) - 1) \in Seq(S)
         /\ DOMAIN SubSeq(s, 1, Len(s) - 1) = 1..(Len(s) - 1)
         /\ \A i \in 1..(Len(s) - 1) : SubSeq(s, 1, Len(s) - 1)[i] = s[i]
OBVIOUS

\* A sequence and an element appended to it.
LEMMA AppendFacts ==
  ASSUME NEW S, NEW s \in Seq(S), NEW e \in S
  PROVE  /\ Append(s, e) \in Seq(S)
         /\ DOMAIN Append(s, e) = 1..(Len(s) + 1) /\ DOMAIN s = 1..Len(s)
         /\ Len(s) \in Nat
         /\ \A i \in 1..Len(s) : Append(s, e)[i] = s[i]
         /\ Append(s, e)[Len(s) + 1] = e
OBVIOUS

\* The element is new in a sequence without repetition: so is the longer one.
LEMMA AppendOnce ==
  ASSUME NEW S, NEW s \in Seq(S), NEW e \in S,
         \A i, j \in DOMAIN s : s[i] = s[j] => i = j,
         \A i \in DOMAIN s : s[i] # e
  PROVE  \A i, j \in DOMAIN Append(s, e) : Append(s, e)[i] = Append(s, e)[j] => i = j
<1>1. \A i \in DOMAIN Append(s, e) : i = Len(s) + 1 \/ i \in DOMAIN s
  BY AppendFacts
<1>2. \A i \in DOMAIN s : Append(s, e)[i] = s[i]
  BY AppendFacts
<1>3. Append(s, e)[Len(s) + 1] = e
  BY AppendFacts
<1> QED  BY <1>1, <1>2, <1>3

\* What is in a sequence after an element is appended to it.
LEMMA AppendHas ==
  ASSUME NEW S, NEW s \in Seq(S), NEW e \in S
  PROVE  \A x : (\E i \in DOMAIN Append(s, e) : Append(s, e)[i] = x)
                   <=> (\E i \in DOMAIN s : s[i] = x) \/ x = e
<1>1. \A i \in DOMAIN Append(s, e) : i = Len(s) + 1 \/ i \in DOMAIN s
  BY AppendFacts
<1>2. \A i \in DOMAIN s : Append(s, e)[i] = s[i] /\ i \in DOMAIN Append(s, e)
  BY AppendFacts
<1>3. Append(s, e)[Len(s) + 1] = e /\ Len(s) + 1 \in DOMAIN Append(s, e)
  BY AppendFacts
<1> QED  BY <1>1, <1>2, <1>3

\* The main thread takes the first signal: it no longer waits, the others do.
LEMMA TakeSignal ==
  ASSUME TypeOK, SignalInv, signals # <<>>, signals' = Tail(signals), UNCHANGED emitted
  PROVE  /\ Head(signals) \in Reports /\ Queued(Head(signals))
         /\ signals' \in Seq(Reports) /\ SignalInv'
         /\ \A m \in Reports : Unsent(m)' <=> Unsent(m) /\ m # Head(signals)
<1>1. /\ Head(signals) \in Reports /\ Head(signals) = signals[1] /\ 1 \in DOMAIN signals
      /\ signals' \in Seq(Reports)
  BY DEF TypeOK
<1>2. /\ \A i \in DOMAIN signals' : i + 1 \in DOMAIN signals /\ signals'[i] = signals[i + 1]
                                      /\ i \in Nat /\ i # 0
      /\ \A i \in DOMAIN signals : i # 1 => i - 1 \in DOMAIN signals' /\ signals'[i - 1] = signals[i]
  BY DEF TypeOK
<1>3. \A i, j \in DOMAIN signals' : signals'[i] = signals'[j] => i = j
  <2> TAKE i, j \in DOMAIN signals'
  <2>1. signals[i + 1] = signals[j + 1] => i + 1 = j + 1
    BY <1>2 DEF SignalInv
  <2> QED  BY <1>2, <2>1
<1>4. \A m : Queued(m)' <=> Queued(m) /\ m # Head(signals)
  <2> TAKE m
  <2>1. ASSUME Queued(m)' PROVE Queued(m) /\ m # Head(signals)
    <3>1. PICK i \in DOMAIN signals' : signals'[i] = m
      BY <2>1 DEF Queued
    <3>2. i + 1 \in DOMAIN signals /\ signals[i + 1] = m /\ i + 1 # 1
      BY <1>2, <3>1
    <3> QED  BY <1>1, <3>2 DEF Queued, SignalInv
  <2>2. ASSUME Queued(m), m # Head(signals) PROVE Queued(m)'
    <3>1. PICK i \in DOMAIN signals : signals[i] = m
      BY <2>2 DEF Queued
    <3>2. i # 1
      BY <1>1, <2>2, <3>1
    <3> QED  BY <1>2, <3>1, <3>2 DEF Queued
  <2> QED  BY <2>1, <2>2
<1>5. \A m : Emitted(m)' <=> Emitted(m)
  BY DEF Emitted
<1>6. Queued(Head(signals)) /\ Emitted(Head(signals))
  BY <1>1 DEF Queued, SignalInv
<1>7. SignalInv'
  BY <1>3, <1>4, <1>5 DEF SignalInv
<1> QED  BY <1>1, <1>4, <1>5, <1>6, <1>7 DEF Unsent

\* Report m is sent to client k0 if that is in the map.
Deliver(k0, m) ==
  got' = IF k0 \in m_clients THEN [got EXCEPT ![k0] = Append(@, m)] ELSE got

LEMMA DeliverFacts ==
  ASSUME TypeOK, Once, NEW k0 \in Clients, NEW m \in Reports, Deliver(k0, m), ~Has(k0, m)
  PROVE  /\ got' \in [Clients -> Seq(Reports)] /\ Once'
         /\ \A k \in Clients, x \in Reports :
              Has(k, x)' <=> Has(k, x) \/ (k = k0 /\ k0 \in m_clients /\ x = m)
<1>1. CASE k0 \notin m_clients
  BY <1>1 DEF Deliver, TypeOK, Once, GotOnce, Has
<1>2. CASE k0 \in m_clients
  <2>1. got' = [got EXCEPT ![k0] = Append(@, m)] /\ got \in [Clients -> Seq(Reports)]
    BY <1>2 DEF Deliver, TypeOK
  <2>2. got[k0] \in Seq(Reports) /\ Append(got[k0], m) \in Seq(Reports)
    BY <2>1, AppendFacts
  <2>3. got'[k0] = Append(got[k0], m) /\ \A k \in Clients : k # k0 => got'[k] = got[k]
    BY <2>1
  <2>4. got' \in [Clients -> Seq(Reports)]
    BY <2>1, <2>2
  <2>5. Once'
    <3> SUFFICES ASSUME NEW k \in Clients PROVE GotOnce(k)'
      BY DEF Once
    <3>1. CASE k = k0
      <4>1. \A i, j \in DOMAIN got[k0] : got[k0][i] = got[k0][j] => i = j
        BY DEF Once, GotOnce
      <4>2. \A i \in DOMAIN got[k0] : got[k0][i] # m
        BY DEF Has
      <4>3. \A i, j \in DOMAIN Append(got[k0], m) :
              Append(got[k0], m)[i] = Append(got[k0], m)[j] => i = j
        BY <2>2, <4>1, <4>2, AppendOnce
      <4> QED  BY <2>3, <3>1, <4>3 DEF GotOnce
    <3>2. CASE k # k0
      BY <2>3, <3>2 DEF Once, GotOnce
    <3> QED  BY <3>1, <3>2
  <2>6. \A k \in Clients, x \in Reports :
              Has(k, x)' <=> Has(k, x) \/ (k = k0 /\ k0 \in m_clients /\ x = m)
    <3> TAKE k \in Clients, x \in Reports
    <3>1. CASE k = k0
      <4>1. (\E i \in DOMAIN Append(got[k0], m) : Append(got[k0], m)[i] = x)
              <=> (\E i \in DOMAIN got[k0] : got[k0][i] = x) \/ x = m
        <5>1. ASSUME NEW s \in Seq(Reports)
              PROVE  (\E i \in DOMAIN Append(s, m) : Append(s, m)[i] = x)
                       <=> (\E i \in DOMAIN s : s[i] = x) \/ x = m
          BY AppendHas
        <5> QED  BY <2>2, <5>1
      <4> QED  BY <1>2, <2>3, <3>1, <4>1 DEF Has
    <3>2. CASE k # k0
      BY <2>3, <3>2 DEF Has
    <3> QED  BY <3>1, <3>2
  <2> QED  BY <2>4, <2>5, <2>6
<1> QED  BY <1>1, <1>2

-----------------------------------------------------------------------------
LEMMA InitIInv == WSServerAssumption /\ Init => IInv
<1> SUFFICES ASSUME WSServerAssumption, Init PROVE IInv
  OBVIOUS
<1> USE DEF Init
<1>1. TypeOK
  BY DEF TypeOK
<1>2. SignalInv
  BY DEF SignalInv, Queued
<1>3. \A k \in Clients, m \in Reports : ~Has(k, m)
  BY DEF Has
<1>4. \A m \in Reports : members[m] = {} /\ ~InFrame(m) /\ \A k \in Clients : ~Pending(m, k)
  BY DEF InFrame, Pending
<1>5. Fresh /\ Served /\ OnlyMembers
  BY <1>3, <1>4 DEF Fresh, Served, OnlyMembers
<1>6. FrameInv
  BY <1>4 DEF FrameInv
<1>7. Once
  BY DEF Once, GotOnce
<1> QED  BY <1>1, <1>2, <1>5, <1>6, <1>7 DEF IInv

\* A worker emits its next report: it is new.
LEMMA EmitStep == ASSUME IInv, NEW r \in Rows, Emit(r) PROVE IInv'
<1> DEFINE e == <<r, Kinds[emitted'[r]]>>
<1> USE DEF IInv
<1>1. /\ emitted[r] \in 0..2 /\ emitted' = [emitted EXCEPT ![r] = @ + 1]
      /\ emitted \in [Rows -> 0..3] /\ emitted'[r] = emitted[r] + 1
  BY KindFacts DEF Emit, TypeOK
<1>2. e \in Reports /\ signals' = Append(signals, e) /\ signals \in Seq(Reports)
  BY <1>1, KindFacts DEF Emit, Reports, TypeOK
<1>3. ~Emitted(e)
  <2> SUFFICES ASSUME NEW j \in 1..emitted[r], Kinds[j] = Kinds[emitted[r] + 1] PROVE FALSE
    BY <1>1 DEF Emitted
  <2>1. j \in 1..3 /\ emitted[r] + 1 \in 1..3 /\ j # emitted[r] + 1
    BY <1>1
  <2> QED  BY <2>1, KindFacts
<1>4. \A m \in Reports : Emitted(m)' <=> Emitted(m) \/ m = e
  <2> TAKE m \in Reports
  <2>1. m = <<m[1], m[2]>> /\ m[1] \in Rows
    BY DEF Reports
  <2>2. CASE m[1] # r
    BY <1>1, <2>1, <2>2 DEF Emitted
  <2>3. CASE m[1] = r
    <3>1. \A j \in 1..emitted'[r] : j \in 1..emitted[r] \/ j = emitted'[r]
      BY <1>1
    <3>2. \A j \in 1..emitted[r] : j \in 1..emitted'[r]
      BY <1>1
    <3>3. emitted'[r] \in 1..emitted'[r]
      BY <1>1
    <3> QED  BY <2>1, <2>3, <3>1, <3>2, <3>3 DEF Emitted
  <2> QED  BY <2>2, <2>3
<1>5. \A m \in Reports : Queued(m)' <=> Queued(m) \/ m = e
  <2> TAKE m \in Reports
  <2>1. (\E i \in DOMAIN Append(signals, e) : Append(signals, e)[i] = m)
          <=> (\E i \in DOMAIN signals : signals[i] = m) \/ m = e
    BY <1>2, AppendHas, SMTT(30)
  <2> QED  BY <1>2, <2>1 DEF Queued
<1>6. SignalInv'
  <2>1. \A i \in DOMAIN signals : signals[i] # e
    BY <1>2, <1>3 DEF SignalInv, Queued
  <2>2. \A i, j \in DOMAIN Append(signals, e) :
          Append(signals, e)[i] = Append(signals, e)[j] => i = j
    BY <1>2, <2>1, AppendOnce DEF SignalInv
  <2> QED  BY <1>2, <1>4, <1>5, <2>2 DEF SignalInv
<1>7. \A m \in Reports : Unsent(m)' => Unsent(m)
  BY <1>3, <1>4, <1>5 DEF Unsent
<1>8. UNCHANGED <<m_clients, seen, frames, members, got>>
  BY DEF Emit
<1>9. TypeOK'
  <2>1. signals' \in Seq(Reports)
    BY <1>2, AppendFacts
  <2>2. emitted' \in [Rows -> 0..3]
    BY <1>1
  <2> QED  BY <1>8, <2>1, <2>2 DEF TypeOK
<1>10. Fresh'
  BY <1>7, <1>8 DEF Fresh, InFrame, Has
<1>11. FrameInv' /\ Once' /\ Served' /\ OnlyMembers'
  BY <1>8 DEF FrameInv, Once, GotOnce, Served, OnlyMembers, InFrame, Has, Pending
<1> QED  BY <1>6, <1>9, <1>10, <1>11

\* A client that connects was a member of no broadcast; one that leaves has no
\* claim to any.
LEMMA ClientStep ==
  ASSUME IInv, NEW k0 \in Clients, OnNewConnection(k0) \/ SocketDisconnected(k0)
  PROVE  IInv'
<1> USE DEF IInv
<1>1. UNCHANGED <<signals, emitted, frames, members, got>>
  BY DEF OnNewConnection, SocketDisconnected
<1>2. SignalInv' /\ Fresh' /\ FrameInv' /\ Once' /\ OnlyMembers'
  BY <1>1 DEF SignalInv, Fresh, FrameInv, Once, OnlyMembers, GotOnce, Queued, Emitted, Unsent,
              InFrame, Has
<1>3. m_clients' \in SUBSET seen' /\ seen' \in SUBSET Clients /\ seen \subseteq seen'
  BY DEF OnNewConnection, SocketDisconnected, TypeOK
<1>4. TypeOK'
  <2>1. members' \in [Reports -> SUBSET seen']
    BY <1>1, <1>3 DEF TypeOK
  <2> QED  BY <1>1, <1>3, <2>1 DEF TypeOK
<1>5. \A k \in Clients, m \in Reports :
        k \in m_clients' \cap members[m] => k \in m_clients
  BY DEF OnNewConnection, SocketDisconnected, TypeOK
<1>6. Served'
  BY <1>1, <1>5 DEF Served, Has, Pending
<1> QED  BY <1>2, <1>4, <1>6

\* Throughput goes to its target, which is not a member of anything.
LEMMA ThroughputStep == ASSUME WSServerAssumption, IInv, OnThroughput PROVE IInv'
<1> DEFINE m == Head(signals)
           k0 == Target[m[1]]
<1> USE DEF IInv
<1>1. /\ signals # <<>> /\ m[2] = "DATA" /\ signals' = Tail(signals)
      /\ UNCHANGED <<m_clients, seen, emitted, frames, members>>
      /\ Deliver(k0, m)
  BY DEF OnThroughput, Deliver
<1>2. /\ m \in Reports /\ Queued(m) /\ signals' \in Seq(Reports) /\ SignalInv'
      /\ \A x \in Reports : Unsent(x)' <=> Unsent(x) /\ x # m
  BY <1>1, TakeSignal
<1>3. k0 \in Clients
  BY <1>2 DEF WSServerAssumption, Reports
<1>4. members[m] = {} /\ ~InFrame(m) /\ \A k \in Clients : ~Has(k, m)
  BY <1>2 DEF Fresh, Unsent
<1>5. /\ got' \in [Clients -> Seq(Reports)] /\ Once'
      /\ \A k \in Clients, x \in Reports :
           Has(k, x)' <=> Has(k, x) \/ (k = k0 /\ k0 \in m_clients /\ x = m)
  BY <1>1, <1>2, <1>3, <1>4, DeliverFacts
<1>6. TypeOK'
  BY <1>1, <1>2, <1>5 DEF TypeOK
<1>7. \A x : InFrame(x)' = InFrame(x) /\ \A k : Pending(x, k)' = Pending(x, k)
  BY <1>1 DEF InFrame, Pending
<1>8. Fresh'
  BY <1>1, <1>2, <1>5, <1>7 DEF Fresh
<1>9. FrameInv'
  BY <1>1 DEF FrameInv, InFrame
<1>10. Served'
  <2>1. \A k \in Clients : ~Pending(m, k)
    BY <1>4 DEF Pending, InFrame
  <2> QED  BY <1>1, <1>4, <1>5, <1>7, <2>1 DEF Served
<1>11. OnlyMembers'
  BY <1>1, <1>5 DEF OnlyMembers
<1> QED  BY <1>2, <1>5, <1>6, <1>8, <1>9, <1>10, <1>11

-----------------------------------------------------------------------------
\* A broadcast begins: its members are the clients of now, the lowest is served.
LEMMA BroadcastStep == ASSUME WSServerAssumption, IInv, Broadcast PROVE IInv'
<1> DEFINE m == Head(signals)
           k0 == Lowest(m_clients)
           frame == [msg |-> m, ts |-> Rest(m_clients)]
<1> USE DEF IInv
<1>1. /\ signals # <<>> /\ m[2] # "DATA" /\ signals' = Tail(signals)
      /\ members' = [members EXCEPT ![m] = m_clients]
      /\ UNCHANGED <<m_clients, seen, emitted>>
  BY DEF Broadcast
<1>2. /\ m \in Reports /\ Queued(m) /\ signals' \in Seq(Reports) /\ SignalInv'
      /\ \A x \in Reports : Unsent(x)' <=> Unsent(x) /\ x # m
  BY <1>1, TakeSignal
<1>3. members[m] = {} /\ ~InFrame(m) /\ \A k \in Clients : ~Has(k, m) /\ ~Pending(m, k)
  BY <1>2 DEF Fresh, Unsent, InFrame, Pending
<1>4. /\ members' \in [Reports -> SUBSET seen] /\ members'[m] = m_clients
      /\ \A x \in Reports : x # m => members'[x] = members[x]
  BY <1>1, <1>2 DEF TypeOK
<1>5. CASE m_clients = {}
  <2>1. UNCHANGED <<frames, got>>
    BY <1>5 DEF Broadcast
  <2>2. members' = members
    BY <1>1, <1>3, <1>5 DEF TypeOK
  <2>3. TypeOK'
    BY <1>1, <1>2, <2>1, <2>2 DEF TypeOK
  <2>4. Fresh'
    BY <1>2, <2>1, <2>2 DEF Fresh, InFrame, Has
  <2>5. FrameInv' /\ Once' /\ Served' /\ OnlyMembers'
    BY <1>1, <2>1, <2>2
       DEF FrameInv, Once, GotOnce, Served, OnlyMembers, InFrame, Has, Pending
  <2> QED  BY <1>2, <2>3, <2>4, <2>5
<1>6. CASE m_clients # {}
  <2>1. m_clients \in SUBSET Nat /\ m_clients \subseteq Clients
    BY DEF TypeOK, WSServerAssumption
  <2>2. k0 \in m_clients /\ k0 \in Clients
    BY <1>6, <2>1, LowestIsMember
  <2>3. Deliver(k0, m) /\ frames' = Append(frames, frame)
    BY <1>6 DEF Broadcast, Send, Deliver
  <2>4. /\ got' \in [Clients -> Seq(Reports)] /\ Once'
        /\ \A k \in Clients, x \in Reports :
             Has(k, x)' <=> Has(k, x) \/ (k = k0 /\ k0 \in m_clients /\ x = m)
    BY <1>2, <1>3, <2>2, <2>3, DeliverFacts
  <2>5. /\ frame \in [msg : Reports, ts : SUBSET Clients]
        /\ frames \in Seq([msg : Reports, ts : SUBSET Clients])
    BY <1>2, <2>1 DEF Rest, TypeOK
  <2>6. /\ frames' \in Seq([msg : Reports, ts : SUBSET Clients])
        /\ \A i \in DOMAIN frames : frames'[i] = frames[i] /\ i \in DOMAIN frames'
        /\ \A i \in DOMAIN frames' : i \in DOMAIN frames \/ i = Len(frames) + 1
        /\ Len(frames) + 1 \in DOMAIN frames' /\ frames'[Len(frames) + 1] = frame
    BY <2>3, <2>5, AppendFacts
  <2>7. \A x \in Reports : InFrame(x)' <=> InFrame(x) \/ x = m
    BY <2>6 DEF InFrame
  <2>8. \A x \in Reports, k \in Clients :
          Pending(x, k)' <=> Pending(x, k) \/ (x = m /\ k \in m_clients /\ k # k0)
    BY <2>6 DEF Pending, Rest
  <2>9. TypeOK'
    BY <1>1, <1>2, <1>4, <2>4, <2>6 DEF TypeOK
  <2>10. Fresh'
    BY <1>2, <1>4, <2>4, <2>7 DEF Fresh
  <2>11. FrameInv'
    <3>1. \A i \in DOMAIN frames : frames[i].msg # m /\ frames[i].msg \in Reports
      <4>1. \A i \in DOMAIN frames : frames[i] \in [msg : Reports, ts : SUBSET Clients]
        BY <2>5, SequenceFacts, Zenon
      <4>2. \A i \in DOMAIN frames : frames[i].msg # m
        BY <1>3 DEF InFrame
      <4> QED  BY <4>1, <4>2
    <3>2. \A i, j \in DOMAIN frames' : frames'[i].msg = frames'[j].msg => i = j
      BY <2>6, <3>1 DEF FrameInv
    <3>3. \A i \in DOMAIN frames' : frames'[i].ts \subseteq members'[frames'[i].msg]
      <4> TAKE i \in DOMAIN frames'
      <4>1. CASE i \in DOMAIN frames
        BY <1>4, <2>6, <3>1, <4>1 DEF FrameInv
      <4>2. CASE i = Len(frames) + 1
        BY <1>4, <2>6, <4>2 DEF Rest
      <4> QED  BY <2>6, <4>1, <4>2
    <3>4. \A x \in Reports : x[2] = "DATA" => members'[x] = {} /\ ~InFrame(x)'
      BY <1>1, <1>4, <2>7 DEF FrameInv
    <3> QED  BY <3>2, <3>3, <3>4 DEF FrameInv
  <2>12. Served'
    <3> SUFFICES ASSUME NEW k \in Clients, NEW x \in Reports
                 PROVE  /\ Has(k, x)' => ~Pending(x, k)'
                        /\ k \in m_clients' \cap members'[x] => Has(k, x)' \/ Pending(x, k)'
      BY DEF Served
    <3>1. CASE x = m
      BY <1>1, <1>3, <1>4, <2>2, <2>4, <2>8, <3>1
    <3>2. CASE x # m
      BY <1>1, <1>4, <2>4, <2>8, <3>2 DEF Served
    <3> QED  BY <3>1, <3>2
  <2>13. OnlyMembers'
    <3> SUFFICES ASSUME NEW k \in Clients, NEW x \in Reports, Has(k, x)'
                 PROVE  IF x[2] = "DATA" THEN k = Target[x[1]] ELSE k \in members'[x]
      BY DEF OnlyMembers
    <3>1. CASE x = m
      BY <1>1, <1>3, <1>4, <2>2, <2>4, <3>1
    <3>2. CASE x # m
      BY <1>4, <2>4, <3>2 DEF OnlyMembers
    <3> QED  BY <3>1, <3>2
  <2> QED  BY <1>2, <2>4, <2>9, <2>10, <2>11, <2>12, <2>13
<1> QED  BY <1>5, <1>6

\* The innermost broadcast returns, or serves its next client.
LEMMA ResumeStep == ASSUME WSServerAssumption, IInv, Resume PROVE IInv'
<1> DEFINE n == Len(frames)
           Frame == [msg : Reports, ts : SUBSET Clients]
<1> USE DEF IInv
<1>1. /\ n \in DOMAIN frames /\ Top = frames[n] /\ Top \in Frame /\ frames \in Seq(Frame)
      /\ n \in Nat \ {0} /\ DOMAIN frames = 1..n
  <2>1. frames \in Seq(Frame) /\ frames # <<>> /\ Top = frames[n]
    BY DEF Resume, TypeOK, Top
  <2>2. n \in Nat \ {0} /\ DOMAIN frames = 1..n /\ n \in DOMAIN frames /\ frames[n] \in Frame
    <3> HIDE DEF Frame
    <3> QED  BY <2>1, SequenceFacts
  <2> QED  BY <2>1, <2>2
<1>2. UNCHANGED <<m_clients, seen, signals, emitted, members>>
  BY DEF Resume
<1>3. SignalInv' /\ \A x : Unsent(x)' = Unsent(x)
  BY <1>2 DEF SignalInv, Queued, Emitted, Unsent
<1>4. CASE Top.ts = {}
  <2>1. UNCHANGED got /\ frames' = SubSeq(frames, 1, n - 1)
    BY <1>4 DEF Resume
  <2>2. /\ frames' \in Seq(Frame) /\ DOMAIN frames' = 1..(n - 1)
        /\ \A i \in DOMAIN frames' : i \in DOMAIN frames /\ frames'[i] = frames[i]
        /\ \A i \in DOMAIN frames : i # n => i \in DOMAIN frames'
    <3> HIDE DEF Frame
    <3> HIDE DEF n
    <3>1. n - 1 \in Nat /\ 1..(n - 1) \subseteq 1..n /\ \A i \in 1..n : i # n => i \in 1..(n - 1)
      BY <1>1
    <3> USE DEF n
    <3>2. /\ SubSeq(frames, 1, n - 1) \in Seq(Frame)
          /\ DOMAIN SubSeq(frames, 1, n - 1) = 1..(n - 1)
          /\ \A i \in 1..(n - 1) : SubSeq(frames, 1, n - 1)[i] = frames[i]
      BY <1>1, WithoutLast
    <3> QED  BY <1>1, <2>1, <3>1, <3>2
  <2>3. \A x : InFrame(x)' => InFrame(x)
    BY <2>2 DEF InFrame
  <2>4. \A x, k : Pending(x, k)' <=> Pending(x, k)
    BY <1>1, <1>4, <2>2 DEF Pending
  <2>5. TypeOK'
    BY <1>2, <2>1, <2>2 DEF TypeOK
  <2>6. FrameInv'
    BY <1>2, <2>2, <2>3 DEF FrameInv
  <2>7. Fresh' /\ Once' /\ Served' /\ OnlyMembers'
    <3>1. Fresh'
      BY <1>2, <1>3, <2>1, <2>3 DEF Fresh, Has
    <3>2. Served'
      BY <1>2, <2>1, <2>4 DEF Served, Has
    <3>3. Once' /\ OnlyMembers'
      BY <1>2, <2>1 DEF Once, GotOnce, OnlyMembers, Has
    <3> QED  BY <3>1, <3>2, <3>3
  <2> QED  BY <1>3, <2>5, <2>6, <2>7
<1>5. CASE Top.ts # {}
  <2> DEFINE m == Top.msg
             k0 == Lowest(Top.ts)
  <2>1. m \in Reports /\ Top.ts \in SUBSET Nat /\ k0 \in Top.ts /\ k0 \in Clients
    <3>1. m \in Reports /\ Top.ts \in SUBSET Clients /\ Top.ts \in SUBSET Nat
      BY <1>1 DEF WSServerAssumption
    <3> QED  BY <1>5, <3>1, LowestIsMember
  <2>2. Deliver(k0, m) /\ frames' = [frames EXCEPT ![n].ts = Rest(@)]
    BY <1>5 DEF Resume, Send, Deliver
  <2>3. /\ Pending(m, k0) /\ InFrame(m) /\ k0 \in members[m] /\ m[2] # "DATA"
    BY <1>1, <2>1 DEF Pending, InFrame, FrameInv
  <2>4. ~Has(k0, m) /\ ~Unsent(m)
    BY <2>1, <2>3 DEF Served, Fresh
  <2>5. /\ got' \in [Clients -> Seq(Reports)] /\ Once'
        /\ \A k \in Clients, x \in Reports :
             Has(k, x)' <=> Has(k, x) \/ (k = k0 /\ k0 \in m_clients /\ x = m)
    BY <2>1, <2>2, <2>4, DeliverFacts
  <2>6. Rest(Top.ts) \in SUBSET Clients /\ Rest(Top.ts) = Top.ts \ {k0}
    BY <1>1 DEF Rest
  <2>7. /\ frames' \in Seq(Frame) /\ DOMAIN frames' = DOMAIN frames
        /\ frames'[n] = [msg |-> m, ts |-> Top.ts \ {k0}]
        /\ \A i \in DOMAIN frames : i # n => frames'[i] = frames[i]
    <3>1. frames' = [frames EXCEPT ![n] = [msg |-> m, ts |-> Rest(Top.ts)]]
      <4>1. frames' = [frames EXCEPT ![n] = [frames[n] EXCEPT !.ts = Rest(frames[n].ts)]]
        BY <2>2
      <4>2. [frames[n] EXCEPT !.ts = Rest(frames[n].ts)] = [msg |-> m, ts |-> Rest(Top.ts)]
        BY <1>1
      <4> QED  BY <4>1, <4>2
    <3>2. [msg |-> m, ts |-> Rest(Top.ts)] \in Frame
      BY <2>1, <2>6
    <3> QED  BY <1>1, <2>6, <3>1, <3>2
  <2>8. \A x : InFrame(x)' <=> InFrame(x)
    BY <1>1, <2>7 DEF InFrame
  <2>9. \A i \in DOMAIN frames : frames[i].msg = m => i = n
    BY <1>1 DEF FrameInv
  <2>10. \A x, k : Pending(x, k)' <=> Pending(x, k) /\ ~(x = m /\ k = k0)
    <3> TAKE x, k
    <3>1. CASE x = m
      BY <1>1, <2>7, <2>9, <3>1 DEF Pending
    <3>2. CASE x # m
      BY <1>1, <2>7, <3>2 DEF Pending
    <3> QED  BY <3>1, <3>2
  <2>11. TypeOK'
    BY <1>2, <2>5, <2>7 DEF TypeOK
  <2>12. FrameInv'
    <3>1. \A i \in DOMAIN frames : frames'[i].msg = frames[i].msg
                                    /\ frames'[i].ts \subseteq frames[i].ts
      BY <1>1, <2>7
    <3> QED  BY <1>2, <2>7, <2>8, <3>1 DEF FrameInv
  <2>13. Fresh'
    BY <1>2, <1>3, <2>4, <2>5, <2>8 DEF Fresh
  <2>14. Served'
    <3> SUFFICES ASSUME NEW k \in Clients, NEW x \in Reports
                 PROVE  /\ Has(k, x)' => ~Pending(x, k)'
                        /\ k \in m_clients \cap members[x] => Has(k, x)' \/ Pending(x, k)'
      BY <1>2 DEF Served
    <3>1. CASE x = m /\ k = k0
      BY <2>5, <2>10, <3>1
    <3>2. CASE ~(x = m /\ k = k0)
      BY <2>5, <2>10, <3>2 DEF Served
    <3> QED  BY <3>1, <3>2
  <2>15. OnlyMembers'
    BY <1>2, <2>3, <2>5 DEF OnlyMembers
  <2> QED  BY <1>3, <2>5, <2>11, <2>12, <2>13, <2>14, <2>15
<1> QED  BY <1>4, <1>5

-----------------------------------------------------------------------------
\* Every step, and a stutter, keeps the inductive invariant.
LEMMA NextIInv == WSServerAssumption /\ IInv /\ [Next]_vars => IInv'
<1> SUFFICES ASSUME WSServerAssumption, IInv, [Next]_vars PROVE IInv'
  OBVIOUS
<1>1. CASE \E r \in Rows : Emit(r)
  BY <1>1, EmitStep
<1>2. CASE \E k \in Clients : OnNewConnection(k) \/ SocketDisconnected(k)
  BY <1>2, ClientStep
<1>3. CASE Broadcast
  BY <1>3, BroadcastStep
<1>4. CASE OnThroughput
  BY <1>4, ThroughputStep
<1>5. CASE Resume
  BY <1>5, ResumeStep
<1>6. CASE UNCHANGED vars
  BY <1>6 DEF vars, IInv, TypeOK, SignalInv, Fresh, FrameInv, Once, GotOnce, Served, OnlyMembers,
              Queued, Emitted, Unsent, InFrame, Has, Pending
<1> QED  BY <1>1, <1>2, <1>3, <1>4, <1>5, <1>6 DEF Next

LEMMA Inductive == Spec => []IInv
<1>1. Init => IInv
  BY InitIInv, WSServerAssumption
<1>2. IInv /\ [Next]_vars => IInv'
  BY NextIInv, WSServerAssumption
<1> QED  BY <1>1, <1>2, PTL DEF Spec

\* Every reachable state is well typed: the clients in m_clients have connected
\* and a broadcast only ever goes to keys that were in the map.
THEOREM TypeCorrect == Spec => []TypeOK
<1>1. IInv => TypeOK
  BY DEF IInv
<1> QED  BY <1>1, Inductive, PTL

\* However connections, disconnections and nested broadcasts fall into a
\* broadcast, a client that was there when it began and stays is served once
\* (sendTextMessage), for any number of clients and of broadcasts on the stack.
THEOREM ServedExactlyOnce == Spec => []ExactlyOnce
<1>1. IInv => ExactlyOnce
  <2> SUFFICES ASSUME IInv, NEW k \in Clients
               PROVE  /\ GotOnce(k)
                      /\ \A m \in Reports :
                           k \in m_clients \cap members[m] => (Has(k, m) <=> ~Pending(m, k))
    BY DEF ExactlyOnce, GotOnce
  <2>1. GotOnce(k)
    BY DEF IInv, Once
  <2> QED  BY <2>1 DEF IInv, Served
<1> QED  BY <1>1, Inductive, PTL

\* No other client gets it: neither one that joins during a broadcast, nor one
\* that is not the target of throughput (sendTextMessage, onThroughput).
THEOREM SentToMembersOnly == Spec => []OnlyMembers
<1>1. IInv => OnlyMembers
  BY DEF IInv
<1> QED  BY <1>1, Inductive, PTL

-----------------------------------------------------------------------------
(* In which order a console gets the reports of a row.                     *)

Before == {"STARTED", "DATA"}      \* what a worker emits before it stops

\* The signals of a row wait in the order in which they were emitted ...
QueueOrder ==
  \A r \in Rows, kind \in Before : \A i, j \in DOMAIN signals :
    signals[i] = <<r, "STOPED">> /\ signals[j] = <<r, kind>> => j < i

\* ... and are taken in it.
UnsentOrder ==
  \A r \in Rows, kind \in Before : Unsent(<<r, kind>>) => Unsent(<<r, "STOPED">>)

QueueInv == QueueOrder /\ UnsentOrder

\* Client k got the reports of this kind before it was told that row r stopped.
InOrder(k, r, kind) ==
  \A i, j \in DOMAIN got[k] :
    got[k][i] = <<r, "STOPED">> /\ got[k][j] = <<r, kind>> => j < i

DataOrder == \A k \in Clients, r \in Rows : InOrder(k, r, "DATA")

\* The lowest member of a broadcast has got it.
First(m) == Lowest(members[m])
StartOrder ==
  \A r \in Rows :
    members[<<r, "STARTED">>] # {} =>
      /\ Has(First(<<r, "STARTED">>), <<r, "STARTED">>)
      /\ InOrder(First(<<r, "STARTED">>), r, "STARTED")

OInv == QueueInv /\ DataOrder /\ StartOrder

-----------------------------------------------------------------------------
(* The queue.                                                              *)
LEMMA KindsEmitted ==
  ASSUME NEW n \in 0..3, NEW kind \in Before, \E j \in 1..n : Kinds[j] = "STOPED"
  PROVE  \E j \in 1..n : Kinds[j] = kind
<1>1. Kinds[1] = "STARTED" /\ Kinds[2] = "DATA" /\ Kinds[3] = "STOPED"
  BY DEF Kinds
<1>2. PICK j \in 1..n : Kinds[j] = "STOPED"
  OBVIOUS
<1>3. j \in 1..3 /\ j # 1 /\ j # 2
  BY <1>1, <1>2
<1>4. 1 \in 1..n /\ 2 \in 1..n
  BY <1>3
<1> QED  BY <1>1, <1>4 DEF Before

\* Any one of a row's reports.
LEMMA ReportsOf ==
  ASSUME NEW r \in Rows
  PROVE  /\ <<r, "STOPED">> \in Reports
         /\ \A kind \in Before : <<r, kind>> \in Reports /\ <<r, kind>> # <<r, "STOPED">>
BY DEF Reports, Before

LEMMA EmitOrder == ASSUME IInv, QueueInv, NEW r0 \in Rows, Emit(r0) PROVE QueueInv'
<1> DEFINE e == <<r0, Kinds[emitted'[r0]]>>
<1> USE DEF IInv
<1>1. /\ emitted[r0] \in 0..2 /\ emitted'[r0] = emitted[r0] + 1
      /\ \A r \in Rows : r # r0 => emitted'[r] = emitted[r]
  BY KindFacts DEF Emit, TypeOK
<1>2. e \in Reports /\ signals' = Append(signals, e) /\ signals \in Seq(Reports)
  BY <1>1, KindFacts DEF Emit, Reports, TypeOK
<1>3. ~Emitted(e)
  <2> SUFFICES ASSUME NEW j \in 1..emitted[r0], Kinds[j] = Kinds[emitted[r0] + 1] PROVE FALSE
    BY <1>1 DEF Emitted
  <2>1. j \in 1..3 /\ emitted[r0] + 1 \in 1..3 /\ j # emitted[r0] + 1
    BY <1>1
  <2> QED  BY <2>1, KindFacts
<1> HIDE DEF e
<1>4. /\ \A i \in DOMAIN signals : signals'[i] = signals[i]
      /\ \A i \in DOMAIN signals' : i \in DOMAIN signals \/ (i = Len(signals) + 1 /\ signals'[i] = e)
      /\ DOMAIN signals = 1..Len(signals) /\ Len(signals) \in Nat
  BY <1>2, AppendFacts
<1>5. QueueOrder'
  <2> SUFFICES ASSUME NEW r \in Rows, NEW kind \in Before,
                      NEW i \in DOMAIN signals', NEW j \in DOMAIN signals',
                      signals'[i] = <<r, "STOPED">>, signals'[j] = <<r, kind>>
               PROVE  j < i
    BY DEF QueueOrder
  <2>1. CASE j \notin DOMAIN signals
    <3>1. e = <<r, kind>> /\ i \in DOMAIN signals
      BY <1>4, <2>1, ReportsOf
    <3>2. Queued(<<r, "STOPED">>)
      BY <1>4, <3>1 DEF Queued
    <3>3. Emitted(<<r, kind>>)
      <4>1. Emitted(<<r, "STOPED">>) /\ emitted[r] \in 0..3
        BY <3>2, ReportsOf DEF SignalInv, TypeOK
      <4> QED  BY <4>1, KindsEmitted DEF Emitted
    <3> QED  BY <1>3, <3>1, <3>3
  <2>2. CASE j \in DOMAIN signals /\ i \notin DOMAIN signals
    BY <1>4, <2>2
  <2>3. CASE j \in DOMAIN signals /\ i \in DOMAIN signals
    BY <1>4, <2>3 DEF QueueInv, QueueOrder
  <2> QED  BY <2>1, <2>2, <2>3
<1>6. \A m \in Reports : Unsent(m)' <=> Unsent(m)
  <2> TAKE m \in Reports
  <2>1. m = <<m[1], m[2]>> /\ m[1] \in Rows
    BY DEF Reports
  <2>2. Queued(m)' <=> Queued(m) \/ m = e
    <3>1. (\E i \in DOMAIN Append(signals, e) : Append(signals, e)[i] = m)
            <=> (\E i \in DOMAIN signals : signals[i] = m) \/ m = e
      BY <1>2, AppendHas
    <3> QED  BY <1>2, <3>1 DEF Queued
  <2>3. Emitted(m)' <=> Emitted(m) \/ m = e
    <3>1. CASE m[1] # r0
      BY <1>1, <2>1, <3>1 DEF Emitted, e
    <3>2. CASE m[1] = r0
      <4>1. \A j \in 1..emitted'[r0] : j \in 1..emitted[r0] \/ j = emitted'[r0]
        BY <1>1
      <4>2. \A j \in 1..emitted[r0] : j \in 1..emitted'[r0]
        BY <1>1
      <4>3. emitted'[r0] \in 1..emitted'[r0]
        BY <1>1
      <4> QED  BY <2>1, <3>2, <4>1, <4>2, <4>3 DEF Emitted, e
    <3> QED  BY <3>1, <3>2
  <2> QED  BY <1>3, <2>2, <2>3 DEF Unsent, SignalInv
<1>7. UnsentOrder'
  <2> SUFFICES ASSUME NEW r \in Rows, NEW kind \in Before, Unsent(<<r, kind>>)'
               PROVE  Unsent(<<r, "STOPED">>)'
    BY DEF UnsentOrder
  <2> QED  BY <1>6, ReportsOf DEF QueueInv, UnsentOrder
<1> QED  BY <1>5, <1>7 DEF QueueInv

\* The main thread takes the first signal of the queue.
LEMMA TakeOrder ==
  ASSUME TypeOK, SignalInv, QueueInv, signals # <<>>, signals' = Tail(signals),
         UNCHANGED emitted
  PROVE  /\ QueueInv'
         /\ \A r \in Rows : Head(signals) = <<r, "STOPED">> =>
              \A kind \in Before : ~Unsent(<<r, kind>>)
<1>1. /\ Head(signals) = signals[1] /\ 1 \in DOMAIN signals
      /\ \A i \in DOMAIN signals : i >= 1
      /\ \A i \in DOMAIN signals' : /\ i \in Nat /\ i + 1 \in DOMAIN signals
                                   /\ signals'[i] = signals[i + 1]
  BY DEF TypeOK
<1>2. QueueOrder'
  <2> SUFFICES ASSUME NEW r \in Rows, NEW kind \in Before,
                      NEW i \in DOMAIN signals', NEW j \in DOMAIN signals',
                      signals'[i] = <<r, "STOPED">>, signals'[j] = <<r, kind>>
               PROVE  j < i
    BY DEF QueueOrder
  <2>1. j + 1 < i + 1
    BY <1>1 DEF QueueInv, QueueOrder
  <2> QED  BY <1>1, <2>1
<1>3. ASSUME NEW r \in Rows, NEW kind \in Before, Head(signals) = <<r, "STOPED">>
      PROVE  ~Unsent(<<r, kind>>)
  <2>1. ~Queued(<<r, kind>>)
    <3> SUFFICES ASSUME NEW j \in DOMAIN signals, signals[j] = <<r, kind>> PROVE FALSE
      BY DEF Queued
    <3>1. j < 1
      BY <1>1, <1>3 DEF QueueInv, QueueOrder
    <3> QED  BY <1>1, <3>1
  <2>2. Emitted(<<r, kind>>)
    <3>1. Emitted(<<r, "STOPED">>) /\ emitted[r] \in 0..3
      BY <1>1, <1>3, ReportsOf DEF SignalInv, Queued, TypeOK
    <3> QED  BY <3>1, KindsEmitted DEF Emitted
  <2> QED  BY <2>1, <2>2 DEF Unsent
<1>4. \A m \in Reports : Unsent(m)' <=> Unsent(m) /\ m # Head(signals)
  BY TakeSignal
<1>5. UnsentOrder'
  <2> SUFFICES ASSUME NEW r \in Rows, NEW kind \in Before, Unsent(<<r, kind>>)'
               PROVE  Unsent(<<r, "STOPED">>)'
    BY DEF UnsentOrder
  <2>1. Unsent(<<r, kind>>)
    BY <1>4, ReportsOf
  <2>2. Unsent(<<r, "STOPED">>) /\ Head(signals) # <<r, "STOPED">>
    BY <1>3, <2>1 DEF QueueInv, UnsentOrder
  <2> QED  BY <1>4, <2>2, ReportsOf
<1> QED  BY <1>2, <1>3, <1>5 DEF QueueInv

-----------------------------------------------------------------------------
(* What the consoles get.                                                  *)
\* A report that is sent comes last, so only one that may not follow STOPED
\* could break the order.
LEMMA DeliverOrder ==
  ASSUME TypeOK, NEW k0 \in Clients, NEW m \in Reports, Deliver(k0, m),
         NEW k \in Clients, NEW r \in Rows, NEW kind \in Before, InOrder(k, r, kind),
         k = k0 /\ m = <<r, kind>> => ~Has(k, <<r, "STOPED">>)
  PROVE  InOrder(k, r, kind)'
<1>1. CASE UNCHANGED got
  BY <1>1 DEF InOrder
<1>2. CASE k # k0
  BY <1>2 DEF InOrder, Deliver, TypeOK
<1>3. CASE k = k0 /\ k0 \in m_clients
  <2>1. got[k] \in Seq(Reports) /\ got'[k] = Append(got[k], m)
    BY <1>3 DEF Deliver, TypeOK
  <2>2. /\ \A i \in DOMAIN got[k] : got'[k][i] = got[k][i]
        /\ \A i \in DOMAIN got'[k] :
             i \in DOMAIN got[k] \/ (i = Len(got[k]) + 1 /\ got'[k][i] = m)
        /\ DOMAIN got[k] = 1..Len(got[k]) /\ Len(got[k]) \in Nat
    <3>1. ASSUME NEW s \in Seq(Reports)
          PROVE  /\ \A i \in DOMAIN s : Append(s, m)[i] = s[i]
                 /\ \A i \in DOMAIN Append(s, m) :
                      i \in DOMAIN s \/ (i = Len(s) + 1 /\ Append(s, m)[i] = m)
                 /\ DOMAIN s = 1..Len(s) /\ Len(s) \in Nat
      BY AppendFacts
    <3> QED  BY <2>1, <3>1
  <2> SUFFICES ASSUME NEW i \in DOMAIN got'[k], NEW j \in DOMAIN got'[k],
                      got'[k][i] = <<r, "STOPED">>, got'[k][j] = <<r, kind>>
               PROVE  j < i
    BY DEF InOrder
  <2>3. CASE j \notin DOMAIN got[k]
    <3>1. m = <<r, kind>> /\ i \in DOMAIN got[k] /\ got[k][i] = <<r, "STOPED">>
      BY <2>2, <2>3, ReportsOf
    <3> QED  BY <1>3, <3>1 DEF Has
  <2>4. CASE j \in DOMAIN got[k] /\ i \notin DOMAIN got[k]
    BY <2>2, <2>4
  <2>5. CASE j \in DOMAIN got[k] /\ i \in DOMAIN got[k]
    BY <2>2, <2>5 DEF InOrder
  <2> QED  BY <2>3, <2>4, <2>5
<1> QED  BY <1>1, <1>2, <1>3 DEF Deliver

\* The lowest member of a broadcast is a client.
LEMMA FirstIsMember ==
  ASSUME WSServerAssumption, TypeOK, NEW m \in Reports, members[m] # {}
  PROVE  First(m) \in members[m] /\ First(m) \in Clients
<1>1. members[m] \in SUBSET Clients /\ members[m] \in SUBSET Nat
  BY DEF TypeOK, WSServerAssumption
<1> QED  BY <1>1, LowestIsMember DEF First

\* Who got the report that a row started, before it was told that the row
\* stopped, keeps it so.
LEMMA StartStep ==
  ASSUME TypeOK, Once, NEW k0 \in Clients, NEW m \in Reports, Deliver(k0, m), ~Has(k0, m),
         NEW k \in Clients, NEW r \in Rows,
         Has(k, <<r, "STARTED">>), InOrder(k, r, "STARTED")
  PROVE  Has(k, <<r, "STARTED">>)' /\ InOrder(k, r, "STARTED")'
<1>1. Has(k, <<r, "STARTED">>)'
  BY DeliverFacts, ReportsOf DEF Before
<1>2. ~ (k = k0 /\ m = <<r, "STARTED">>)
  OBVIOUS
<1> QED  BY <1>1, <1>2, DeliverOrder DEF Before

\* A report that is sent late, or to one console, goes to nobody out of order.
LEMMA SendOrder ==
  ASSUME WSServerAssumption, IInv, DataOrder, StartOrder,
         NEW k0 \in Clients, NEW m \in Reports, Deliver(k0, m), ~Has(k0, m),
         UNCHANGED members,
         \A r \in Rows : m = <<r, "DATA">> => ~Has(k0, <<r, "STOPED">>)
  PROVE  DataOrder' /\ StartOrder'
<1> USE DEF IInv
<1>1. DataOrder'
  BY DeliverOrder DEF DataOrder, Before
<1>2. ASSUME NEW r \in Rows, members[<<r, "STARTED">>] # {}, NEW k, k = First(<<r, "STARTED">>)
      PROVE  Has(k, <<r, "STARTED">>)' /\ InOrder(k, r, "STARTED")'
  <2>1. k \in Clients
    BY <1>2, FirstIsMember, ReportsOf DEF Before
  <2>2. Has(k, <<r, "STARTED">>) /\ InOrder(k, r, "STARTED")
    BY <1>2 DEF StartOrder
  <2> QED  BY <2>1, <2>2, StartStep
<1>3. \A m0 : First(m0)' = First(m0)
  BY DEF First
<1> QED  BY <1>1, <1>2, <1>3 DEF StartOrder, Has, InOrder

LEMMA BroadcastOrder == ASSUME WSServerAssumption, IInv, OInv, Broadcast PROVE OInv'
<1> DEFINE m == Head(signals)
           k0 == Lowest(m_clients)
<1> USE DEF IInv, OInv
<1>1. /\ signals # <<>> /\ m[2] # "DATA" /\ signals' = Tail(signals)
      /\ members' = [members EXCEPT ![m] = m_clients]
      /\ UNCHANGED <<m_clients, emitted>>
  BY DEF Broadcast
<1>2. m \in Reports /\ Unsent(m)
  BY <1>1, TakeSignal DEF Unsent
<1>3. QueueInv'
  BY <1>1, TakeOrder
<1>4. members[m] = {} /\ \A k \in Clients : ~Has(k, m)
  BY <1>2 DEF Fresh
<1>5. CASE m_clients = {}
  <2>1. UNCHANGED <<got, members>>
    BY <1>1, <1>4, <1>5 DEF Broadcast, TypeOK
  <2> QED  BY <1>3, <2>1 DEF DataOrder, StartOrder, InOrder, Has, First
<1>6. CASE m_clients # {}
  <2>1. k0 \in m_clients /\ k0 \in Clients
    <3>1. m_clients \in SUBSET Nat /\ m_clients \subseteq Clients
      BY DEF TypeOK, WSServerAssumption
    <3> QED  BY <1>6, <3>1, LowestIsMember
  <2>2. Deliver(k0, m)
    BY <1>6 DEF Broadcast, Send, Deliver
  <2>3. /\ members'[m] = m_clients
        /\ \A x \in Reports : x # m => members'[x] = members[x]
    BY <1>1, <1>2 DEF TypeOK
  <2>4. DataOrder'
    <3>1. \A r \in Rows : m # <<r, "DATA">>
      BY <1>1
    <3> QED  BY <1>2, <2>1, <2>2, <3>1, DeliverOrder DEF DataOrder, Before
  <2>5. ASSUME NEW r \in Rows, m = <<r, "STARTED">>
        PROVE  Has(k0, <<r, "STARTED">>)' /\ InOrder(k0, r, "STARTED")'
    <3>1. ~Has(k0, <<r, "STARTED">>) /\ ~Has(k0, <<r, "STOPED">>)
      <4>1. Unsent(<<r, "STOPED">>)
        BY <1>2, <2>5 DEF QueueInv, UnsentOrder, Before
      <4> QED  BY <1>4, <2>1, <2>5, <4>1, ReportsOf DEF Fresh
    <3> HIDE DEF m, k0
    <3>2. ASSUME NEW c \in Clients, NEW x \in Reports, c \in m_clients, x = <<r, "STARTED">>,
                 Deliver(c, x), ~Has(c, x), ~Has(c, <<r, "STOPED">>)
          PROVE  Has(c, <<r, "STARTED">>)' /\ InOrder(c, r, "STARTED")'
      <4>1. InOrder(c, r, "STARTED")
        BY <3>2 DEF InOrder, Has
      <4>2. Has(c, x)'
        BY <3>2, DeliverFacts
      <4> QED  BY <3>2, <4>1, <4>2, DeliverOrder DEF Before
    <3>3. k0' = k0
      BY <1>1 DEF k0
    <3> QED  BY <1>2, <2>1, <2>2, <2>5, <3>1, <3>2, <3>3 DEF Has, InOrder
  <2>6. ASSUME NEW r \in Rows, m # <<r, "STARTED">>, members[<<r, "STARTED">>] # {},
               NEW k, k = First(<<r, "STARTED">>)
        PROVE  Has(k, <<r, "STARTED">>)' /\ InOrder(k, r, "STARTED")'
    <3>1. k \in Clients
      BY <2>6, FirstIsMember, ReportsOf DEF Before
    <3>2. Has(k, <<r, "STARTED">>) /\ InOrder(k, r, "STARTED")
      BY <2>6 DEF StartOrder
    <3> QED  BY <1>2, <1>4, <2>1, <2>2, <3>1, <3>2, StartStep
  <2>7. StartOrder'
    <3> SUFFICES ASSUME NEW r \in Rows, members'[<<r, "STARTED">>] # {}
                 PROVE  /\ Has(First(<<r, "STARTED">>), <<r, "STARTED">>)'
                        /\ InOrder(First(<<r, "STARTED">>), r, "STARTED")'
      BY DEF StartOrder
    <3>1. <<r, "STARTED">> \in Reports
      BY ReportsOf DEF Before
    <3>2. CASE m = <<r, "STARTED">>
      <4>1. First(<<r, "STARTED">>)' = k0 /\ k0' = k0
        BY <1>1, <2>3, <3>2 DEF First
      <4> HIDE DEF k0, m
      <4> QED  BY <2>5, <3>2, <4>1 DEF Has, InOrder
    <3>3. CASE m # <<r, "STARTED">>
      <4>1. First(<<r, "STARTED">>)' = First(<<r, "STARTED">>) /\ members[<<r, "STARTED">>] # {}
        BY <2>3, <3>1, <3>3 DEF First
      <4> QED  BY <2>6, <3>3, <4>1 DEF Has, InOrder
    <3> QED  BY <3>2, <3>3
  <2> QED  BY <1>3, <2>4, <2>7
<1> QED  BY <1>5, <1>6

LEMMA ThroughputOrder == ASSUME WSServerAssumption, IInv, OInv, OnThroughput PROVE OInv'
<1> DEFINE m == Head(signals)
           k0 == Target[m[1]]
<1> USE DEF IInv, OInv
<1>1. /\ signals # <<>> /\ signals' = Tail(signals) /\ UNCHANGED <<emitted, members>>
      /\ Deliver(k0, m)
  BY DEF OnThroughput, Deliver
<1>2. m \in Reports /\ Unsent(m)
  BY <1>1, TakeSignal DEF Unsent
<1>3. k0 \in Clients /\ ~Has(k0, m)
  BY <1>2 DEF WSServerAssumption, Reports, Fresh
<1>4. \A r \in Rows : m = <<r, "DATA">> => ~Has(k0, <<r, "STOPED">>)
  <2> SUFFICES ASSUME NEW r \in Rows, m = <<r, "DATA">> PROVE ~Has(k0, <<r, "STOPED">>)
    OBVIOUS
  <2>1. Unsent(<<r, "STOPED">>)
    BY <1>2 DEF QueueInv, UnsentOrder, Before
  <2> QED  BY <1>3, <2>1, ReportsOf DEF Fresh
<1>5. QueueInv'
  BY <1>1, TakeOrder
<1> QED  BY <1>1, <1>2, <1>3, <1>4, <1>5, SendOrder

LEMMA ResumeOrder == ASSUME WSServerAssumption, IInv, OInv, Resume PROVE OInv'
<1> USE DEF IInv, OInv
<1>1. UNCHANGED <<signals, emitted, members>>
  BY DEF Resume
<1>2. QueueInv'
  BY <1>1 DEF QueueInv, QueueOrder, UnsentOrder, Unsent, Queued, Emitted
<1>3. CASE Top.ts = {}
  <2>1. UNCHANGED got
    BY <1>3 DEF Resume
  <2> QED  BY <1>1, <1>2, <2>1 DEF DataOrder, StartOrder, InOrder, Has, First
<1>4. CASE Top.ts # {}
  <2> DEFINE m == Top.msg
             k0 == Lowest(Top.ts)
             Frame == [msg : Reports, ts : SUBSET Clients]
  <2>1. /\ Len(frames) \in DOMAIN frames /\ frames[Len(frames)] \in Frame
        /\ Top = frames[Len(frames)]
    <3>1. frames \in Seq(Frame) /\ frames # <<>>
      BY DEF Resume, TypeOK
    <3> HIDE DEF Frame
    <3> QED  BY <3>1, SequenceFacts DEF Top
  <2>2. m \in Reports /\ Top.ts \in SUBSET Clients /\ Top.ts \in SUBSET Nat
    BY <2>1 DEF WSServerAssumption
  <2>3. k0 \in Top.ts /\ k0 \in Clients
    BY <1>4, <2>2, LowestIsMember
  <2>4. Pending(m, k0) /\ InFrame(m)
    BY <2>1, <2>3 DEF Pending, InFrame
  <2>5. ~Has(k0, m) /\ m[2] # "DATA"
    BY <2>2, <2>3, <2>4 DEF Served, FrameInv
  <2>6. Deliver(k0, m)
    BY <1>4 DEF Resume, Send, Deliver
  <2>7. DataOrder' /\ StartOrder'
    <3>1. \A r \in Rows : m # <<r, "DATA">>
      BY <2>5
    <3> QED  BY <1>1, <2>2, <2>3, <2>5, <2>6, <3>1, SendOrder
  <2> QED  BY <1>2, <2>7
<1> QED  BY <1>3, <1>4

-----------------------------------------------------------------------------
LEMMA OrderInductive == Spec => [](IInv /\ OInv)
<1>1. Init => OInv
  <2> SUFFICES ASSUME Init PROVE OInv
    OBVIOUS
  <2>1. QueueOrder /\ DataOrder /\ StartOrder
    <3>1. /\ DOMAIN signals = {} /\ \A k \in Clients : DOMAIN got[k] = {}
          /\ \A m \in Reports : members[m] = {}
      BY DEF Init
    <3>2. QueueOrder /\ DataOrder
      BY <3>1 DEF QueueOrder, DataOrder, InOrder
    <3>3. StartOrder
      BY <3>1, ReportsOf DEF StartOrder, Before
    <3> QED  BY <3>2, <3>3
  <2>2. UnsentOrder
    BY DEF Init, UnsentOrder, Unsent, Emitted, Queued
  <2> QED  BY <2>1, <2>2 DEF OInv, QueueInv
<1>2. IInv /\ OInv /\ [Next]_vars => OInv'
  <2> SUFFICES ASSUME IInv, OInv, [Next]_vars PROVE OInv'
    OBVIOUS
  <2>1. ASSUME UNCHANGED <<got, members>>, QueueInv'
        PROVE  OInv'
    BY <2>1 DEF OInv, DataOrder, StartOrder, InOrder, Has, First
  <2>2. CASE \E r \in Rows : Emit(r)
    BY <2>1, <2>2, EmitOrder DEF Emit, OInv
  <2>3. CASE \E k \in Clients : OnNewConnection(k) \/ SocketDisconnected(k)
    <3>1. UNCHANGED <<signals, emitted, got, members>>
      BY <2>3 DEF OnNewConnection, SocketDisconnected
    <3> QED  BY <2>1, <3>1 DEF OInv, QueueInv, QueueOrder, UnsentOrder, Unsent, Queued, Emitted
  <2>4. CASE Broadcast
    BY <2>4, BroadcastOrder, WSServerAssumption
  <2>5. CASE OnThroughput
    BY <2>5, ThroughputOrder, WSServerAssumption
  <2>6. CASE Resume
    BY <2>6, ResumeOrder, WSServerAssumption
  <2>7. CASE UNCHANGED vars
    BY <2>1, <2>7
       DEF vars, OInv, QueueInv, QueueOrder, UnsentOrder, Unsent, Queued, Emitted
  <2> QED  BY <2>2, <2>3, <2>4, <2>5, <2>6, <2>7 DEF Next
<1> QED  BY <1>1, <1>2, Inductive, PTL DEF Spec

\* No console gets throughput of a row after it was told that the row stopped,
\* however broadcasts nest: throughput that is handled after STOPED was would
\* have been emitted after it (onThroughput, onFinished).
THEOREM StopEndsData == Spec => []NoDataAfterStop
<1>1. IInv /\ OInv => NoDataAfterStop
  <2> SUFFICES ASSUME IInv, OInv, NEW k \in Clients,
                      NEW i \in DOMAIN got[k], NEW j \in DOMAIN got[k],
                      got[k][i][2] = "STOPED", got[k][j][2] = "DATA",
                      got[k][i][1] = got[k][j][1]
               PROVE  j < i
    BY DEF NoDataAfterStop
  <2>1. got[k][i] \in Reports /\ got[k][j] \in Reports
    <3>1. got[k] \in Seq(Reports)
      BY DEF IInv, TypeOK
    <3> QED  BY <3>1, SequenceFacts
  <2>2. PICK r \in Rows : got[k][i] = <<r, "STOPED">> /\ got[k][j] = <<r, "DATA">>
    BY <2>1 DEF Reports
  <2> QED  BY <2>2 DEF OInv, DataOrder, InOrder
<1> QED  BY <1>1, OrderInductive, PTL

\* The console with the lowest key is told that a row started before it is told
\* that it stopped: it is served before a broadcast handles any event
\* (sendTextMessage), and the signals of a worker are taken in order.
THEOREM LowestSeesOrder == Spec => []LowestInOrder
<1>1. IInv /\ OInv => LowestInOrder
  BY DEF OInv, StartOrder, LowestInOrder, InOrder, First
<1> QED  BY <1>1, OrderInductive, PTL
=============================================================================
