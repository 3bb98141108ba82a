---------------------------- MODULE TrayPipeProofs ----------------------------
(***************************************************************************)
(* Proofs about TrayPipe, for every number of daemons and trays that run   *)
(* one after another, and of messages that pile up: answers come in order. *)
(***************************************************************************)
EXTENDS TrayPipe, WellFoundedInduction, TLAPS

\* A connection, when n daemons were started.
Conn(n) ==
  [epoch : 1..n, up : Seq(Messages), unreadD : Seq(Messages), down : Seq(Asks),
   unreadT : Seq(Asks), daemonEnd : BOOLEAN, trayEnd : BOOLEAN]

\* An open connection is the running daemon's, and only such a one carries
\* messages to it; the last daemon is not told to end.
Ending == {"QIPERFD_RESTART", SecondArgs}
ConnOK(c, n, up) ==
  /\ c.daemonEnd => up /\ c.epoch = n
  /\ ~c.daemonEnd => c.up = <<>> /\ c.unreadD = <<>>
  /\ n = MaxEpochs => (Range(c.up) \cup Range(c.unreadD)) \cap Ending = {}
ConnInv == \A i \in DOMAIN conns : ConnOK(conns[i], epoch, alive)
DaemonInv == /\ restarting => alive
             /\ epoch = MaxEpochs => alive /\ ~restarting

\* What is registered, and what is on the stack.
ListInv == m_locals \in Seq(DOMAIN conns) /\ stack \in Seq(DOMAIN conns)

\* Closed by the daemon, or a second instance's.
Aside(c) == c.daemonEnd => Range(c.up) \subseteq {SecondArgs} /\ c.unreadD = <<>>

\* As long as there was one tray, only its connection is read and answered.
SingleInv ==
  /\ sock # 0 => conns[sock].trayEnd
  /\ tray = 0 => sock = 0
  /\ tray <= 1 =>
       /\ \A i \in DOMAIN conns : i # sock => Aside(conns[i])
       /\ Range(m_locals) \subseteq {sock}
       /\ \A i \in Range(stack) : i = sock \/ ~conns[i].daemonEnd

\* What the tray waits for is on connection c.
Answered(w, c) == c.daemonEnd => w = c.unreadT \o c.down \o Asked(c.unreadD \o c.up)

IInv == TypeOK /\ ListInv /\ ConnInv /\ DaemonInv /\ SingleInv /\ AnswersInOrder

-----------------------------------------------------------------------------
(* Sequences *)

LEMMA ConcatFacts ==
  ASSUME NEW S, NEW s \in Seq(S), NEW t \in Seq(S)
  PROVE  /\ s \o t \in Seq(S)
         /\ Len(s \o t) = Len(s) + Len(t) /\ Len(s) \in Nat /\ Len(t) \in Nat
         /\ DOMAIN s = 1..Len(s) /\ DOMAIN t = 1..Len(t)
         /\ DOMAIN (s \o t) = 1..(Len(s) + Len(t))
         /\ \A i \in 1..Len(s) : (s \o t)[i] = s[i]
         /\ \A i \in 1..Len(t) : (s \o t)[Len(s) + i] = t[i]
OBVIOUS

LEMMA SameSeq ==
  ASSUME NEW S, NEW s \in Seq(S), NEW t \in Seq(S), Len(s) = Len(t),
         \A i \in 1..Len(s) : s[i] = t[i]
  PROVE  s = t
OBVIOUS

LEMMA ConcatAssoc ==
  ASSUME NEW S, NEW s \in Seq(S), NEW t \in Seq(S), NEW u \in Seq(S)
  PROVE  (s \o t) \o u = s \o (t \o u)
OBVIOUS

LEMMA EmptyFacts ==
  ASSUME NEW S
  PROVE  /\ <<>> \in Seq(S) /\ Range(<<>>) = {} /\ Len(<<>>) = 0
         /\ \A s \in Seq(S) : s \o <<>> = s /\ <<>> \o s = s
         /\ \A e \in S : <<e>> \in Seq(S) /\ Range(<<e>>) = {e} /\ Len(<<e>>) = 1 /\ <<e>>[1] = e
         /\ \A s \in Seq(S), e \in S : Append(s, e) = s \o <<e>>
<1>1. Range(<<>>) = {} /\ Len(<<>>) = 0 /\ <<>> \in Seq(S)
  BY DEF Range
<1>2. \A s \in Seq(S) : s \o <<>> = s /\ <<>> \o s = s
  OBVIOUS
<1>3. ASSUME NEW e \in S
      PROVE  <<e>> \in Seq(S) /\ Range(<<e>>) = {e} /\ Len(<<e>>) = 1 /\ <<e>>[1] = e
  <2>1. DOMAIN <<e>> = {1} /\ <<e>>[1] = e
    OBVIOUS
  <2> QED  BY <2>1 DEF Range
<1>4. \A s \in Seq(S), e \in S : Append(s, e) = s \o <<e>>
  OBVIOUS
<1> QED  BY <1>1, <1>2, <1>3, <1>4

LEMMA RangeConcat ==
  ASSUME NEW S, NEW s \in Seq(S), NEW t \in Seq(S)
  PROVE  Range(s \o t) = Range(s) \cup Range(t)
<1>1. ASSUME NEW x \in Range(s \o t)
      PROVE  x \in Range(s) \cup Range(t)
  <2>1. PICK i \in 1..(Len(s) + Len(t)) : x = (s \o t)[i]
    BY ConcatFacts DEF Range
  <2>2. CASE i <= Len(s)
    <3>1. i \in 1..Len(s)
      BY <2>2, ConcatFacts
    <3> QED  BY <2>1, <3>1, ConcatFacts DEF Range
  <2>3. CASE ~(i <= Len(s))
    <3>1. i - Len(s) \in 1..Len(t) /\ Len(s) + (i - Len(s)) = i
      BY <2>3, ConcatFacts
    <3>2. (s \o t)[i] = t[i - Len(s)]
      BY <3>1, ConcatFacts
    <3> QED  BY <2>1, <3>1, <3>2, ConcatFacts DEF Range
  <2> QED  BY <2>2, <2>3
<1>2. \A i \in 1..Len(s) : i \in DOMAIN (s \o t)
  BY ConcatFacts
<1>3. \A i \in 1..Len(t) : Len(s) + i \in DOMAIN (s \o t)
  BY ConcatFacts
<1>4. ASSUME NEW i \in DOMAIN s
      PROVE  s[i] \in Range(s \o t)
  <2>1. i \in 1..Len(s) /\ (s \o t)[i] = s[i]
    BY ConcatFacts
  <2> QED  BY <1>2, <2>1 DEF Range
<1>5. ASSUME NEW i \in DOMAIN t
      PROVE  t[i] \in Range(s \o t)
  <2>1. i \in 1..Len(t) /\ (s \o t)[Len(s) + i] = t[i]
    BY ConcatFacts
  <2> QED  BY <1>3, <2>1 DEF Range
<1> QED  BY <1>1, <1>4, <1>5 DEF Range

LEMMA HeadTail ==
  ASSUME NEW S, NEW s \in Seq(S), s # <<>>
  PROVE  /\ Head(s) \in S /\ Tail(s) \in Seq(S) /\ s = <<Head(s)>> \o Tail(s)
         /\ Range(s) = {Head(s)} \cup Range(Tail(s))
<1>1. Head(s) \in S /\ Tail(s) \in Seq(S) /\ s = <<Head(s)>> \o Tail(s)
  OBVIOUS
<1>2. <<Head(s)>> \in Seq(S) /\ Range(<<Head(s)>>) = {Head(s)}
  BY <1>1, EmptyFacts
<1> DEFINE h == <<Head(s)>>
           t == Tail(s)
<1>3. h \in Seq(S) /\ t \in Seq(S) /\ s = h \o t
  BY <1>1, <1>2
<1> HIDE DEF h, t
<1>4. Range(s) = Range(h) \cup Range(t)
  BY <1>3, RangeConcat
<1> QED  BY <1>1, <1>2, <1>4 DEF h, t

\* The first n, and the rest.
LEMMA Splits ==
  ASSUME NEW S, NEW s \in Seq(S), NEW n \in 1..Len(s)
  PROVE  /\ SubSeq(s, 1, n) \in Seq(S) /\ SubSeq(s, n + 1, Len(s)) \in Seq(S)
         /\ SubSeq(s, 1, n) # <<>>
         /\ SubSeq(s, 1, n) \o SubSeq(s, n + 1, Len(s)) = s
<1>1. Len(s) \in Nat /\ n \in Nat /\ 1 <= n /\ n <= Len(s)
  OBVIOUS
<1> DEFINE t == SubSeq(s, 1, n)
           u == SubSeq(s, n + 1, Len(s))
<1>2. /\ t \in Seq(S) /\ Len(t) = n /\ u \in Seq(S) /\ Len(u) = Len(s) - n
      /\ \A i \in 1..n : t[i] = s[i]
      /\ \A i \in 1..(Len(s) - n) : u[i] = s[n + i]
  BY <1>1
<1> HIDE DEF t, u
<1>3. t \o u \in Seq(S) /\ Len(t \o u) = Len(s)
  <2>1. t \in Seq(S) /\ u \in Seq(S) /\ Len(t) + Len(u) = Len(s)
    BY <1>1, <1>2
  <2>2. t \o u \in Seq(S) /\ Len(t \o u) = Len(t) + Len(u)
    BY <2>1, ConcatFacts
  <2> QED  BY <2>1, <2>2
<1>4. \A i \in 1..Len(s) : (t \o u)[i] = s[i]
  <2> TAKE i \in 1..Len(s)
  <2>1. CASE i <= n
    <3>1. i \in 1..n
      BY <1>1, <2>1
    <3> QED  BY <1>2, <3>1, ConcatFacts
  <2>2. CASE ~(i <= n)
    <3>1. i - n \in 1..(Len(s) - n) /\ n + (i - n) = i
      BY <1>1, <2>2
    <3>2. (t \o u)[n + (i - n)] = u[i - n]
      BY <1>2, <3>1, ConcatFacts
    <3> QED  BY <1>2, <3>1, <3>2
  <2> QED  BY <2>1, <2>2
<1>5. t \o u = s
  BY <1>3, <1>4, SameSeq
<1>6. t # <<>>
  BY <1>1, <1>2
<1> QED  BY <1>2, <1>5, <1>6 DEF t, u

-----------------------------------------------------------------------------
(* The questions among messages *)

Less == {pair \in Nat \X Nat : pair[1] < pair[2]}

\* What holds of 0, and of each number after the one before, holds up to n.
LEMMA Upwards ==
  ASSUME NEW n \in Nat, NEW S, 0 \in S, \A i \in 1..n : i - 1 \in S => i \in S
  PROVE  0..n \subseteq S
<1> SUFFICES ASSUME ~(0..n \subseteq S)
             PROVE  FALSE
  OBVIOUS
<1> DEFINE T == {i \in 0..n : i \notin S}
<1>1. T \in SUBSET Nat /\ T # {}
  OBVIOUS
<1>2. IsWellFoundedOn(Less, Nat)
  BY Zenon, NatLessThanWellFounded DEF OpToRel, Less
<1>3. PICK x \in T : \A y \in T : ~ (<<y, x>> \in Less)
  BY <1>1, <1>2, WFMin, Zenon
<1>4. x \in 1..n /\ x \notin S
  BY <1>3
<1>5. x - 1 \in S
  <2>1. x - 1 \in 0..n /\ x - 1 \in Nat /\ x \in Nat /\ x - 1 < x
    BY <1>4
  <2>2. <<x - 1, x>> \in Less
    BY <2>1 DEF Less
  <2> QED  BY <1>3, <2>1, <2>2
<1> QED  BY <1>4, <1>5

\* f counts up the questions among q.
Next1(s, x) == IF x \in Asks THEN Append(s, x) ELSE s
Counts(q, f) ==
  /\ f \in [0..Len(q) -> Seq(Asks)] /\ f[0] = <<>>
  /\ \A i \in 1..Len(q) : f[i] = Next1(f[i - 1], q[i])

LEMMA CountsUpTo ==
  ASSUME NEW q \in Seq(Messages), NEW n \in 0..Len(q)
  PROVE  \E f \in [0..n -> Seq(Asks)] :
           f[0] = <<>> /\ \A i \in 1..n : f[i] = Next1(f[i - 1], q[i])
<1> DEFINE Up(m, f) == /\ f \in [0..m -> Seq(Asks)] /\ f[0] = <<>>
                       /\ \A i \in 1..m : f[i] = Next1(f[i - 1], q[i])
           S == {m \in 0..Len(q) : \E f : Up(m, f)}
<1>1. Len(q) \in Nat
  OBVIOUS
<1>2. 0 \in S
  <2> DEFINE f == [i \in 0..0 |-> <<>>]
  <2>1. Up(0, f)
    OBVIOUS
  <2> HIDE DEF Up
  <2> QED  BY <1>1, <2>1
<1>3. ASSUME NEW m \in 1..Len(q), m - 1 \in S
      PROVE  m \in S
  <2>1. PICK f : Up(m - 1, f)
    BY <1>3
  <2>2. /\ f \in [0..(m - 1) -> Seq(Asks)] /\ f[0] = <<>>
        /\ \A i \in 1..(m - 1) : f[i] = Next1(f[i - 1], q[i])
    BY <2>1
  <2> DEFINE g == [i \in 0..m |-> IF i = m THEN Next1(f[m - 1], q[m]) ELSE f[i]]
  <2>3. Next1(f[m - 1], q[m]) \in Seq(Asks)
    <3>1. m - 1 \in 0..(m - 1)
      BY <1>1
    <3>2. f[m - 1] \in Seq(Asks)
      BY <2>2, <3>1
    <3> QED  BY <3>2 DEF Next1
  <2>4. g \in [0..m -> Seq(Asks)] /\ g[0] = <<>> /\ g[m] = Next1(f[m - 1], q[m])
    <3>1. \A i \in 0..m : i = m \/ i \in 0..(m - 1)
      BY <1>1
    <3>2. 0 \in 0..m /\ 0 # m /\ m \in 0..m
      BY <1>1
    <3> QED  BY <2>2, <2>3, <3>1, <3>2
  <2>5. \A i \in 0..(m - 1) : g[i] = f[i]
    <3>1. \A i \in 0..(m - 1) : i \in 0..m /\ i # m
      BY <1>1
    <3> QED  BY <3>1
  <2> HIDE DEF g
  <2>6. \A i \in 1..m : g[i] = Next1(g[i - 1], q[i])
    <3> TAKE i \in 1..m
    <3>1. i - 1 \in 0..(m - 1)
      BY <1>1
    <3>2. CASE i = m
      BY <2>4, <2>5, <3>1, <3>2
    <3>3. CASE i # m
      <4>1. i \in 1..(m - 1) /\ i \in 0..(m - 1)
        BY <1>1, <3>3
      <4> QED  BY <2>2, <2>5, <3>1, <4>1
    <3> QED  BY <3>2, <3>3
  <2>7. Up(m, g)
    BY <2>4, <2>6
  <2> HIDE DEF Up
  <2>8. m \in 0..Len(q)
    BY <1>1
  <2> QED  BY <2>7, <2>8
<1> HIDE DEF S
<1>4. 0..Len(q) \subseteq S
  BY <1>1, <1>2, <1>3, Upwards
<1>5. n \in S
  BY <1>4
<1> QED  BY <1>5 DEF S

LEMMA CountsSame ==
  ASSUME NEW q \in Seq(Messages), NEW f, Counts(q, f), NEW g,
         g[0] = <<>>, \A i \in 1..Len(q) : g[i] = Next1(g[i - 1], q[i])
  PROVE  g[Len(q)] = f[Len(q)]
<1> DEFINE S == {i \in 0..Len(q) : g[i] = f[i]}
<1>1. Len(q) \in Nat /\ Len(q) \in 0..Len(q)
  OBVIOUS
<1>2. 0 \in S
  BY <1>1 DEF Counts
<1>3. \A i \in 1..Len(q) : i - 1 \in S => i \in S
  BY <1>1 DEF Counts
<1> HIDE DEF S
<1>4. 0..Len(q) \subseteq S
  BY <1>1, <1>2, <1>3, Upwards
<1>5. Len(q) \in S
  BY <1>1, <1>4
<1> QED  BY <1>5 DEF S

LEMMA AskedCounts ==
  ASSUME NEW q \in Seq(Messages)
  PROVE  \E f : Counts(q, f) /\ Asked(q) = f[Len(q)]
<1> DEFINE A(a) == [i \in 0..Len(q) |->
                      IF i = 0 THEN <<>>
                      ELSE IF q[i] \in Asks THEN Append(a[i - 1], q[i]) ELSE a[i - 1]]
           h == CHOOSE a : a = A(a)
<1>1. Asked(q) = h[Len(q)]
  BY Zenon DEF Asked
<1>2. Len(q) \in Nat /\ Len(q) \in 0..Len(q)
  OBVIOUS
<1>3. PICK f \in [0..Len(q) -> Seq(Asks)] :
        f[0] = <<>> /\ \A i \in 1..Len(q) : f[i] = Next1(f[i - 1], q[i])
  BY <1>2, CountsUpTo
<1>4. Counts(q, f)
  BY <1>3 DEF Counts
<1>5. \A i \in 0..Len(q) : f[i] = A(f)[i]
  <2> TAKE i \in 0..Len(q)
  <2>1. i = 0 \/ i \in 1..Len(q)
    BY <1>2
  <2> QED  BY <1>3, <2>1 DEF Next1
<1>6. f = A(f)
  BY <1>3, <1>5
<1> HIDE DEF A
<1>7. h = A(h)
  BY <1>6, Zenon
<1> USE DEF A
<1> HIDE DEF h
<1>8. h[0] = <<>> /\ \A i \in 1..Len(q) : h[i] = Next1(h[i - 1], q[i])
  <2>1. \A i \in 0..Len(q) : h[i] = IF i = 0 THEN <<>> ELSE Next1(h[i - 1], q[i])
    BY <1>7, Zenon DEF Next1
  <2>2. 0 \in 0..Len(q) /\ \A i \in 1..Len(q) : i \in 0..Len(q) /\ i # 0
    BY <1>2
  <2> QED  BY <2>1, <2>2
<1>9. h[Len(q)] = f[Len(q)]
  BY <1>4, <1>8, CountsSame
<1> QED  BY <1>1, <1>4, <1>9

\* The questions of two lists, one behind the other.
LEMMA AskedConcat ==
  ASSUME NEW s \in Seq(Messages), NEW t \in Seq(Messages)
  PROVE  Asked(s \o t) = Asked(s) \o Asked(t)
<1> DEFINE q == s \o t
           m == Len(s)
           n == Len(t)
<1>1. /\ q \in Seq(Messages) /\ Len(q) = m + n /\ m \in Nat /\ n \in Nat
      /\ \A i \in 1..m : q[i] = s[i]
      /\ \A i \in 1..n : q[m + i] = t[i]
  BY ConcatFacts
<1> HIDE DEF q
<1>2. PICK f : Counts(s, f) /\ Asked(s) = f[m]
  BY AskedCounts
<1>3. PICK g : Counts(t, g) /\ Asked(t) = g[n]
  BY AskedCounts
<1>4. PICK h : Counts(q, h) /\ Asked(q) = h[Len(q)]
  BY <1>1, AskedCounts
<1>5. /\ h[0] = <<>> /\ \A i \in 1..(m + n) : h[i] = Next1(h[i - 1], q[i])
      /\ f[0] = <<>> /\ \A i \in 1..m : f[i] = Next1(f[i - 1], s[i])
      /\ g[0] = <<>> /\ \A i \in 1..n : g[i] = Next1(g[i - 1], t[i])
      /\ f \in [0..m -> Seq(Asks)] /\ g \in [0..n -> Seq(Asks)]
  BY <1>1, <1>2, <1>3, <1>4 DEF Counts
<1> HIDE DEF m, n
<1>6. h[m] = f[m]
  <2> DEFINE S == {i \in 0..m : h[i] = f[i]}
  <2>1. 0 \in S
    BY <1>1, <1>5, SMTT(30)
  <2>2. \A i \in 1..m : i - 1 \in S => i \in S
    <3> TAKE i \in 1..m
    <3>1. i \in 1..(m + n) /\ i \in 0..m
      BY <1>1
    <3> QED  BY <1>1, <1>5, <3>1
  <2> HIDE DEF S
  <2>3. 0..m \subseteq S
    BY <1>1, <2>1, <2>2, Upwards
  <2>4. m \in S
    BY <1>1, <2>3
  <2> QED  BY <2>4 DEF S
<1>7. f[m] \in Seq(Asks) /\ \A i \in 0..n : g[i] \in Seq(Asks)
  BY <1>1, <1>5
<1> DEFINE fm == f[m]
<1> HIDE DEF fm
<1>8. h[m + n] = fm \o g[n]
  <2> DEFINE S == {i \in 0..n : h[m + i] = fm \o g[i]}
  <2>1. 0 \in S
    <3>1. fm \o <<>> = fm /\ m + 0 = m /\ 0 \in 0..n
      BY <1>1, <1>7 DEF fm
    <3> QED  BY <1>5, <1>6, <3>1 DEF fm
  <2>2. \A i \in 1..n : i - 1 \in S => i \in S
    <3> SUFFICES ASSUME NEW i \in 1..n, i - 1 \in S
                 PROVE  i \in S
      OBVIOUS
    <3>1. m + i \in 1..(m + n) /\ (m + i) - 1 = m + (i - 1) /\ i \in 0..n /\ i - 1 \in 0..n
      BY <1>1
    <3>2. h[m + i] = Next1(h[m + (i - 1)], t[i])
      BY <1>1, <1>5, <3>1
    <3>3. h[m + (i - 1)] = fm \o g[i - 1]
      OBVIOUS
    <3>4. g[i] = Next1(g[i - 1], t[i])
      BY <1>5
    <3>5. Next1(fm \o g[i - 1], t[i]) = fm \o Next1(g[i - 1], t[i])
      <4>1. \A u, v \in Seq(Asks), x \in Asks : Append(u \o v, x) = u \o Append(v, x)
        <5> TAKE u, v \in Seq(Asks), x \in Asks
        <5>1. Append(v, x) = v \o <<x>> /\ <<x>> \in Seq(Asks) /\ u \o v \in Seq(Asks)
          OBVIOUS
        <5>2. Append(u \o v, x) = (u \o v) \o <<x>>
          BY <5>1
        <5>3. (u \o v) \o <<x>> = u \o (v \o <<x>>)
          BY <5>1, ConcatAssoc, SMTT(30)
        <5> QED  BY <5>1, <5>2, <5>3
      <4> QED  BY <1>7, <3>1, <4>1 DEF Next1, fm
    <3> QED  BY <3>1, <3>2, <3>3, <3>4, <3>5
  <2> HIDE DEF S
  <2>3. 0..n \subseteq S
    BY <1>1, <2>1, <2>2, Upwards
  <2>4. n \in S
    BY <1>1, <2>3
  <2> QED  BY <2>4 DEF S
<1> QED  BY <1>1, <1>8, <1>2, <1>3, <1>4 DEF fm, q

LEMMA AskedFacts ==
  /\ Asked(<<>>) = <<>>
  /\ \A x \in Messages : Asked(<<x>>) = IF x \in Asks THEN <<x>> ELSE <<>>
  /\ \A q \in Seq(Messages) : Asked(q) \in Seq(Asks)
  /\ \A s, t \in Seq(Messages) : Asked(s \o t) = Asked(s) \o Asked(t)
<1>1. Asked(<<>>) = <<>>
  <2>1. <<>> \in Seq(Messages) /\ Len(<<>>) = 0
    OBVIOUS
  <2>2. PICK f : Counts(<<>>, f) /\ Asked(<<>>) = f[Len(<<>>)]
    BY <2>1, AskedCounts
  <2> QED  BY <2>1, <2>2 DEF Counts
<1>2. ASSUME NEW x \in Messages
      PROVE  Asked(<<x>>) = IF x \in Asks THEN <<x>> ELSE <<>>
  <2>1. <<x>> \in Seq(Messages) /\ Len(<<x>>) = 1 /\ <<x>>[1] = x
    OBVIOUS
  <2>2. PICK f : Counts(<<x>>, f) /\ Asked(<<x>>) = f[Len(<<x>>)]
    BY <2>1, AskedCounts
  <2>3. f[1] = Next1(f[1 - 1], <<x>>[1]) /\ f[0] = <<>>
    <3>1. 1 \in 1..Len(<<x>>)
      BY <2>1
    <3> QED  BY <2>2, <3>1 DEF Counts
  <2>4. f[1] = Next1(<<>>, x)
    BY <2>1, <2>3
  <2>5. Append(<<>>, x) = <<x>>
    OBVIOUS
  <2> QED  BY <2>1, <2>2, <2>4, <2>5 DEF Next1
<1>3. ASSUME NEW q \in Seq(Messages)
      PROVE  Asked(q) \in Seq(Asks)
  <2>1. PICK f : Counts(q, f) /\ Asked(q) = f[Len(q)]
    BY AskedCounts
  <2>2. Len(q) \in 0..Len(q)
    OBVIOUS
  <2> QED  BY <2>1, <2>2 DEF Counts
<1>4. \A s, t \in Seq(Messages) : Asked(s \o t) = Asked(s) \o Asked(t)
  BY AskedConcat
<1> QED  BY <1>1, <1>2, <1>3, <1>4

-----------------------------------------------------------------------------
(* Connections *)

LEMMA Facts ==
  ASSUME IInv
  PROVE  /\ conns \in Seq(Conn(epoch)) /\ DOMAIN conns = 1..Len(conns) /\ Len(conns) \in Nat
         /\ \A i \in DOMAIN conns : conns[i] \in Conn(epoch) /\ ConnOK(conns[i], epoch, alive)
         /\ epoch \in 1..MaxEpochs /\ epoch \in Nat /\ MaxEpochs \in Nat /\ alive \in BOOLEAN
         /\ sock \in 0..Len(conns) /\ (sock # 0 => sock \in DOMAIN conns) /\ sock \in Nat
         /\ wait \in Seq(Asks) /\ tray \in 0..MaxTrays /\ tray \in Nat
         /\ lag \in Nat /\ MaxLag \in Nat /\ MaxTrays \in Nat
<1>1. /\ conns \in Seq(Conn(epoch)) /\ epoch \in 1..MaxEpochs /\ sock \in 0..Len(conns)
      /\ wait \in Seq(Asks) /\ tray \in 0..MaxTrays /\ lag \in 0..MaxLag /\ alive \in BOOLEAN
  BY DEF IInv, TypeOK, Conn
<1>2. MaxEpochs \in Nat /\ MaxTrays \in Nat /\ MaxLag \in Nat
  BY TrayPipeAssumption
<1>3. DOMAIN conns = 1..Len(conns) /\ Len(conns) \in Nat /\ \A i \in DOMAIN conns : conns[i] \in Conn(epoch)
  BY <1>1
<1>4. \A i \in DOMAIN conns : ConnOK(conns[i], epoch, alive)
  BY DEF IInv, ConnInv
<1> QED  BY <1>1, <1>2, <1>3, <1>4

LEMMA Changed ==
  ASSUME NEW n, NEW cs \in Seq(Conn(n)), NEW i \in DOMAIN cs, NEW c \in Conn(n)
  PROVE  /\ [cs EXCEPT ![i] = c] \in Seq(Conn(n)) /\ DOMAIN [cs EXCEPT ![i] = c] = DOMAIN cs
         /\ Len([cs EXCEPT ![i] = c]) = Len(cs)
         /\ [cs EXCEPT ![i] = c][i] = c
         /\ \A j \in DOMAIN cs : j # i => [cs EXCEPT ![i] = c][j] = cs[j]
OBVIOUS

LEMMA Appended ==
  ASSUME NEW n, NEW cs \in Seq(Conn(n)), NEW c \in Conn(n)
  PROVE  /\ Append(cs, c) \in Seq(Conn(n)) /\ Len(Append(cs, c)) = Len(cs) + 1 /\ Len(cs) \in Nat
         /\ Len(Append(cs, c)) \in DOMAIN Append(cs, c) /\ Len(cs) + 1 \notin DOMAIN cs
         /\ DOMAIN Append(cs, c) = DOMAIN cs \cup {Len(cs) + 1}
         /\ Append(cs, c)[Len(cs) + 1] = c
         /\ \A j \in DOMAIN cs : Append(cs, c)[j] = cs[j]
OBVIOUS

\* Types of what is sent and read.
LEMMA MessageTypes ==
  /\ Asks \subseteq Messages /\ Commands \subseteq Messages /\ SecondArgs \in Messages
  /\ SecondArgs \notin Commands /\ Asks \cap Ending = {} /\ "OK" \in Messages \ Asks
  /\ "QIPERFD_RESTART" \in Messages \ Asks /\ "OK" \notin Ending /\ SecondArgs \notin Asks
BY DEF Asks, Messages, Commands, SecondArgs, Ending

LEMMA Fields ==
  ASSUME NEW n, NEW c \in Conn(n)
  PROVE  /\ c.up \in Seq(Messages) /\ c.unreadD \in Seq(Messages) /\ c.unreadD \o c.up \in Seq(Messages)
         /\ c.down \in Seq(Asks) /\ c.unreadT \in Seq(Asks) /\ c.unreadT \o c.down \in Seq(Asks)
         /\ Asked(c.unreadD \o c.up) \in Seq(Asks)
         /\ c.daemonEnd \in BOOLEAN /\ c.trayEnd \in BOOLEAN /\ c.epoch \in 1..n
<1>1. /\ c.up \in Seq(Messages) /\ c.unreadD \in Seq(Messages)
      /\ c.down \in Seq(Asks) /\ c.unreadT \in Seq(Asks)
      /\ c.daemonEnd \in BOOLEAN /\ c.trayEnd \in BOOLEAN /\ c.epoch \in 1..n
  BY DEF Conn
<1>2. c.unreadD \o c.up \in Seq(Messages) /\ c.unreadT \o c.down \in Seq(Asks)
  BY <1>1, ConcatFacts
<1> QED  BY <1>1, <1>2, AskedFacts

LEMMA FreshFacts ==
  ASSUME IInv, NEW ms \in Seq(Messages), NEW te \in BOOLEAN
  PROVE  LET d == [FreshConn EXCEPT !.up = ms, !.trayEnd = te]
         IN  /\ d \in Conn(epoch) /\ d.up = ms /\ d.unreadD = <<>> /\ d.down = <<>>
             /\ d.unreadT = <<>> /\ d.epoch = epoch /\ d.daemonEnd /\ d.trayEnd = te
<1>1. epoch \in 1..epoch
  BY Facts
<1>2. <<>> \in Seq(Messages) /\ <<>> \in Seq(Asks)
  OBVIOUS
<1> QED  BY <1>1, <1>2 DEF FreshConn, Conn

-----------------------------------------------------------------------------
(* What the tray waits for *)

\* It asks more.
LEMMA AsksMore ==
  ASSUME NEW n, NEW c \in Conn(n), NEW w, Answered(w, c), NEW ms \in Seq(Messages),
         NEW d, d.unreadT = c.unreadT, d.down = c.down, d.unreadD = c.unreadD, d.up = c.up \o ms,
         c.daemonEnd
  PROVE  Answered(w \o Asked(ms), d)
<1> DEFINE a == c.unreadT \o c.down
           b == c.unreadD \o c.up
<1>1. /\ a \in Seq(Asks) /\ b \in Seq(Messages) /\ Asked(b) \in Seq(Asks) /\ Asked(ms) \in Seq(Asks)
      /\ c.unreadD \in Seq(Messages) /\ c.up \in Seq(Messages)
  BY Fields, AskedFacts
<1>2. w = a \o Asked(b)
  BY DEF Answered
<1>3. c.unreadD \o (c.up \o ms) = b \o ms
  <2> DEFINE u == c.unreadD
             v == c.up
  <2>1. u \in Seq(Messages) /\ v \in Seq(Messages)
    BY <1>1
  <2> HIDE DEF u, v
  <2>2. u \o (v \o ms) = (u \o v) \o ms
    BY ONLY <2>1, ms \in Seq(Messages), ConcatAssoc, SMTT(30)
  <2> QED  BY <2>2 DEF u, v
<1> HIDE DEF a, b
<1>4. Asked(b \o ms) = Asked(b) \o Asked(ms)
  BY <1>1, AskedFacts
<1>5. (a \o Asked(b)) \o Asked(ms) = a \o (Asked(b) \o Asked(ms))
  BY <1>1, ConcatAssoc, SMTT(30)
<1>6. w \o Asked(ms) = a \o Asked(c.unreadD \o (c.up \o ms))
  BY <1>2, <1>3, <1>4, <1>5
<1> QED  BY <1>6 DEF Answered, a

\* What is read is in the order in which it was sent.
LEMMA Reading ==
  ASSUME NEW S, NEW old \in Seq(S), NEW new \in Seq(S), NEW n \in 1..Len(new)
  PROVE  LET q == old \o SubSeq(new, 1, n)
             rest == SubSeq(new, n + 1, Len(new))
         IN  /\ q # <<>> /\ q \in Seq(S) /\ rest \in Seq(S) /\ Head(q) \in S /\ Tail(q) \in Seq(S)
             /\ old \o new = <<Head(q)>> \o (Tail(q) \o rest)
             /\ Range(Tail(q)) \cup Range(rest) \subseteq Range(old) \cup Range(new)
             /\ Head(q) \in Range(old) \cup Range(new)
<1> DEFINE first == SubSeq(new, 1, n)
           rest == SubSeq(new, n + 1, Len(new))
           q == old \o first
           t == Tail(q)
           h == <<Head(q)>>
<1>1. first \in Seq(S) /\ rest \in Seq(S) /\ first # <<>> /\ first \o rest = new
  BY Splits
<1> HIDE DEF first, rest
<1>2. q \in Seq(S) /\ Len(q) = Len(old) + Len(first) /\ Len(old) \in Nat /\ Len(first) \in Nat
  BY <1>1, ConcatFacts
<1>3. q # <<>>
  <2>1. Len(first) # 0
    BY <1>1
  <2>2. Len(q) # 0
    BY <1>2, <2>1
  <2> HIDE DEF q
  <2> QED  BY <2>2
<1>4. q \o rest = old \o new
  <2>1. old \in Seq(S) /\ first \in Seq(S) /\ rest \in Seq(S)
    BY <1>1
  <2>2. (old \o first) \o rest = old \o (first \o rest)
    BY ONLY <2>1
  <2> QED  BY <1>1, <2>2
<1> HIDE DEF q
<1>5. Head(q) \in S /\ t \in Seq(S) /\ q = h \o t /\ h \in Seq(S) /\ Range(q) = {Head(q)} \cup Range(t)
  <2>1. Head(q) \in S /\ t \in Seq(S) /\ q = h \o t /\ Range(q) = {Head(q)} \cup Range(t)
    BY <1>2, <1>3, HeadTail
  <2>2. h \in Seq(S)
    BY <2>1
  <2> QED  BY <2>1, <2>2
<1> HIDE DEF t, h
<1>6. old \o new = h \o (t \o rest)
  <2>1. h \in Seq(S) /\ t \in Seq(S) /\ rest \in Seq(S)
    BY <1>1, <1>5
  <2>2. (h \o t) \o rest = h \o (t \o rest)
    BY ONLY <2>1
  <2> QED  BY <1>4, <1>5, <2>2
<1>7. Range(q) \cup Range(rest) = Range(old) \cup Range(new)
  <2>1. Range(q \o rest) = Range(q) \cup Range(rest)
    BY <1>1, <1>2, RangeConcat
  <2>2. Range(old \o new) = Range(old) \cup Range(new)
    BY RangeConcat
  <2> QED  BY <1>4, <2>1, <2>2
<1> QED  BY <1>1, <1>2, <1>3, <1>5, <1>6, <1>7 DEF q, t, h, first, rest

\* The tray reads a message: it has waited for it.
ReadByTray(c, k, d) ==
  LET q == c.unreadT \o SubSeq(c.down, 1, k)
  IN  /\ d.down = SubSeq(c.down, k + 1, Len(c.down)) /\ d.unreadT = Tail(q)
      /\ d.unreadD = c.unreadD /\ d.up = Append(c.up, "OK")

LEMMA TrayReads ==
  ASSUME NEW n, NEW c \in Conn(n), NEW k \in 1..Len(c.down), NEW w, Answered(w, c), c.daemonEnd,
         NEW d, ReadByTray(c, k, d)
  PROVE  w # <<>> /\ Head(w) = Head(c.unreadT \o SubSeq(c.down, 1, k)) /\ Answered(Tail(w), d)
<1> DEFINE q == c.unreadT \o SubSeq(c.down, 1, k)
<1> USE DEF ReadByTray
<1> DEFINE rest == SubSeq(c.down, k + 1, Len(c.down))
           t == Tail(q)
           h == Head(q)
           b == c.unreadD \o c.up
           y == Asked(b)
           a == c.unreadT \o c.down
<1>1. /\ c.unreadT \in Seq(Asks) /\ c.down \in Seq(Asks) /\ b \in Seq(Messages) /\ y \in Seq(Asks)
      /\ a \in Seq(Asks) /\ c.up \in Seq(Messages) /\ c.unreadD \in Seq(Messages)
  BY Fields
<1>2. /\ rest \in Seq(Asks) /\ h \in Asks /\ t \in Seq(Asks)
      /\ a = <<h>> \o (t \o rest)
  <2> DEFINE old == c.unreadT
             new == c.down
  <2>1. old \in Seq(Asks) /\ new \in Seq(Asks) /\ k \in 1..Len(new)
    BY <1>1
  <2> HIDE DEF old, new
  <2>2. LET p == old \o SubSeq(new, 1, k)
            r == SubSeq(new, k + 1, Len(new))
        IN  /\ p # <<>> /\ p \in Seq(Asks) /\ r \in Seq(Asks) /\ Head(p) \in Asks /\ Tail(p) \in Seq(Asks)
            /\ old \o new = <<Head(p)>> \o (Tail(p) \o r)
            /\ Range(Tail(p)) \cup Range(r) \subseteq Range(old) \cup Range(new)
            /\ Head(p) \in Range(old) \cup Range(new)
    BY <2>1, Reading
  <2> QED  BY <2>2 DEF old, new
<1>3. w = a \o y
  BY DEF Answered
<1>4. Asked(c.unreadD \o Append(c.up, "OK")) = y
  <2> DEFINE u == c.unreadD
             v == c.up
             ok == <<"OK">>
  <2>1. u \in Seq(Messages) /\ v \in Seq(Messages) /\ ok \in Seq(Messages)
    BY <1>1, MessageTypes
  <2>2. Append(v, "OK") = v \o ok
    BY <2>1, MessageTypes, EmptyFacts
  <2>3. Asked(ok) = <<>>
    BY MessageTypes, AskedFacts
  <2> HIDE DEF u, v, ok
  <2>4. u \o (v \o ok) = (u \o v) \o ok /\ u \o v \in Seq(Messages)
    BY ONLY <2>1
  <2>5. Asked((u \o v) \o ok) = Asked(u \o v) \o Asked(ok)
    BY <2>1, <2>4, AskedFacts
  <2>6. Asked(u \o v) \in Seq(Asks)
    BY <2>4, AskedFacts
  <2>7. Asked(u \o v) \o <<>> = Asked(u \o v)
    BY <2>6
  <2> QED  BY <2>2, <2>3, <2>4, <2>5, <2>7 DEF u, v
<1>5. Answered(t \o rest \o y, d)
  BY <1>4 DEF Answered
<1> HIDE DEF a, y, t, h, rest
<1>6. w = <<h>> \o (t \o rest \o y)
  <2>1. h \in Asks /\ t \in Seq(Asks) /\ rest \in Seq(Asks) /\ y \in Seq(Asks)
    BY <1>1, <1>2
  <2>2. (<<h>> \o (t \o rest)) \o y = <<h>> \o (t \o rest \o y)
    BY ONLY <2>1
  <2> QED  BY <1>2, <1>3, <2>2
<1>7. w # <<>> /\ Head(w) = h /\ Tail(w) = t \o rest \o y
  <2> DEFINE z == t \o rest \o y
  <2>1. z \in Seq(Asks) /\ h \in Asks /\ w = <<h>> \o z
    <3>1. t \in Seq(Asks) /\ rest \in Seq(Asks) /\ y \in Seq(Asks)
      BY <1>1, <1>2
    <3>2. t \o rest \o y \in Seq(Asks)
      BY ONLY <3>1
    <3> QED  BY <1>2, <1>6, <3>2
  <2> HIDE DEF z
  <2>2. w # <<>> /\ Head(w) = h /\ Tail(w) = z
    BY ONLY <2>1
  <2> QED  BY <2>2 DEF z
<1> QED  BY <1>5, <1>7 DEF h

\* The daemon reads a message: a question is answered at once.
ReadByDaemon(c, k, d) ==
  LET q == c.unreadD \o SubSeq(c.up, 1, k)
  IN  /\ d.up = SubSeq(c.up, k + 1, Len(c.up)) /\ d.unreadD = Tail(q) /\ d.unreadT = c.unreadT
      /\ d.down = IF Head(q) \in Asks THEN Append(c.down, Head(q)) ELSE c.down

LEMMA DaemonReads ==
  ASSUME NEW n, NEW c \in Conn(n), NEW k \in 1..Len(c.up), NEW w, Answered(w, c), c.daemonEnd,
         NEW d, ReadByDaemon(c, k, d)
  PROVE  Answered(w, d)
<1> DEFINE q == c.unreadD \o SubSeq(c.up, 1, k)
<1> USE DEF ReadByDaemon
<1> DEFINE rest == SubSeq(c.up, k + 1, Len(c.up))
           t == Tail(q)
           h == Head(q)
           b == c.unreadD \o c.up
           a == c.unreadT
           e == c.down
           x == IF h \in Asks THEN <<h>> ELSE <<>>
           y == Asked(t \o rest)
<1>1. /\ a \in Seq(Asks) /\ e \in Seq(Asks) /\ b \in Seq(Messages)
      /\ c.up \in Seq(Messages) /\ c.unreadD \in Seq(Messages)
  BY Fields
<1>2. /\ rest \in Seq(Messages) /\ h \in Messages /\ t \in Seq(Messages)
      /\ b = <<h>> \o (t \o rest)
  <2> DEFINE old == c.unreadD
             new == c.up
  <2>1. old \in Seq(Messages) /\ new \in Seq(Messages) /\ k \in 1..Len(new)
    BY <1>1
  <2> HIDE DEF old, new
  <2>2. LET p == old \o SubSeq(new, 1, k)
            r == SubSeq(new, k + 1, Len(new))
        IN  /\ p # <<>> /\ p \in Seq(Messages) /\ r \in Seq(Messages) /\ Head(p) \in Messages /\ Tail(p) \in Seq(Messages)
            /\ old \o new = <<Head(p)>> \o (Tail(p) \o r)
            /\ Range(Tail(p)) \cup Range(r) \subseteq Range(old) \cup Range(new)
            /\ Head(p) \in Range(old) \cup Range(new)
    BY <2>1, Reading
  <2> QED  BY <2>2 DEF old, new
<1>3. t \o rest \in Seq(Messages) /\ <<h>> \in Seq(Messages)
  <2> HIDE DEF t, rest, h
  <2> QED  BY <1>2, ConcatFacts
<1>4. y \in Seq(Asks) /\ x \in Seq(Asks)
  <2> DEFINE tr == t \o rest
  <2>1. tr \in Seq(Messages)
    BY <1>3
  <2>3. x \in Seq(Asks)
    <3> HIDE DEF h
    <3> QED  BY EmptyFacts
  <2> HIDE DEF tr, h, x
  <2>2. Asked(tr) \in Seq(Asks)
    BY <2>1, AskedFacts
  <2> QED  BY <2>2, <2>3 DEF tr
<1>5. Asked(b) = x \o y
  <2> HIDE DEF t, h, rest, b
  <2>1. Asked(<<h>> \o (t \o rest)) = Asked(<<h>>) \o y
    BY <1>3, AskedFacts
  <2>2. Asked(<<h>>) = x
    BY <1>2, AskedFacts
  <2> QED  BY <1>2, <2>1, <2>2
<1>6. d.down = e \o x
  <2>1. CASE h \in Asks
    <3> HIDE DEF e, h
    <3>1. Append(e, h) = e \o <<h>>
      BY <1>1, <2>1, EmptyFacts
    <3> QED  BY <2>1, <3>1 DEF e, h
  <2>2. CASE h \notin Asks
    <3>1. e \o <<>> = e
      BY <1>1, EmptyFacts
    <3> QED  BY <2>2, <3>1
  <2> QED  BY <2>1, <2>2
<1>7. w = (a \o e) \o (x \o y)
  BY <1>5 DEF Answered
<1>8. (a \o e) \o (x \o y) = (a \o (e \o x)) \o y
  <2> HIDE DEF a, e, x, y
  <2>1. a \in Seq(Asks) /\ e \in Seq(Asks) /\ x \in Seq(Asks) /\ y \in Seq(Asks)
    BY <1>1, <1>4
  <2>2. (a \o e) \o (x \o y) = (a \o (e \o x)) \o y
    BY ONLY <2>1, SMTT(30)
  <2> QED  BY <2>2
<1> QED  BY <1>6, <1>7, <1>8 DEF Answered

-----------------------------------------------------------------------------
(* Lists without an element twice *)

LEMMA AppendFacts ==
  ASSUME NEW S, NEW s \in Seq(S), NEW e \in S
  PROVE  /\ Append(s, e) \in Seq(S) /\ Range(Append(s, e)) = Range(s) \cup {e}
         /\ Append(s, e) # <<>>
         /\ IsInjective(s) /\ e \notin Range(s) => IsInjective(Append(s, e))
<1> DEFINE t == Append(s, e)
<1>1. /\ t \in Seq(S) /\ Len(t) = Len(s) + 1 /\ DOMAIN t = DOMAIN s \cup {Len(s) + 1}
      /\ \A i \in DOMAIN s : t[i] = s[i]
      /\ t[Len(s) + 1] = e /\ Len(s) \in Nat /\ t # <<>>
  OBVIOUS
<1> HIDE DEF t
<1>2. Range(t) = Range(s) \cup {e}
  BY <1>1 DEF Range
<1>3. ASSUME IsInjective(s), e \notin Range(s), NEW a \in DOMAIN t, NEW b \in DOMAIN t, t[a] = t[b]
      PROVE  a = b
  <2>1. CASE a \in DOMAIN s /\ b \in DOMAIN s
    BY <1>1, <1>3, <2>1 DEF IsInjective
  <2>2. \A i \in DOMAIN s : s[i] # e
    BY <1>3 DEF Range
  <2> QED  BY <1>1, <1>3, <2>1, <2>2
<1>4. IsInjective(s) /\ e \notin Range(s) => IsInjective(t)
  BY <1>3 DEF IsInjective
<1> QED  BY <1>1, <1>2, <1>4 DEF t

LEMMA FrontFacts ==
  ASSUME NEW S, NEW s \in Seq(S), s # <<>>, IsInjective(s)
  PROVE  Front(s) \in Seq(S) /\ Range(Front(s)) \subseteq Range(s) /\ IsInjective(Front(s))
<1> DEFINE t == Front(s)
<1>1. Len(s) \in Nat /\ Len(s) # 0 /\ DOMAIN s = 1..Len(s)
  OBVIOUS
<1>2. t = [i \in 1..(Len(s) - 1) |-> s[i]]
  BY <1>1 DEF Front
<1>3. t \in Seq(S) /\ DOMAIN t \subseteq DOMAIN s /\ \A i \in DOMAIN t : t[i] = s[i]
  BY <1>1, <1>2
<1> HIDE DEF t
<1>4. Range(t) \subseteq Range(s)
  BY <1>3 DEF Range
<1>5. IsInjective(t)
  BY <1>3 DEF IsInjective
<1> QED  BY <1>3, <1>4, <1>5 DEF t

LEMMA RestFacts ==
  ASSUME NEW S, NEW s \in Seq(S), NEW n \in 1..Len(s)
  PROVE  LET u == SubSeq(s, n + 1, Len(s))
         IN  u \in Seq(S) /\ Len(u) = Len(s) - n /\ \A i \in 1..(Len(s) - n) : u[i] = s[n + i]
<1>1. Len(s) \in Nat /\ n \in Nat /\ 1 <= n /\ n <= Len(s)
  OBVIOUS
<1> DEFINE u == SubSeq(s, n + 1, Len(s))
<1>2. /\ u \in Seq(S) /\ Len(u) = Len(s) - n
      /\ \A i \in 1..(Len(s) - n) : u[i] = s[n + i]
  BY <1>1
<1> QED  BY <1>2

\* indexOf and removeAt of an element that is there once.
LEMMA Removed ==
  ASSUME NEW S, NEW s \in Seq(S), IsInjective(s), NEW e
  PROVE  /\ RemoveFirst(s, e) \in Seq(S) /\ IsInjective(RemoveFirst(s, e))
         /\ Range(RemoveFirst(s, e)) \subseteq Range(s) \ {e}
<1>1. CASE \A i \in 1..Len(s) : s[i] # e
  <2>1. RemoveFirst(s, e) = s
    BY <1>1 DEF RemoveFirst
  <2>2. e \notin Range(s)
    BY <1>1 DEF Range
  <2> QED  BY <2>1, <2>2
<1>2. ASSUME NEW k \in 1..Len(s), s[k] = e
      PROVE  /\ RemoveFirst(s, e) \in Seq(S) /\ IsInjective(RemoveFirst(s, e))
             /\ Range(RemoveFirst(s, e)) \subseteq Range(s) \ {e}
  <2>1. {i \in 1..Len(s) : s[i] = e} = {k}
    BY <1>2 DEF IsInjective
  <2>2. SelectInSeq(s, LAMBDA v : v = e) = Min({k})
    BY <2>1 DEF SelectInSeq
  <2>3. Min({k}) = k
    BY DEF Min
  <2>4. RemoveFirst(s, e) = RemoveAt(s, k)
    BY <1>2, <2>2, <2>3 DEF RemoveFirst
  <2> DEFINE t == RemoveAt(s, k)
  <2>5. k \in Nat /\ Len(s) \in Nat /\ 1 <= k /\ k <= Len(s) /\ DOMAIN s = 1..Len(s)
    OBVIOUS
  <2> DEFINE u == SubSeq(s, 1, k - 1)
             v == SubSeq(s, k + 1, Len(s))
  <2>6. /\ u \in Seq(S) /\ Len(u) = k - 1 /\ v \in Seq(S) /\ Len(v) = Len(s) - k
        /\ \A i \in 1..(k - 1) : u[i] = s[i]
        /\ \A i \in 1..(Len(s) - k) : v[i] = s[k + i]
    <3>1. u \in Seq(S) /\ Len(u) = k - 1 /\ \A i \in 1..(k - 1) : u[i] = s[i]
      BY <2>5
    <3>2. v \in Seq(S) /\ Len(v) = Len(s) - k /\ \A i \in 1..(Len(s) - k) : v[i] = s[k + i]
      BY RestFacts
    <3> QED  BY <3>1, <3>2
  <2>7. t = u \o v
    BY DEF RemoveAt
  <2> HIDE DEF t, u, v
  <2>8. /\ t \in Seq(S) /\ Len(t) = Len(s) - 1 /\ DOMAIN t = 1..(Len(s) - 1)
        /\ \A i \in 1..Len(u) : t[i] = u[i]
        /\ \A i \in 1..Len(v) : t[Len(u) + i] = v[i]
    <3>1. u \o v \in Seq(S) /\ Len(u \o v) = Len(u) + Len(v) /\ DOMAIN (u \o v) = 1..(Len(u) + Len(v))
      BY <2>6, ConcatFacts
    <3>2. Len(u) + Len(v) = Len(s) - 1
      BY <2>5, <2>6
    <3> QED  BY <2>6, <2>7, <3>1, <3>2, ConcatFacts, SMTT(30)
  <2>9. \A i \in DOMAIN t : LET j == IF i < k THEN i ELSE i + 1
                            IN  j \in DOMAIN s /\ j # k /\ t[i] = s[j]
    <3> TAKE i \in DOMAIN t
    <3>1. CASE i < k
      <4>1. i \in 1..(k - 1) /\ i \in 1..Len(u)
        BY <2>5, <2>6, <2>8, <3>1
      <4> QED  BY <2>5, <2>6, <2>8, <3>1, <4>1
    <3>2. CASE ~(i < k)
      <4> DEFINE m == i - (k - 1)
      <4>1. m \in 1..(Len(s) - k) /\ m \in 1..Len(v) /\ Len(u) + m = i /\ k + m = i + 1
        BY <2>5, <2>6, <2>8, <3>2
      <4>2. t[i] = v[m] /\ v[m] = s[i + 1]
        <5> HIDE DEF m
        <5> QED  BY <2>6, <2>8, <4>1
      <4> QED  BY <2>5, <2>8, <3>2, <4>2
    <3> QED  BY <3>1, <3>2
  <2>10. IsInjective(t)
    <3> SUFFICES ASSUME NEW a \in DOMAIN t, NEW b \in DOMAIN t, t[a] = t[b]
                 PROVE  a = b
      BY DEF IsInjective
    <3> DEFINE j(i) == IF i < k THEN i ELSE i + 1
    <3>1. j(a) \in DOMAIN s /\ j(b) \in DOMAIN s /\ s[j(a)] = s[j(b)]
      BY <2>9
    <3>2. j(a) = j(b)
      BY <3>1 DEF IsInjective
    <3> QED  BY <2>5, <2>8, <3>2
  <2>11. Range(t) \subseteq Range(s) \ {e}
    <3> SUFFICES ASSUME NEW i \in DOMAIN t
                 PROVE  t[i] \in Range(s) /\ t[i] # e
      BY DEF Range
    <3>1. PICK j \in DOMAIN s : j # k /\ t[i] = s[j]
      BY <2>9
    <3>2. s[j] # s[k]
      BY <2>5, <3>1 DEF IsInjective
    <3> QED  BY <1>2, <3>1, <3>2 DEF Range
  <2> QED  BY <2>4, <2>8, <2>10, <2>11 DEF t
<1> QED  BY <1>1, <1>2

-----------------------------------------------------------------------------
(* Steps: one connection is changed, or one is added *)

LEMMA Updates ==
  ASSUME IInv, NEW i \in DOMAIN conns, NEW d \in Conn(epoch),
         conns' = [conns EXCEPT ![i] = d], UNCHANGED <<epoch, alive>>, ConnOK(d, epoch, alive)
  PROVE  /\ conns' \in Seq(Conn(epoch')) /\ DOMAIN conns' = DOMAIN conns /\ Len(conns') = Len(conns)
         /\ conns'[i] = d /\ \A j \in DOMAIN conns : j # i => conns'[j] = conns[j]
         /\ ConnInv'
<1>1. /\ conns' \in Seq(Conn(epoch')) /\ DOMAIN conns' = DOMAIN conns /\ Len(conns') = Len(conns)
      /\ conns'[i] = d /\ \A j \in DOMAIN conns : j # i => conns'[j] = conns[j]
  BY Facts, Changed
<1>2. ASSUME NEW j \in DOMAIN conns
      PROVE  ConnOK(conns'[j], epoch, alive)
  BY <1>1, Facts
<1>3. ConnInv'
  BY <1>1, <1>2 DEF ConnInv
<1> QED  BY <1>1, <1>3

\* What is registered and on the stack is not affected by messages.
SameEnds == /\ DOMAIN conns \subseteq DOMAIN conns'
            /\ \A j \in DOMAIN conns : /\ conns'[j].daemonEnd = conns[j].daemonEnd
                                       /\ conns'[j].epoch = conns[j].epoch

LEMMA SameLists ==
  ASSUME IInv, UNCHANGED daemon, SameEnds
  PROVE  /\ ListInv' /\ DaemonInv'
         /\ \A i \in Range(m_locals') : conns'[i].daemonEnd /\ conns'[i].epoch = epoch'
         /\ IsInjective(m_locals') /\ IsInjective(stack') /\ Range(stack') \subseteq DOMAIN conns'
         /\ epoch' \in 1..MaxEpochs /\ {alive', restarting'} \subseteq BOOLEAN
<1>1. Range(m_locals) \subseteq DOMAIN conns
  <2>1. m_locals \in Seq(DOMAIN conns)
    BY DEF IInv, ListInv
  <2> HIDE DEF daemon
  <2>2. \A j \in DOMAIN m_locals : m_locals[j] \in DOMAIN conns
    BY <2>1
  <2> QED  BY <2>2 DEF Range
<1>2. \A S, T : S \subseteq T => Seq(S) \subseteq Seq(T)
  OBVIOUS
<1>3. ListInv'
  <2>1. m_locals \in Seq(DOMAIN conns) /\ stack \in Seq(DOMAIN conns)
    BY DEF IInv, ListInv
  <2>2. Seq(DOMAIN conns) \subseteq Seq(DOMAIN conns')
    BY <1>2 DEF SameEnds
  <2>3. m_locals' = m_locals /\ stack' = stack
    BY DEF daemon
  <2> QED  BY <2>1, <2>2, <2>3 DEF ListInv
<1>4. DaemonInv'
  BY DEF IInv, DaemonInv, daemon
<1>5. \A i \in Range(m_locals') : conns'[i].daemonEnd /\ conns'[i].epoch = epoch'
  BY <1>1 DEF IInv, TypeOK, SameEnds, daemon
<1>6. /\ IsInjective(m_locals') /\ IsInjective(stack') /\ Range(stack') \subseteq DOMAIN conns'
      /\ epoch' \in 1..MaxEpochs /\ {alive', restarting'} \subseteq BOOLEAN
  BY DEF IInv, TypeOK, SameEnds, daemon
<1> QED  BY <1>3, <1>4, <1>5, <1>6

LEMMA FreshUp ==
  ASSUME IInv, NEW ms \in Seq(Messages)
  PROVE  LET d == [FreshConn EXCEPT !.up = ms]
         IN  /\ d \in Conn(epoch) /\ d.up = ms /\ d.unreadD = <<>> /\ d.down = <<>>
             /\ d.unreadT = <<>> /\ d.epoch = epoch /\ d.daemonEnd /\ d.trayEnd
<1>1. epoch \in 1..epoch
  BY Facts
<1>2. <<>> \in Seq(Messages) /\ <<>> \in Seq(Asks)
  OBVIOUS
<1> QED  BY <1>1, <1>2 DEF FreshConn, Conn

\* Nothing is registered while the tray has no connection, with one tray.
LEMMA NoneOfZero ==
  ASSUME IInv, tray <= 1, sock = 0
  PROVE  Range(m_locals) = {} /\ 0 \notin DOMAIN conns
<1>1. 0 \notin DOMAIN conns
  BY Facts
<1>2. m_locals \in Seq(DOMAIN conns)
  BY DEF IInv, ListInv
<1>3. \A j \in DOMAIN m_locals : m_locals[j] \in DOMAIN conns
  BY <1>2
<1>4. Range(m_locals) \subseteq {0}
  BY DEF IInv, SingleInv
<1> QED  BY <1>1, <1>3, <1>4 DEF Range

\* The tray makes a connection, in the place of what is left of another.
LEMMA Connects ==
  ASSUME IInv, NEW ms \in Seq(Messages), epoch = MaxEpochs => Range(ms) \cap Ending = {}, alive,
         NEW left \in Seq(Conn(epoch)), Len(left) = Len(conns),
         \A j \in DOMAIN conns : /\ left[j].daemonEnd = conns[j].daemonEnd
                                 /\ left[j].epoch = conns[j].epoch
                                 /\ left[j].up = conns[j].up /\ left[j].unreadD = conns[j].unreadD,
         conns' = Append(left, [FreshConn EXCEPT !.up = ms]), sock' = Len(conns'),
         wait' = Note(<<>>, ms), tray' \in 1..MaxTrays, tray <= tray', tray' <= 1 => sock = 0,
         shown' \in 0..epoch, UNCHANGED <<daemon, lag>>
  PROVE  IInv'
<1> DEFINE d == [FreshConn EXCEPT !.up = ms]
           n == Len(conns) + 1
<1>1. /\ d \in Conn(epoch) /\ d.up = ms /\ d.unreadD = <<>> /\ d.down = <<>>
      /\ d.unreadT = <<>> /\ d.epoch = epoch /\ d.daemonEnd /\ d.trayEnd
  BY FreshUp
<1> HIDE DEF d
<1>2. conns' = Append(left, d)
  BY DEF d
<1>3. DOMAIN conns = 1..Len(conns) /\ DOMAIN left = DOMAIN conns /\ Len(conns) \in Nat
  BY Facts
<1>4. /\ conns' \in Seq(Conn(epoch)) /\ Len(conns') = n /\ n \in DOMAIN conns' /\ n \notin DOMAIN conns
      /\ DOMAIN conns' = DOMAIN conns \cup {n} /\ conns'[n] = d
      /\ \A j \in DOMAIN conns : conns'[j] = left[j]
  BY <1>1, <1>2, <1>3, Appended
<1>5. sock' = n /\ epoch' = epoch /\ alive' = alive /\ lag' = lag /\ m_locals' = m_locals /\ stack' = stack
  BY <1>4 DEF daemon
<1> HIDE DEF n
<1>6. SameEnds
  BY <1>3, <1>4 DEF SameEnds
<1>7. Asked(ms) \in Seq(Asks) /\ Note(<<>>, ms) \in Seq(Asks) /\ (tray' = 1 => Note(<<>>, ms) = Asked(ms))
  <2>1. Asked(ms) \in Seq(Asks)
    BY AskedFacts
  <2>2. <<>> \o Asked(ms) = Asked(ms) /\ <<>> \in Seq(Asks)
    BY <2>1, EmptyFacts
  <2> QED  BY <2>1, <2>2 DEF Note
<1>8. TypeOK'
  <2>1. tray' \in 0..MaxTrays
    OBVIOUS
  <2>2. sock' \in 0..Len(conns')
    BY <1>3, <1>4, <1>5
  <2>3. wait' \in Seq(Asks) /\ shown' \in 0..epoch' /\ lag' \in 0..MaxLag
    BY <1>5, <1>7 DEF IInv, TypeOK
  <2>4. conns' \in Seq(Conn(epoch'))
    BY <1>4, <1>5
  <2> QED  BY <1>6, <2>1, <2>2, <2>3, <2>4, SameLists DEF TypeOK, Conn
<1>9. ConnInv'
  <2>1. ConnOK(d, epoch, alive)
    BY <1>1, EmptyFacts DEF ConnOK
  <2>2. ASSUME NEW j \in DOMAIN conns
        PROVE  ConnOK(conns'[j], epoch, alive)
    <3>1. ConnOK(conns[j], epoch, alive)
      BY Facts
    <3>2. /\ conns'[j].daemonEnd = conns[j].daemonEnd /\ conns'[j].epoch = conns[j].epoch
          /\ conns'[j].up = conns[j].up /\ conns'[j].unreadD = conns[j].unreadD
      BY <1>4
    <3> QED  BY <3>1, <3>2 DEF ConnOK
  <2> QED  BY <1>4, <1>5, <2>1, <2>2 DEF ConnInv
<1>10. SingleInv'
  <2>1. sock' # 0 => conns'[sock'].trayEnd
    BY <1>1, <1>4, <1>5
  <2>2. tray' = 0 => sock' = 0
    OBVIOUS
  <2>3. ASSUME tray' <= 1
        PROVE  /\ \A i \in DOMAIN conns' : i # sock' => Aside(conns'[i])
               /\ Range(m_locals') \subseteq {sock'}
               /\ \A i \in Range(stack') : i = sock' \/ ~conns'[i].daemonEnd
    <3>1. tray <= 1 /\ sock = 0
      BY <2>3, Facts
    <3>2. Range(m_locals) = {} /\ 0 \notin DOMAIN conns
      BY <3>1, NoneOfZero
    <3>3. \A i \in DOMAIN conns' : i # sock' => Aside(conns'[i])
      <4> SUFFICES ASSUME NEW i \in DOMAIN conns' \ {n}
                   PROVE  Aside(conns'[i])
        BY <1>5
      <4>1. i \in DOMAIN conns /\ i # sock
        BY <1>4, <3>1, <3>2
      <4>2. Aside(conns[i])
        BY <3>1, <4>1 DEF IInv, SingleInv
      <4>3. /\ conns'[i].daemonEnd = conns[i].daemonEnd
            /\ conns'[i].up = conns[i].up /\ conns'[i].unreadD = conns[i].unreadD
        BY <1>4, <4>1
      <4> QED  BY <4>2, <4>3 DEF Aside
    <3>4. \A i \in Range(stack) : i \in DOMAIN conns /\ ~conns[i].daemonEnd
      BY <3>1, <3>2 DEF IInv, SingleInv, TypeOK
    <3> QED  BY <1>4, <1>5, <3>2, <3>3, <3>4, SMTT(30)
  <2> QED  BY <2>1, <2>2, <2>3 DEF SingleInv
<1>11. AnswersInOrder'
  <2>1. d.unreadT \o d.down \o Asked(d.unreadD \o d.up) = Asked(ms)
    <3>1. <<>> \o ms = ms /\ <<>> \in Seq(Asks)
      BY EmptyFacts
    <3>2. (<<>> \o <<>>) \o Asked(ms) = Asked(ms)
      BY <1>7, <3>1, EmptyFacts
    <3> QED  BY <1>1, <3>1, <3>2
  <2> QED  BY <1>4, <1>5, <1>7, <2>1 DEF AnswersInOrder
<1> QED  BY <1>6, <1>8, <1>9, <1>10, <1>11, SameLists DEF IInv

\* send_MessageToServer.
LEMMA Sends ==
  ASSUME IInv, NEW ms \in Seq(Messages), epoch = MaxEpochs => Range(ms) \cap Ending = {},
         tray > 0, SendMessages(ms), UNCHANGED <<daemon, tray, shown, lag>>
  PROVE  IInv'
<1>0. epoch' = epoch /\ alive' = alive /\ lag' = lag /\ m_locals' = m_locals /\ stack' = stack
      /\ tray' = tray /\ shown' = shown
  BY DEF daemon
<1>1. CASE sock # 0 /\ conns[sock].daemonEnd
  <2> DEFINE c == conns[sock]
             d == [c EXCEPT !.up = c.up \o ms]
  <2>1. sock \in DOMAIN conns /\ c \in Conn(epoch) /\ ConnOK(c, epoch, alive)
    BY <1>1, Facts
  <2>2. c.up \o ms \in Seq(Messages) /\ Range(c.up \o ms) = Range(c.up) \cup Range(ms)
    BY <2>1, Fields, ConcatFacts, RangeConcat
  <2>3. /\ d \in Conn(epoch) /\ d.up = c.up \o ms /\ d.unreadD = c.unreadD /\ d.down = c.down
        /\ d.unreadT = c.unreadT /\ d.epoch = c.epoch /\ d.daemonEnd = c.daemonEnd
        /\ d.trayEnd = c.trayEnd
    BY <2>1, <2>2 DEF Conn
  <2>4. conns' = [conns EXCEPT ![sock] = d] /\ wait' = Note(wait, ms) /\ sock' = sock
    BY <1>1 DEF SendMessages
  <2> HIDE DEF d
  <2>5. ConnOK(d, epoch, alive)
    BY <1>1, <2>1, <2>2, <2>3 DEF ConnOK
  <2>6. /\ conns' \in Seq(Conn(epoch')) /\ DOMAIN conns' = DOMAIN conns /\ Len(conns') = Len(conns)
        /\ conns'[sock] = d /\ \A j \in DOMAIN conns : j # sock => conns'[j] = conns[j]
        /\ ConnInv'
    BY <1>0, <2>1, <2>3, <2>4, <2>5, Updates
  <2>7. SameEnds
    BY <2>3, <2>6 DEF SameEnds
  <2>8. wait' \in Seq(Asks) /\ (tray = 1 => wait' = wait \o Asked(ms))
    <3>1. wait \in Seq(Asks) /\ Asked(ms) \in Seq(Asks)
      BY Facts, AskedFacts
    <3>2. wait \o Asked(ms) \in Seq(Asks) /\ <<>> \in Seq(Asks)
      BY <3>1, ConcatFacts
    <3> QED  BY <1>0, <2>4, <3>2 DEF Note
  <2>9. TypeOK'
    <3>1. tray' \in 0..MaxTrays /\ shown' \in 0..epoch' /\ lag' \in 0..MaxLag /\ sock' \in 0..Len(conns')
      BY <1>0, <2>4, <2>6 DEF IInv, TypeOK
    <3> QED  BY <2>6, <2>7, <2>8, <3>1, SameLists DEF TypeOK, Conn
  <2>10. SingleInv'
    <3>1. \A i \in Range(stack) : i \in DOMAIN conns
      BY DEF IInv, TypeOK
    <3> QED  BY <1>0, <2>1, <2>3, <2>4, <2>6, <3>1 DEF IInv, SingleInv, Aside
  <2>11. AnswersInOrder'
    <3>1. ASSUME tray = 1
          PROVE  Answered(wait', d)
      <4>1. Answered(wait, c)
        BY <1>1, <3>1 DEF IInv, AnswersInOrder, Answered
      <4> HIDE DEF c
      <4>2. c \in Conn(epoch) /\ c.daemonEnd
        BY <1>1, <2>1 DEF c
      <4>3. Answered(wait \o Asked(ms), d)
        BY <2>3, <4>1, <4>2, AsksMore
      <4> QED  BY <2>8, <3>1, <4>3
    <3> QED  BY <1>0, <2>4, <2>6, <3>1 DEF AnswersInOrder, Answered
  <2> QED  BY <2>6, <2>7, <2>9, <2>10, <2>11, SameLists DEF IInv
<1>2. CASE sock # 0 /\ ~conns[sock].daemonEnd
  <2>1. conns' = conns /\ wait' = <<>> /\ sock' = sock
    BY <1>2 DEF SendMessages
  <2>2. SameEnds
    BY <2>1 DEF SameEnds
  <2>3. TypeOK'
    <3>1. tray' \in 0..MaxTrays /\ shown' \in 0..epoch' /\ lag' \in 0..MaxLag /\ sock' \in 0..Len(conns')
          /\ conns' \in Seq(Conn(epoch'))
      BY <1>0, <2>1, Facts DEF IInv, TypeOK
    <3>2. wait' \in Seq(Asks)
      BY <2>1
    <3> QED  BY <2>2, <3>1, <3>2, SameLists DEF TypeOK, Conn
  <2>4. ConnInv' /\ SingleInv' /\ AnswersInOrder'
    BY <1>0, <1>2, <2>1 DEF IInv, ConnInv, SingleInv, AnswersInOrder
  <2> QED  BY <2>2, <2>3, <2>4, SameLists DEF IInv
<1>3. CASE sock = 0 /\ alive
  <2>1. /\ conns' = Append(conns, [FreshConn EXCEPT !.up = ms]) /\ sock' = Len(conns')
        /\ wait' = Note(<<>>, ms)
    BY <1>3 DEF SendMessages
  <2>2. tray' \in 1..MaxTrays /\ tray <= tray' /\ shown' \in 0..epoch
    BY <1>0, Facts DEF IInv, TypeOK
  <2>3. conns \in Seq(Conn(epoch)) /\ UNCHANGED <<daemon, lag>>
    BY Facts
  <2> QED  BY <1>3, <2>1, <2>2, <2>3, Connects
<1>4. CASE sock = 0 /\ ~alive
  <2>1. UNCHANGED <<conns, sock, wait>>
    BY <1>4 DEF SendMessages
  <2>2. SameEnds
    BY <2>1 DEF SameEnds
  <2>3. TypeOK'
    <3>1. tray' \in 0..MaxTrays /\ shown' \in 0..epoch' /\ lag' \in 0..MaxLag /\ sock' \in 0..Len(conns')
          /\ conns' \in Seq(Conn(epoch')) /\ wait' \in Seq(Asks)
      BY <1>0, <2>1, Facts DEF IInv, TypeOK
    <3> QED  BY <2>2, <3>1, SameLists DEF TypeOK, Conn
  <2>4. ConnInv' /\ SingleInv' /\ AnswersInOrder'
    BY <1>0, <2>1 DEF IInv, ConnInv, SingleInv, AnswersInOrder
  <2> QED  BY <2>2, <2>3, <2>4, SameLists DEF IInv
<1>5. alive \in BOOLEAN
  BY Facts
<1> QED  BY <1>1, <1>2, <1>3, <1>4, <1>5

-----------------------------------------------------------------------------
(* Steps of the tray *)

LEMMA Asking ==
  ASSUME IInv, OnTimeout \/ OnGetMgrIfname \/ RestartQiperfd
  PROVE  IInv'
<1>1. ASSUME NEW m \in Messages, m \in Ending => epoch # MaxEpochs, tray > 0,
             SendMessages(<<m>>), UNCHANGED <<daemon, tray, shown, lag>>
      PROVE  IInv'
  <2>1. <<m>> \in Seq(Messages) /\ Range(<<m>>) = {m}
    BY EmptyFacts
  <2>2. epoch = MaxEpochs => Range(<<m>>) \cap Ending = {}
    BY <1>1, <2>1
  <2> QED  BY <1>1, <2>1, <2>2, Sends
<1>2. "STATUS" \in Asks /\ "IFNAMES" \in Asks
  BY DEF Asks
<1>3. CASE OnTimeout
  BY <1>1, <1>2, <1>3, MessageTypes DEF OnTimeout
<1>4. CASE OnGetMgrIfname
  BY <1>1, <1>2, <1>4, MessageTypes DEF OnGetMgrIfname
<1>5. CASE RestartQiperfd
  <2>1. epoch # MaxEpochs
    BY <1>5, Facts DEF RestartQiperfd
  <2> QED  BY <1>1, <1>5, <2>1, MessageTypes DEF RestartQiperfd
<1> QED  BY <1>3, <1>4, <1>5

LEMMA StartsTray ==
  ASSUME IInv, StartTray
  PROVE  IInv'
<1> DEFINE c == conns[sock]
           e == [c EXCEPT !.trayEnd = FALSE, !.down = <<>>, !.unreadT = <<>>]
           left == IF sock = 0 THEN conns ELSE [conns EXCEPT ![sock] = e]
           ms == <<"IFNAMES", "LOGNAME">>
<1>1. /\ left \in Seq(Conn(epoch)) /\ Len(left) = Len(conns) /\ DOMAIN left = DOMAIN conns
      /\ \A j \in DOMAIN conns : /\ left[j].daemonEnd = conns[j].daemonEnd
                                 /\ left[j].epoch = conns[j].epoch
                                 /\ left[j].up = conns[j].up /\ left[j].unreadD = conns[j].unreadD
  <2>1. CASE sock = 0
    BY <2>1, Facts
  <2>2. CASE sock # 0
    <3>1. sock \in DOMAIN conns /\ c \in Conn(epoch) /\ conns \in Seq(Conn(epoch))
      BY <2>2, Facts
    <3>2. <<>> \in Seq(Asks)
      OBVIOUS
    <3>3. e \in Conn(epoch) /\ e.daemonEnd = c.daemonEnd /\ e.epoch = c.epoch /\ e.up = c.up
          /\ e.unreadD = c.unreadD
      BY <3>1, <3>2 DEF Conn
    <3>4. left = [conns EXCEPT ![sock] = e]
      BY <2>2
    <3> HIDE DEF e, left
    <3>5. /\ left \in Seq(Conn(epoch)) /\ Len(left) = Len(conns) /\ DOMAIN left = DOMAIN conns
          /\ left[sock] = e /\ \A j \in DOMAIN conns : j # sock => left[j] = conns[j]
      BY <3>1, <3>3, <3>4, Changed
    <3> QED  BY <3>3, <3>5
  <2> QED  BY <2>1, <2>2
<1>2. tray < MaxTrays /\ tray' = tray + 1 /\ shown' = 0 /\ UNCHANGED <<daemon, lag>>
  BY DEF StartTray
<1>3. tray' \in 1..MaxTrays /\ tray <= tray' /\ shown' \in 0..epoch /\ (tray' <= 1 => tray = 0 /\ sock = 0)
  <2>1. tray = 0 => sock = 0
    BY DEF IInv, SingleInv
  <2> QED  BY <1>2, <2>1, Facts
<1>4. epoch' = epoch /\ alive' = alive /\ lag' = lag /\ m_locals' = m_locals /\ stack' = stack
  BY <1>2 DEF daemon
<1>5. CASE alive
  <2>1. ms \in Seq(Messages) /\ Range(ms) \cap Ending = {}
    <3> DEFINE s == <<"IFNAMES">>
               t == <<"LOGNAME">>
    <3>1. "IFNAMES" \in Messages \ Ending /\ "LOGNAME" \in Messages \ Ending
      BY DEF Messages, Commands, Asks, Ending, SecondArgs
    <3>2. s \in Seq(Messages) /\ t \in Seq(Messages) /\ Range(s) = {"IFNAMES"} /\ Range(t) = {"LOGNAME"}
      BY <3>1, EmptyFacts
    <3>3. ms = s \o t
      OBVIOUS
    <3> HIDE DEF s, t
    <3>4. s \o t \in Seq(Messages) /\ Range(s \o t) = Range(s) \cup Range(t)
      BY <3>2, ConcatFacts, RangeConcat
    <3> QED  BY <3>1, <3>2, <3>3, <3>4
  <2>2. conns' = Append(left, [FreshConn EXCEPT !.up = ms]) /\ sock' = Len(conns')
        /\ wait' = Note(<<>>, ms)
    BY <1>5 DEF StartTray
  <2> HIDE DEF left, ms
  <2> QED  BY <1>1, <1>2, <1>3, <1>5, <2>1, <2>2, Connects
<1>6. CASE ~alive
  <2>1. conns' = left /\ sock' = 0 /\ wait' = <<>>
    BY <1>6 DEF StartTray
  <2>2. tray' <= 1 => conns' = conns /\ sock' = sock /\ tray <= 1
    BY <1>2, <1>3, <2>1, Facts
  <2> HIDE DEF left
  <2>3. SameEnds
    BY <1>1, <2>1 DEF SameEnds
  <2>4. TypeOK'
    <3>1. tray' \in 0..MaxTrays /\ shown' \in 0..epoch' /\ lag' \in 0..MaxLag /\ sock' \in 0..Len(conns')
          /\ conns' \in Seq(Conn(epoch'))
      BY <1>1, <1>3, <1>4, <2>1, Facts DEF IInv, TypeOK
    <3>2. wait' \in Seq(Asks)
      BY <2>1
    <3> QED  BY <1>2, <2>3, <3>1, <3>2, SameLists DEF TypeOK, Conn
  <2>5. ConnInv'
    <3> SUFFICES ASSUME NEW j \in DOMAIN conns
                 PROVE  ConnOK(conns'[j], epoch, alive)
      BY <1>1, <1>4, <2>1 DEF ConnInv
    <3>1. ConnOK(conns[j], epoch, alive)
      BY Facts
    <3>2. /\ conns'[j].daemonEnd = conns[j].daemonEnd /\ conns'[j].epoch = conns[j].epoch
          /\ conns'[j].up = conns[j].up /\ conns'[j].unreadD = conns[j].unreadD
      BY <1>1, <2>1
    <3> QED  BY <3>1, <3>2 DEF ConnOK
  <2>6. SingleInv'
    BY <1>3, <1>4, <2>1, <2>2 DEF IInv, SingleInv
  <2>7. AnswersInOrder'
    BY <2>1 DEF AnswersInOrder
  <2> QED  BY <1>2, <2>3, <2>4, <2>5, <2>6, <2>7, SameLists DEF IInv
<1> QED  BY <1>5, <1>6, Facts

LEMMA TrayReadsStep ==
  ASSUME IInv, SocketReadReady
  PROVE  IInv'
<1> DEFINE c == conns[sock]
<1>1. PICK k \in 1..Len(c.down) :
        LET q == c.unreadT \o SubSeq(c.down, 1, k)
        IN  /\ lag + k - 1 <= MaxLag
            /\ lag' = lag + k - 1
            /\ conns' = [conns EXCEPT ![sock] = [c EXCEPT
                 !.down = SubSeq(c.down, k + 1, Len(c.down)), !.unreadT = Tail(q),
                 !.up = IF c.daemonEnd THEN Append(c.up, "OK") ELSE c.up]]
            /\ wait' = IF wait # <<>> /\ Head(wait) = Head(q) THEN Tail(wait) ELSE wait
            /\ shown' = IF Head(q) = "STATUS" THEN c.epoch ELSE shown
  BY DEF SocketReadReady
<1> DEFINE q == c.unreadT \o SubSeq(c.down, 1, k)
           up == IF c.daemonEnd THEN Append(c.up, "OK") ELSE c.up
           rest == SubSeq(c.down, k + 1, Len(c.down))
           d == [c EXCEPT !.down = rest, !.unreadT = Tail(q), !.up = up]
<1>2. sock # 0 /\ UNCHANGED <<daemon, tray, sock>>
  BY DEF SocketReadReady
<1>3. epoch' = epoch /\ alive' = alive /\ m_locals' = m_locals /\ stack' = stack
      /\ tray' = tray /\ sock' = sock
  BY <1>2 DEF daemon
<1>4. sock \in DOMAIN conns /\ c \in Conn(epoch) /\ ConnOK(c, epoch, alive)
  BY <1>2, Facts
<1>5. rest \in Seq(Asks) /\ Tail(q) \in Seq(Asks)
  <2> DEFINE old == c.unreadT
             new == c.down
  <2>1. old \in Seq(Asks) /\ new \in Seq(Asks) /\ k \in 1..Len(new)
    BY <1>4, Fields
  <2> HIDE DEF old, new
  <2>2. LET p == old \o SubSeq(new, 1, k)
            r == SubSeq(new, k + 1, Len(new))
        IN  /\ p # <<>> /\ p \in Seq(Asks) /\ r \in Seq(Asks) /\ Head(p) \in Asks /\ Tail(p) \in Seq(Asks)
            /\ old \o new = <<Head(p)>> \o (Tail(p) \o r)
            /\ Range(Tail(p)) \cup Range(r) \subseteq Range(old) \cup Range(new)
            /\ Head(p) \in Range(old) \cup Range(new)
    BY <2>1, Reading
  <2> QED  BY <2>2 DEF old, new
<1>6. up \in Seq(Messages) /\ Range(up) \subseteq Range(c.up) \cup {"OK"}
  BY <1>4, Fields, AppendFacts, MessageTypes
<1>7. conns' = [conns EXCEPT ![sock] = d]
  BY <1>1
<1> HIDE DEF q, up, rest
<1>8. /\ d \in Conn(epoch) /\ d.up = up /\ d.unreadD = c.unreadD /\ d.down = rest
      /\ d.unreadT = Tail(q) /\ d.epoch = c.epoch /\ d.daemonEnd = c.daemonEnd
      /\ d.trayEnd = c.trayEnd
  BY <1>4, <1>5, <1>6 DEF Conn
<1> HIDE DEF d
<1>9. ConnOK(d, epoch, alive)
  BY <1>4, <1>6, <1>8, MessageTypes DEF ConnOK, up
<1>10. /\ conns' \in Seq(Conn(epoch')) /\ DOMAIN conns' = DOMAIN conns /\ Len(conns') = Len(conns)
       /\ conns'[sock] = d /\ \A j \in DOMAIN conns : j # sock => conns'[j] = conns[j]
       /\ ConnInv'
  BY <1>3, <1>4, <1>7, <1>8, <1>9, Updates
<1>11. SameEnds
  BY <1>8, <1>10 DEF SameEnds
<1>12. TypeOK'
  <2>1. tray' \in 0..MaxTrays /\ sock' \in 0..Len(conns')
    BY <1>3, <1>10 DEF IInv, TypeOK
  <2>2. lag' \in 0..MaxLag
    <3>1. k \in Nat /\ 1 <= k
      BY <1>4, Fields
    <3>2. lag + k - 1 <= MaxLag /\ lag' = lag + k - 1
      BY <1>1
    <3> QED  BY <3>1, <3>2, Facts
  <2>3. wait' \in Seq(Asks)
    <3>1. wait \in Seq(Asks) /\ (wait # <<>> => Tail(wait) \in Seq(Asks))
      BY Facts
    <3> QED  BY <1>1, <3>1
  <2>4. shown' \in 0..epoch'
    <3>1. shown \in 0..epoch /\ c.epoch \in 1..epoch
      BY <1>4, Fields DEF IInv, TypeOK
    <3> QED  BY <1>1, <1>3, <3>1
  <2> QED  BY <1>2, <1>10, <1>11, <2>1, <2>2, <2>3, <2>4, SameLists DEF TypeOK, Conn
<1>13. SingleInv'
  <2>1. \A i \in Range(stack) : i \in DOMAIN conns
    BY DEF IInv, TypeOK
  <2> QED  BY <1>3, <1>4, <1>8, <1>10, <2>1 DEF IInv, SingleInv, Aside
<1>14. AnswersInOrder'
  <2>1. ASSUME tray = 1, d.daemonEnd
        PROVE  Answered(wait', d)
    <3>1. Answered(wait, c) /\ c.daemonEnd
      BY <1>2, <1>8, <2>1 DEF IInv, AnswersInOrder, Answered
    <3>2. d.up = Append(c.up, "OK")
      BY <1>8, <3>1 DEF up
    <3>6. k \in 1..Len(c.down)
      OBVIOUS
    <3>7. c \in Conn(epoch) /\ d.unreadD = c.unreadD /\ d.unreadT = Tail(q)
      BY <1>4, <1>8
    <3> HIDE DEF c
    <3>3. d.down = SubSeq(c.down, k + 1, Len(c.down)) /\ q = c.unreadT \o SubSeq(c.down, 1, k)
      BY <1>8 DEF rest, q
    <3>8. ReadByTray(c, k, d)
      BY <3>2, <3>3, <3>7 DEF ReadByTray
    <3>4. wait # <<>> /\ Head(wait) = Head(q) /\ Answered(Tail(wait), d)
      BY <3>1, <3>3, <3>6, <3>7, <3>8, TrayReads
    <3>5. wait' = Tail(wait)
      BY <1>1, <3>4 DEF q
    <3> QED  BY <3>4, <3>5
  <2> QED  BY <1>3, <1>10, <2>1 DEF AnswersInOrder, Answered
<1> QED  BY <1>2, <1>10, <1>11, <1>12, <1>13, <1>14, SameLists DEF IInv

LEMMA TrayDisconnected ==
  ASSUME IInv, SocketDisconnected
  PROVE  IInv'
<1> DEFINE c == conns[sock]
           d == [c EXCEPT !.trayEnd = FALSE, !.unreadT = <<>>]
<1>1. /\ sock # 0 /\ ~c.daemonEnd /\ sock' = 0 /\ wait' = <<>> /\ conns' = [conns EXCEPT ![sock] = d]
      /\ UNCHANGED <<daemon, tray, shown, lag>>
  BY DEF SocketDisconnected
<1>2. epoch' = epoch /\ alive' = alive /\ m_locals' = m_locals /\ stack' = stack
      /\ tray' = tray /\ shown' = shown /\ lag' = lag
  BY <1>1 DEF daemon
<1>3. sock \in DOMAIN conns /\ c \in Conn(epoch) /\ ConnOK(c, epoch, alive)
  BY <1>1, Facts
<1>4. <<>> \in Seq(Asks)
  OBVIOUS
<1>5. /\ d \in Conn(epoch) /\ d.up = c.up /\ d.unreadD = c.unreadD /\ d.epoch = c.epoch
      /\ d.daemonEnd = c.daemonEnd
  BY <1>3, <1>4 DEF Conn
<1>6. ConnOK(d, epoch, alive)
  BY <1>3, <1>5 DEF ConnOK
<1> HIDE DEF d
<1>7. /\ conns' \in Seq(Conn(epoch')) /\ DOMAIN conns' = DOMAIN conns /\ Len(conns') = Len(conns)
      /\ conns'[sock] = d /\ \A j \in DOMAIN conns : j # sock => conns'[j] = conns[j]
      /\ ConnInv'
  BY <1>1, <1>2, <1>3, <1>5, <1>6, Updates
<1>8. SameEnds
  BY <1>5, <1>7 DEF SameEnds
<1>9. TypeOK'
  <2>1. tray' \in 0..MaxTrays /\ shown' \in 0..epoch' /\ lag' \in 0..MaxLag /\ sock' \in 0..Len(conns')
    BY <1>1, <1>2, <1>7, Facts DEF IInv, TypeOK
  <2>2. wait' \in Seq(Asks)
    BY <1>1
  <2> QED  BY <1>1, <1>7, <1>8, <2>1, <2>2, SameLists DEF TypeOK, Conn
<1>10. SingleInv'
  <2>1. ASSUME tray <= 1
        PROVE  /\ \A i \in DOMAIN conns' : i # sock' => Aside(conns'[i])
               /\ Range(m_locals') \subseteq {sock'}
               /\ \A i \in Range(stack') : i = sock' \/ ~conns'[i].daemonEnd
    <3>1. \A i \in DOMAIN conns' : Aside(conns'[i])
      BY <1>1, <1>5, <1>7, <2>1 DEF IInv, SingleInv, Aside
    <3>2. Range(m_locals) = {}
      <4>1. Range(m_locals) \subseteq {sock}
        BY <2>1 DEF IInv, SingleInv
      <4>2. \A i \in Range(m_locals) : conns[i].daemonEnd
        BY DEF IInv, TypeOK
      <4> QED  BY <1>1, <4>1, <4>2
    <3>3. \A i \in Range(stack) : i \in DOMAIN conns /\ ~conns[i].daemonEnd
      BY <1>1, <2>1 DEF IInv, SingleInv, TypeOK
    <3> QED  BY <1>1, <1>2, <1>5, <1>7, <3>1, <3>2, <3>3
  <2> QED  BY <1>1, <1>2, <2>1 DEF SingleInv
<1>11. AnswersInOrder'
  BY <1>1 DEF AnswersInOrder
<1> QED  BY <1>1, <1>7, <1>8, <1>9, <1>10, <1>11, SameLists DEF IInv

-----------------------------------------------------------------------------
(* Steps of the daemon *)

\* With one tray it is the tray's connection on which a command is read.
LEMMA OnlyTheTrays ==
  ASSUME IInv, NEW i \in DOMAIN conns, conns[i].daemonEnd, tray <= 1,
         Range(conns[i].up) \cap Commands # {}
  PROVE  i = sock
<1> SUFFICES ASSUME i # sock
             PROVE  FALSE
  OBVIOUS
<1>1. Aside(conns[i])
  BY DEF IInv, SingleInv
<1> QED  BY <1>1, MessageTypes DEF Aside

LEMMA DaemonTakes ==
  ASSUME NEW n, NEW c \in Conn(n), NEW k \in 1..Len(c.up)
  PROVE  LET q == c.unreadD \o SubSeq(c.up, 1, k)
             rest == SubSeq(c.up, k + 1, Len(c.up))
         IN  /\ rest \in Seq(Messages) /\ Tail(q) \in Seq(Messages) /\ Head(q) \in Messages
             /\ Range(Tail(q)) \cup Range(rest) \subseteq Range(c.unreadD) \cup Range(c.up)
             /\ Head(q) \in Range(c.unreadD) \cup Range(c.up)
<1> DEFINE old == c.unreadD
           new == c.up
<1>1. old \in Seq(Messages) /\ new \in Seq(Messages) /\ k \in 1..Len(new)
  BY Fields
<1> HIDE DEF old, new
<1>2. LET p == old \o SubSeq(new, 1, k)
          r == SubSeq(new, k + 1, Len(new))
      IN  /\ p # <<>> /\ p \in Seq(Messages) /\ r \in Seq(Messages) /\ Head(p) \in Messages /\ Tail(p) \in Seq(Messages)
          /\ old \o new = <<Head(p)>> \o (Tail(p) \o r)
          /\ Range(Tail(p)) \cup Range(r) \subseteq Range(old) \cup Range(new)
          /\ Head(p) \in Range(old) \cup Range(new)
  BY <1>1, Reading
<1> QED  BY <1>2 DEF old, new

LEMMA ReadsStep ==
  ASSUME IInv, NEW i \in DOMAIN conns, ReadyRead(i)
  PROVE  IInv'
<1> DEFINE c == conns[i]
<1>1. /\ alive /\ c.daemonEnd /\ Range(c.up) \cap Commands # {} /\ i \notin Range(stack)
      /\ UNCHANGED <<epoch, alive, client>>
      /\ m_locals' = IF i \in Range(m_locals) THEN m_locals ELSE Append(m_locals, i)
  BY DEF ReadyRead
<1>2. PICK k \in 1..Len(c.up) :
        LET q == c.unreadD \o SubSeq(c.up, 1, k)
        IN  /\ lag + k - 1 <= MaxLag
            /\ lag' = lag + k - 1
            /\ OnPipeMessage(i, Head(q), m_locals',
                 [conns EXCEPT ![i] = [c EXCEPT !.up = SubSeq(c.up, k + 1, Len(c.up)),
                                                !.unreadD = Tail(q)]])
  BY DEF ReadyRead, Take
<1> DEFINE q == c.unreadD \o SubSeq(c.up, 1, k)
           msg == Head(q)
           rest == SubSeq(c.up, k + 1, Len(c.up))
           d == [c EXCEPT !.up = rest, !.unreadD = Tail(q)]
           cs == [conns EXCEPT ![i] = d]
           l == m_locals'[1]
<1>3. /\ conns' = IF msg \in Asks /\ cs[l].trayEnd
                  THEN [cs EXCEPT ![l].down = Append(@, msg)] ELSE cs
      /\ stack' = IF msg \in Asks THEN Append(stack, i) ELSE stack
      /\ restarting' = (restarting \/ msg = "QIPERFD_RESTART")
      /\ lag + k - 1 <= MaxLag /\ lag' = lag + k - 1
  BY <1>2 DEF OnPipeMessage
<1>4. epoch' = epoch /\ alive' = alive /\ tray' = tray /\ sock' = sock /\ wait' = wait /\ shown' = shown
  BY <1>1 DEF client
<1>5. c \in Conn(epoch) /\ ConnOK(c, epoch, alive) /\ c.epoch = epoch /\ k \in Nat /\ 1 <= k
  <2>1. c \in Conn(epoch) /\ ConnOK(c, epoch, alive)
    BY Facts
  <2> QED  BY <1>1, <2>1, Fields DEF ConnOK
<1>6. /\ rest \in Seq(Messages) /\ Tail(q) \in Seq(Messages) /\ msg \in Messages
      /\ Range(Tail(q)) \cup Range(rest) \subseteq Range(c.unreadD) \cup Range(c.up)
      /\ msg \in Range(c.unreadD) \cup Range(c.up)
  <2> HIDE DEF c
  <2>1. c \in Conn(epoch) /\ k \in 1..Len(c.up)
    BY <1>5 DEF c
  <2> QED  BY <2>1, DaemonTakes
<1> HIDE DEF msg, rest, q
<1>7. /\ d \in Conn(epoch) /\ d.up = rest /\ d.unreadD = Tail(q) /\ d.down = c.down
      /\ d.unreadT = c.unreadT /\ d.epoch = c.epoch /\ d.daemonEnd = c.daemonEnd
      /\ d.trayEnd = c.trayEnd
  BY <1>5, <1>6 DEF Conn
<1> HIDE DEF d
<1>8. /\ cs \in Seq(Conn(epoch)) /\ DOMAIN cs = DOMAIN conns /\ Len(cs) = Len(conns)
      /\ cs[i] = d /\ \A j \in DOMAIN conns : j # i => cs[j] = conns[j]
  BY <1>7, Facts, Changed
<1> HIDE DEF cs
\* What is registered.
<1>9. /\ m_locals' \in Seq(DOMAIN conns) /\ IsInjective(m_locals') /\ l \in DOMAIN conns
      /\ l \in Range(m_locals') /\ Range(m_locals') \subseteq Range(m_locals) \cup {i}
  <2>1. m_locals \in Seq(DOMAIN conns) /\ IsInjective(m_locals)
    BY DEF IInv, ListInv, TypeOK
  <2>2. /\ m_locals' \in Seq(DOMAIN conns) /\ IsInjective(m_locals') /\ m_locals' # <<>>
        /\ Range(m_locals') \subseteq Range(m_locals) \cup {i}
    <3>1. CASE i \in Range(m_locals)
      <4>1. m_locals # <<>>
        BY <3>1, EmptyFacts
      <4> QED  BY <1>1, <2>1, <3>1, <4>1
    <3>2. CASE i \notin Range(m_locals)
      BY <1>1, <2>1, <3>2, AppendFacts
    <3> QED  BY <3>1, <3>2
  <2> DEFINE s == m_locals'
  <2>3. s \in Seq(DOMAIN conns) /\ s # <<>>
    BY <2>2
  <2> HIDE DEF s
  <2>4. 1 \in DOMAIN s /\ s[1] \in DOMAIN conns
    BY <2>3
  <2>5. s[1] \in Range(s)
    BY <2>4 DEF Range
  <2> QED  BY <2>2, <2>4, <2>5 DEF s
<1> HIDE DEF l
\* An answer is added to one connection, and nothing else changes.
<1>10. /\ conns' \in Seq(Conn(epoch)) /\ DOMAIN conns' = DOMAIN conns /\ Len(conns') = Len(conns)
       /\ \A j \in DOMAIN conns : /\ conns'[j].up = cs[j].up /\ conns'[j].unreadD = cs[j].unreadD
                                  /\ conns'[j].unreadT = cs[j].unreadT
                                  /\ conns'[j].daemonEnd = cs[j].daemonEnd
                                  /\ conns'[j].trayEnd = cs[j].trayEnd
                                  /\ conns'[j].epoch = cs[j].epoch
       /\ cs[l].trayEnd =>
            conns'[l].down = IF msg \in Asks THEN Append(cs[l].down, msg) ELSE cs[l].down
  <2>1. CASE msg \in Asks /\ cs[l].trayEnd
    <3> DEFINE b == cs[l]
               a == [b EXCEPT !.down = Append(b.down, msg)]
    <3>1. b \in Conn(epoch)
      BY <1>8, <1>9
    <3>2. Append(b.down, msg) \in Seq(Asks)
      BY <2>1, <3>1, Fields
    <3>3. /\ a \in Conn(epoch) /\ a.up = b.up /\ a.unreadD = b.unreadD /\ a.unreadT = b.unreadT
          /\ a.daemonEnd = b.daemonEnd /\ a.trayEnd = b.trayEnd /\ a.epoch = b.epoch
          /\ a.down = Append(b.down, msg)
      BY <3>1, <3>2 DEF Conn
    <3>4. conns' = [cs EXCEPT ![l] = a]
      BY <1>3, <2>1
    <3> HIDE DEF a
    <3>5. /\ conns' \in Seq(Conn(epoch)) /\ DOMAIN conns' = DOMAIN cs /\ Len(conns') = Len(cs)
          /\ conns'[l] = a /\ \A j \in DOMAIN cs : j # l => conns'[j] = cs[j]
      BY <1>8, <1>9, <3>3, <3>4, Changed
    <3> QED  BY <1>8, <1>9, <2>1, <3>3, <3>5
  <2>2. CASE ~(msg \in Asks /\ cs[l].trayEnd)
    <3>1. conns' = cs
      BY <1>3, <2>2
    <3> QED  BY <1>8, <2>2, <3>1
  <2> QED  BY <2>1, <2>2
<1>11. SameEnds
  <2> SUFFICES ASSUME NEW j \in DOMAIN conns
               PROVE  /\ conns'[j].daemonEnd = conns[j].daemonEnd
                      /\ conns'[j].epoch = conns[j].epoch
    BY <1>10 DEF SameEnds
  <2>1. cs[j].daemonEnd = conns[j].daemonEnd /\ cs[j].epoch = conns[j].epoch
    BY <1>7, <1>8
  <2> QED  BY <1>10, <2>1
<1>12. stack' \in Seq(DOMAIN conns) /\ IsInjective(stack') /\ Range(stack') \subseteq Range(stack) \cup {i}
  <2>1. stack \in Seq(DOMAIN conns) /\ IsInjective(stack)
    BY DEF IInv, ListInv, TypeOK
  <2>2. CASE msg \in Asks
    BY <1>1, <1>3, <2>1, <2>2, AppendFacts
  <2>3. CASE msg \notin Asks
    BY <1>3, <2>1, <2>3
  <2> QED  BY <2>2, <2>3
<1>13. Range(m_locals) \subseteq DOMAIN conns /\ Range(stack) \subseteq DOMAIN conns
  <2>1. m_locals \in Seq(DOMAIN conns) /\ stack \in Seq(DOMAIN conns)
    BY DEF IInv, ListInv
  <2>2. /\ \A j \in DOMAIN m_locals : m_locals[j] \in DOMAIN conns
        /\ \A j \in DOMAIN stack : stack[j] \in DOMAIN conns
    BY <2>1
  <2> QED  BY <2>2 DEF Range
<1>14. TypeOK'
  <2>1. epoch' \in 1..MaxEpochs /\ {alive', restarting'} \subseteq BOOLEAN
    BY <1>3, <1>4 DEF IInv, TypeOK
  <2>2. \A j \in Range(m_locals') : conns'[j].daemonEnd /\ conns'[j].epoch = epoch'
    <3> SUFFICES ASSUME NEW j \in Range(m_locals')
                 PROVE  conns'[j].daemonEnd /\ conns'[j].epoch = epoch
      BY <1>4
    <3>1. j \in DOMAIN conns /\ conns[j].daemonEnd /\ conns[j].epoch = epoch
      BY <1>1, <1>5, <1>9, <1>13 DEF IInv, TypeOK
    <3> QED  BY <1>11, <3>1 DEF SameEnds
  <2>3. Range(stack') \subseteq DOMAIN conns'
    BY <1>10, <1>12, <1>13
  <2>4. tray' \in 0..MaxTrays /\ shown' \in 0..epoch' /\ sock' \in 0..Len(conns') /\ wait' \in Seq(Asks)
    BY <1>4, <1>10 DEF IInv, TypeOK
  <2>5. lag' \in 0..MaxLag
    BY <1>3, <1>5, Facts, SMTT(30)
  <2>6. conns' \in Seq(Conn(epoch'))
    BY <1>4, <1>10
  <2> QED  BY <1>9, <1>12, <2>1, <2>2, <2>3, <2>4, <2>5, <2>6 DEF TypeOK, Conn
<1>15. ListInv'
  BY <1>9, <1>10, <1>12 DEF ListInv
<1>16. ConnInv'
  <2> SUFFICES ASSUME NEW j \in DOMAIN conns
               PROVE  ConnOK(conns'[j], epoch, alive)
    BY <1>4, <1>10 DEF ConnInv
  <2>1. ConnOK(cs[j], epoch, alive)
    <3>1. CASE j = i
      <4>1. Range(rest) \cup Range(Tail(q)) \subseteq Range(c.up) \cup Range(c.unreadD)
        BY <1>6
      <4>2. ConnOK(d, epoch, alive)
        BY <1>1, <1>5, <1>7, <4>1 DEF ConnOK
      <4> QED  BY <1>8, <3>1, <4>2
    <3>2. CASE j # i
      BY <1>8, <3>2, Facts
    <3> QED  BY <3>1, <3>2
  <2>2. /\ conns'[j].daemonEnd = cs[j].daemonEnd /\ conns'[j].epoch = cs[j].epoch
        /\ conns'[j].up = cs[j].up /\ conns'[j].unreadD = cs[j].unreadD
    BY <1>10
  <2> QED  BY <2>1, <2>2 DEF ConnOK
<1>17. DaemonInv'
  <2>1. epoch = MaxEpochs => msg # "QIPERFD_RESTART"
    BY <1>5, <1>6 DEF ConnOK, Ending
  <2>2. restarting' => restarting \/ msg = "QIPERFD_RESTART"
    BY <1>3
  <2>3. epoch = MaxEpochs => ~restarting
    BY DEF IInv, DaemonInv
  <2> QED  BY <1>1, <1>4, <2>1, <2>2, <2>3 DEF DaemonInv
<1>18. tray <= 1 => i = sock
  BY <1>1, OnlyTheTrays
<1>19. SingleInv'
  <2>1. sock' # 0 => conns'[sock'].trayEnd
    <3> SUFFICES ASSUME sock # 0
                 PROVE  conns'[sock].trayEnd
      BY <1>4
    <3>1. sock \in DOMAIN conns /\ conns[sock].trayEnd
      BY Facts DEF IInv, SingleInv
    <3>2. cs[sock].trayEnd
      BY <1>7, <1>8, <3>1
    <3> QED  BY <1>10, <3>1, <3>2
  <2>2. tray' = 0 => sock' = 0
    BY <1>4 DEF IInv, SingleInv
  <2>3. ASSUME tray <= 1
        PROVE  /\ \A j \in DOMAIN conns' : j # sock' => Aside(conns'[j])
               /\ Range(m_locals') \subseteq {sock'}
               /\ \A j \in Range(stack') : j = sock' \/ ~conns'[j].daemonEnd
    <3>1. i = sock
      BY <1>18, <2>3
    <3>2. ASSUME NEW j \in DOMAIN conns, j # sock
          PROVE  Aside(conns'[j])
      <4>1. Aside(conns[j]) /\ cs[j] = conns[j]
        BY <1>8, <2>3, <3>1, <3>2 DEF IInv, SingleInv
      <4>2. /\ conns'[j].daemonEnd = conns[j].daemonEnd
            /\ conns'[j].up = conns[j].up /\ conns'[j].unreadD = conns[j].unreadD
        BY <1>10, <4>1
      <4> QED  BY <4>1, <4>2 DEF Aside
    <3>3. Range(m_locals') \subseteq {sock}
      BY <1>9, <2>3, <3>1 DEF IInv, SingleInv
    <3>4. \A j \in Range(stack') : j = sock \/ ~conns'[j].daemonEnd
      BY <1>11, <1>12, <1>13, <2>3, <3>1 DEF IInv, SingleInv, SameEnds
    <3> QED  BY <1>4, <1>10, <3>2, <3>3, <3>4
  <2> QED  BY <1>4, <2>1, <2>2, <2>3 DEF SingleInv
<1>20. AnswersInOrder'
  <2>1. ASSUME tray = 1, sock # 0
        PROVE  Answered(wait, conns'[sock])
    <3>1. i = sock /\ Answered(wait, c)
      <4>1. i = sock
        BY <1>18, <2>1
      <4>2. Answered(wait, conns[sock])
        BY <1>1, <2>1, <4>1 DEF IInv, AnswersInOrder, Answered
      <4> QED  BY <4>1, <4>2
    <3>2. l = sock
      BY <1>9, <2>1, <3>1 DEF IInv, SingleInv
    <3>3. cs[l] = d /\ d.trayEnd
      BY <1>7, <1>8, <2>1, <3>1, <3>2 DEF IInv, SingleInv
    <3>4. ReadByDaemon(c, k, conns'[sock])
      BY <1>7, <1>10, <3>1, <3>2, <3>3 DEF ReadByDaemon, msg, q, rest
    <3>5. k \in 1..Len(c.up) /\ c \in Conn(epoch) /\ c.daemonEnd
      BY <1>1, <1>5
    <3> HIDE DEF c
    <3> QED  BY <3>1, <3>4, <3>5, DaemonReads
  <2> QED  BY <1>4, <2>1 DEF AnswersInOrder, Answered
<1> QED  BY <1>14, <1>15, <1>16, <1>17, <1>19, <1>20 DEF IInv

\* More of a message is read into the buffer: what is unread is as it was.
LEMMA ArrivesStep ==
  ASSUME IInv, NEW i \in DOMAIN conns, ArriveInside(i)
  PROVE  IInv'
<1> DEFINE c == conns[i]
           h == Head(c.up)
           t == Tail(c.up)
           v == Append(c.unreadD, h)
           d == [c EXCEPT !.up = t, !.unreadD = v]
<1>1. /\ alive /\ i \in Range(stack) /\ c.up # <<>> /\ lag < MaxLag /\ lag' = lag + 1
      /\ conns' = [conns EXCEPT ![i] = d] /\ UNCHANGED <<daemon, client>>
  BY DEF ArriveInside
<1>2. epoch' = epoch /\ alive' = alive /\ m_locals' = m_locals /\ stack' = stack
      /\ tray' = tray /\ sock' = sock /\ wait' = wait /\ shown' = shown
  BY <1>1 DEF daemon, client
<1>3. c \in Conn(epoch) /\ ConnOK(c, epoch, alive) /\ c.daemonEnd
      /\ c.up \in Seq(Messages) /\ c.unreadD \in Seq(Messages)
  <2>1. c \in Conn(epoch) /\ ConnOK(c, epoch, alive)
    BY Facts
  <2>2. c.up \in Seq(Messages) /\ c.unreadD \in Seq(Messages) /\ c.daemonEnd \in BOOLEAN
    BY <2>1, Fields
  <2> QED  BY <1>1, <2>1, <2>2 DEF ConnOK
<1>4. /\ h \in Messages /\ t \in Seq(Messages) /\ c.up = <<h>> \o t /\ Range(c.up) = {h} \cup Range(t)
  BY <1>1, <1>3, HeadTail
<1>5. v \in Seq(Messages) /\ Range(v) = Range(c.unreadD) \cup {h} /\ v = c.unreadD \o <<h>>
  <2> DEFINE u == c.unreadD
  <2>1. u \in Seq(Messages) /\ h \in Messages
    BY <1>3, <1>4
  <2> HIDE DEF h, u
  <2>2. Append(u, h) \in Seq(Messages) /\ Range(Append(u, h)) = Range(u) \cup {h} /\ Append(u, h) = u \o <<h>>
    BY <2>1, AppendFacts, EmptyFacts
  <2> QED  BY <2>2 DEF u
<1>6. v \o t = c.unreadD \o c.up
  <2> DEFINE u == c.unreadD
             e == <<h>>
  <2>1. u \in Seq(Messages) /\ e \in Seq(Messages) /\ t \in Seq(Messages)
    BY <1>3, <1>4, EmptyFacts
  <2>2. c.up = e \o t /\ v = u \o e
    BY <1>4, <1>5
  <2> HIDE DEF u, e, t, v
  <2>3. (u \o e) \o t = u \o (e \o t)
    BY ONLY <2>1
  <2> QED  BY <2>2, <2>3 DEF u
<1> HIDE DEF h, t, v
<1>7. /\ d \in Conn(epoch) /\ d.up = t /\ d.unreadD = v /\ d.down = c.down
      /\ d.unreadT = c.unreadT /\ d.epoch = c.epoch /\ d.daemonEnd = c.daemonEnd
      /\ d.trayEnd = c.trayEnd
  BY <1>3, <1>4, <1>5 DEF Conn
<1> HIDE DEF d
<1>8. ConnOK(d, epoch, alive)
  BY <1>3, <1>4, <1>5, <1>7 DEF ConnOK
<1>9. /\ conns' \in Seq(Conn(epoch')) /\ DOMAIN conns' = DOMAIN conns /\ Len(conns') = Len(conns)
      /\ conns'[i] = d /\ \A j \in DOMAIN conns : j # i => conns'[j] = conns[j]
      /\ ConnInv'
  BY <1>1, <1>2, <1>7, <1>8, Updates
<1>10. SameEnds
  BY <1>7, <1>9 DEF SameEnds
<1>11. TypeOK'
  <2>1. tray' \in 0..MaxTrays /\ shown' \in 0..epoch' /\ sock' \in 0..Len(conns') /\ wait' \in Seq(Asks)
    BY <1>2, <1>9 DEF IInv, TypeOK
  <2>2. lag' \in 0..MaxLag
    BY <1>1, Facts
  <2> QED  BY <1>1, <1>9, <1>10, <2>1, <2>2, SameLists DEF TypeOK, Conn
<1>12. tray <= 1 => i = sock
  BY <1>1, <1>3 DEF IInv, SingleInv
<1>13. SingleInv'
  <2>1. sock' # 0 => conns'[sock'].trayEnd
    BY <1>2, <1>7, <1>9, Facts DEF IInv, SingleInv
  <2>2. \A j \in Range(stack) : j \in DOMAIN conns
    BY DEF IInv, TypeOK
  <2>3. ASSUME tray <= 1
        PROVE  /\ \A j \in DOMAIN conns' : j # sock' => Aside(conns'[j])
               /\ Range(m_locals') \subseteq {sock'}
               /\ \A j \in Range(stack') : j = sock' \/ ~conns'[j].daemonEnd
    BY <1>2, <1>9, <1>12, <2>2, <2>3 DEF IInv, SingleInv
  <2> QED  BY <1>2, <2>1, <2>3 DEF IInv, SingleInv
<1>14. AnswersInOrder'
  <2>1. ASSUME tray = 1, sock # 0
        PROVE  Answered(wait, conns'[sock])
    <3>1. i = sock
      BY <1>12, <2>1
    <3>2. Answered(wait, conns[sock])
      BY <1>3, <2>1, <3>1 DEF IInv, AnswersInOrder, Answered
    <3> QED  BY <1>6, <1>7, <1>9, <3>1, <3>2 DEF Answered
  <2> QED  BY <1>2, <2>1 DEF AnswersInOrder, Answered
<1> QED  BY <1>1, <1>9, <1>10, <1>11, <1>13, <1>14, SameLists DEF IInv

LEMMA ReturnsStep ==
  ASSUME IInv, Return
  PROVE  IInv'
<1>1. /\ stack # <<>> /\ stack' = Front(stack)
      /\ UNCHANGED <<epoch, alive, restarting, m_locals, conns, client, lag>>
  BY DEF Return
<1>2. /\ epoch' = epoch /\ alive' = alive /\ m_locals' = m_locals /\ restarting' = restarting
      /\ tray' = tray /\ sock' = sock /\ wait' = wait /\ shown' = shown /\ conns' = conns /\ lag' = lag
  BY <1>1 DEF client
<1>3. stack' \in Seq(DOMAIN conns) /\ Range(stack') \subseteq Range(stack) /\ IsInjective(stack')
  BY <1>1, FrontFacts DEF IInv, ListInv, TypeOK
<1>4. TypeOK'
  BY <1>2, <1>3 DEF IInv, TypeOK
<1>5. ListInv' /\ ConnInv' /\ DaemonInv' /\ AnswersInOrder'
  BY <1>2, <1>3 DEF IInv, ListInv, ConnInv, DaemonInv, AnswersInOrder
<1>6. SingleInv'
  BY <1>2, <1>3 DEF IInv, SingleInv
<1> QED  BY <1>4, <1>5, <1>6 DEF IInv

LEMMA DaemonDisconnected ==
  ASSUME IInv, NEW i \in DOMAIN conns, OnDisconnected(i)
  PROVE  IInv'
<1> DEFINE c == conns[i]
           d == [c EXCEPT !.daemonEnd = FALSE, !.unreadD = <<>>]
<1>1. /\ alive /\ c.daemonEnd /\ ~c.trayEnd /\ c.up = <<>>
      /\ m_locals' = RemoveFirst(m_locals, i) /\ conns' = [conns EXCEPT ![i] = d]
      /\ UNCHANGED <<epoch, alive, restarting, stack, client, lag>>
  BY DEF OnDisconnected
<1>2. /\ epoch' = epoch /\ alive' = alive /\ stack' = stack /\ restarting' = restarting
      /\ tray' = tray /\ sock' = sock /\ wait' = wait /\ shown' = shown /\ lag' = lag
  BY <1>1 DEF client
<1>3. c \in Conn(epoch) /\ ConnOK(c, epoch, alive)
  BY Facts
<1>4. <<>> \in Seq(Messages)
  OBVIOUS
<1>5. d \in Conn(epoch) /\ d.up = <<>> /\ d.unreadD = <<>> /\ ~d.daemonEnd
  BY <1>1, <1>3, <1>4 DEF Conn
<1> HIDE DEF d
<1>6. ConnOK(d, epoch, alive)
  BY <1>5, EmptyFacts DEF ConnOK
<1>7. /\ conns' \in Seq(Conn(epoch')) /\ DOMAIN conns' = DOMAIN conns /\ Len(conns') = Len(conns)
      /\ conns'[i] = d /\ \A j \in DOMAIN conns : j # i => conns'[j] = conns[j]
      /\ ConnInv'
  BY <1>1, <1>2, <1>5, <1>6, Updates
<1>8. m_locals \in Seq(DOMAIN conns) /\ stack \in Seq(DOMAIN conns) /\ IsInjective(m_locals)
  BY DEF IInv, ListInv, TypeOK
<1>9. /\ m_locals' \in Seq(DOMAIN conns) /\ IsInjective(m_locals')
      /\ Range(m_locals') \subseteq Range(m_locals) \ {i}
  BY <1>1, <1>8, Removed
<1>10. \A j \in Range(m_locals) : j \in DOMAIN conns
  <2>1. \A j \in DOMAIN m_locals : m_locals[j] \in DOMAIN conns
    BY <1>8
  <2> QED  BY <2>1 DEF Range
<1>11. TypeOK'
  <2>1. \A j \in Range(m_locals') : conns'[j].daemonEnd /\ conns'[j].epoch = epoch'
    BY <1>2, <1>7, <1>9, <1>10 DEF IInv, TypeOK
  <2>2. /\ IsInjective(stack') /\ Range(stack') \subseteq DOMAIN conns'
        /\ epoch' \in 1..MaxEpochs /\ {alive', restarting'} \subseteq BOOLEAN
        /\ tray' \in 0..MaxTrays /\ shown' \in 0..epoch' /\ sock' \in 0..Len(conns')
        /\ wait' \in Seq(Asks) /\ lag' \in 0..MaxLag
    BY <1>2, <1>7 DEF IInv, TypeOK
  <2> QED  BY <1>7, <1>9, <2>1, <2>2 DEF TypeOK, Conn
<1>12. ListInv' /\ DaemonInv'
  BY <1>2, <1>7, <1>8, <1>9 DEF IInv, ListInv, DaemonInv
<1>13. i # sock
  BY <1>1, Facts DEF IInv, SingleInv
<1>14. SingleInv'
  <2>1. sock' # 0 => conns'[sock'].trayEnd
    BY <1>2, <1>7, <1>13, Facts DEF IInv, SingleInv
  <2>2. \A j \in Range(stack) : j \in DOMAIN conns
    BY DEF IInv, TypeOK
  <2>3. ASSUME tray <= 1
        PROVE  /\ \A j \in DOMAIN conns' : j # sock' => Aside(conns'[j])
               /\ Range(m_locals') \subseteq {sock'}
               /\ \A j \in Range(stack') : j = sock' \/ ~conns'[j].daemonEnd
    <3>1. Aside(d)
      BY <1>5 DEF Aside
    <3> QED  BY <1>2, <1>5, <1>7, <1>9, <2>2, <2>3, <3>1 DEF IInv, SingleInv
  <2> QED  BY <1>2, <2>1, <2>3 DEF IInv, SingleInv
<1>15. AnswersInOrder'
  <2>1. sock # 0 => sock \in DOMAIN conns /\ conns'[sock] = conns[sock]
    BY <1>7, <1>13, Facts
  <2> QED  BY <1>2, <2>1 DEF IInv, AnswersInOrder
<1> QED  BY <1>7, <1>11, <1>12, <1>14, <1>15 DEF IInv

\* The process ends, except that the last one is not told to.
LEMMA DiesStep ==
  ASSUME IInv, Die, epoch # MaxEpochs
  PROVE  IInv'
<1> DEFINE gone(c) == [c EXCEPT !.up = <<>>, !.unreadD = <<>>, !.daemonEnd = FALSE]
<1>1. /\ alive /\ alive' = FALSE /\ restarting' = FALSE /\ m_locals' = <<>> /\ stack' = <<>>
      /\ conns' = [i \in DOMAIN conns |-> gone(conns[i])]
      /\ UNCHANGED <<epoch, client, lag>>
  BY DEF Die
<1>2. /\ epoch' = epoch /\ tray' = tray /\ sock' = sock /\ wait' = wait /\ shown' = shown /\ lag' = lag
  BY <1>1 DEF client
<1>3. ASSUME NEW j \in DOMAIN conns
      PROVE  /\ conns'[j] \in Conn(epoch) /\ conns'[j].up = <<>> /\ conns'[j].unreadD = <<>>
             /\ ~conns'[j].daemonEnd /\ conns'[j].trayEnd = conns[j].trayEnd
  <2>1. conns'[j] = gone(conns[j])
    BY <1>1
  <2>2. conns[j] \in Conn(epoch) /\ <<>> \in Seq(Messages)
    BY Facts
  <2> QED  BY <2>1, <2>2 DEF Conn
<1>4. conns' \in Seq(Conn(epoch)) /\ DOMAIN conns' = DOMAIN conns /\ Len(conns') = Len(conns)
  <2>1. DOMAIN conns = 1..Len(conns) /\ Len(conns) \in Nat
    BY Facts
  <2>2. conns' \in [1..Len(conns) -> Conn(epoch)]
    BY <1>1, <1>3, <2>1
  <2> QED  BY <2>1, <2>2
<1>5. Range(<<>>) = {} /\ IsInjective(<<>>) /\ <<>> \in Seq(DOMAIN conns)
  BY EmptyFacts DEF IsInjective
<1>6. TypeOK'
  <2>1. /\ epoch' \in 1..MaxEpochs /\ {alive', restarting'} \subseteq BOOLEAN
        /\ tray' \in 0..MaxTrays /\ shown' \in 0..epoch' /\ sock' \in 0..Len(conns')
        /\ wait' \in Seq(Asks) /\ lag' \in 0..MaxLag
    BY <1>1, <1>2, <1>4 DEF IInv, TypeOK
  <2> QED  BY <1>1, <1>2, <1>4, <1>5, <2>1 DEF TypeOK, Conn
<1>7. ListInv' /\ DaemonInv'
  BY <1>1, <1>2, <1>4, <1>5 DEF ListInv, DaemonInv
<1>8. ConnInv'
  BY <1>2, <1>3, <1>4, <1>5 DEF ConnInv, ConnOK
<1>9. SingleInv'
  <2>1. sock # 0 => sock \in DOMAIN conns /\ conns'[sock].trayEnd
    BY <1>3, Facts DEF IInv, SingleInv
  <2>2. \A j \in DOMAIN conns : Aside(conns'[j])
    BY <1>3 DEF Aside
  <2> QED  BY <1>1, <1>2, <1>4, <1>5, <2>1, <2>2 DEF IInv, SingleInv
<1>10. AnswersInOrder'
  <2>1. sock # 0 => ~conns'[sock].daemonEnd
    BY <1>3, Facts
  <2> QED  BY <1>2, <2>1 DEF AnswersInOrder
<1> QED  BY <1>6, <1>7, <1>8, <1>9, <1>10 DEF IInv

LEMMA RestartsStep ==
  ASSUME IInv, DoRestartQIperfd
  PROVE  IInv'
<1>1. epoch # MaxEpochs
  BY DEF IInv, DaemonInv, DoRestartQIperfd
<1> QED  BY <1>1, DiesStep DEF DoRestartQIperfd

LEMMA UnknownStep ==
  ASSUME IInv, NEW i \in DOMAIN conns, OnUnknownMessage(i)
  PROVE  IInv'
<1> DEFINE c == conns[i]
<1>1. c.up # <<>> /\ Head(c.up) \notin Commands /\ Die
  BY DEF OnUnknownMessage
<1>2. c \in Conn(epoch) /\ ConnOK(c, epoch, alive)
  BY Facts
<1>3. Head(c.up) \in Messages /\ Head(c.up) \in Range(c.up)
  BY <1>1, <1>2, Fields, HeadTail, ZenonT(30)
<1>4. Head(c.up) = SecondArgs
  BY <1>1, <1>3 DEF Messages
<1>5. epoch # MaxEpochs
  BY <1>2, <1>3, <1>4 DEF ConnOK, Ending
<1> QED  BY <1>1, <1>5, DiesStep

LEMMA SecondStep ==
  ASSUME IInv, SecondInstance
  PROVE  IInv'
<1> DEFINE ms == <<SecondArgs>>
           d == [FreshConn EXCEPT !.up = ms, !.trayEnd = FALSE]
           n == Len(conns) + 1
<1>1. /\ alive /\ epoch < MaxEpochs /\ conns' = Append(conns, d) /\ UNCHANGED <<daemon, client, lag>>
  BY DEF SecondInstance
<1>2. epoch' = epoch /\ alive' = alive /\ lag' = lag /\ m_locals' = m_locals /\ stack' = stack
      /\ tray' = tray /\ sock' = sock /\ wait' = wait /\ shown' = shown
  BY <1>1 DEF daemon, client
<1>3. ms \in Seq(Messages) /\ Range(ms) = {SecondArgs}
  BY MessageTypes, EmptyFacts
<1> HIDE DEF ms
<1>4. /\ d \in Conn(epoch) /\ d.up = ms /\ d.unreadD = <<>> /\ d.epoch = epoch /\ d.daemonEnd
  BY <1>3, FreshFacts
<1> HIDE DEF d
<1>5. /\ conns' \in Seq(Conn(epoch)) /\ Len(conns') = n /\ Len(conns) \in Nat /\ n \notin DOMAIN conns
      /\ DOMAIN conns' = DOMAIN conns \cup {n} /\ conns'[n] = d
      /\ \A j \in DOMAIN conns : conns'[j] = conns[j]
  BY <1>1, <1>4, Facts, Appended
<1>6. SameEnds
  BY <1>5 DEF SameEnds
<1>7. TypeOK'
  <2>1. tray' \in 0..MaxTrays /\ shown' \in 0..epoch' /\ wait' \in Seq(Asks) /\ lag' \in 0..MaxLag
    BY <1>2 DEF IInv, TypeOK
  <2>2. sock' \in 0..Len(conns')
    BY <1>2, <1>5, Facts
  <2>3. conns' \in Seq(Conn(epoch'))
    BY <1>2, <1>5
  <2> QED  BY <1>1, <1>6, <2>1, <2>2, <2>3, SameLists DEF TypeOK, Conn
<1>8. ConnInv'
  <2>1. ConnOK(d, epoch, alive)
    BY <1>1, <1>4, Facts DEF ConnOK
  <2> QED  BY <1>2, <1>5, <2>1, Facts DEF ConnInv
<1>9. SingleInv'
  <2>1. sock # 0 => sock \in DOMAIN conns /\ conns'[sock] = conns[sock]
    BY <1>5, Facts
  <2>2. Aside(d)
    BY <1>3, <1>4 DEF Aside
  <2>3. \A j \in Range(stack) : j \in DOMAIN conns
    BY DEF IInv, TypeOK
  <2> QED  BY <1>2, <1>5, <2>1, <2>2, <2>3 DEF IInv, SingleInv
<1>10. AnswersInOrder'
  <2>1. sock # 0 => sock \in DOMAIN conns /\ conns'[sock] = conns[sock]
    BY <1>5, Facts
  <2> QED  BY <1>2, <2>1 DEF IInv, AnswersInOrder
<1> QED  BY <1>1, <1>6, <1>7, <1>8, <1>9, <1>10, SameLists DEF IInv

LEMMA StartsStep ==
  ASSUME IInv, StartQIperfd
  PROVE  IInv'
<1>1. /\ ~alive /\ alive' = TRUE /\ epoch' = epoch + 1
      /\ UNCHANGED <<restarting, conns, m_locals, stack, client, lag>>
  BY DEF StartQIperfd
<1>2. /\ restarting' = restarting /\ conns' = conns /\ m_locals' = m_locals /\ stack' = stack
      /\ tray' = tray /\ sock' = sock /\ wait' = wait /\ shown' = shown /\ lag' = lag
  BY <1>1 DEF client
<1>3. epoch' \in 1..MaxEpochs /\ ~restarting
  <2>1. epoch # MaxEpochs /\ ~restarting
    BY <1>1 DEF IInv, DaemonInv
  <2> QED  BY <1>1, <2>1, Facts
<1>4. \A j \in DOMAIN conns : /\ ~conns[j].daemonEnd /\ conns[j].up = <<>> /\ conns[j].unreadD = <<>>
                              /\ conns[j] \in Conn(epoch')
  <2> TAKE j \in DOMAIN conns
  <2>1. conns[j] \in Conn(epoch) /\ ConnOK(conns[j], epoch, alive)
    BY Facts
  <2>2. 1..epoch \subseteq 1..epoch'
    BY <1>1, Facts
  <2>3. conns[j] \in Conn(epoch')
    BY <2>1, <2>2 DEF Conn
  <2> QED  BY <1>1, <2>1, <2>3 DEF ConnOK
<1>5. conns' \in Seq(Conn(epoch'))
  <2>1. conns = [j \in 1..Len(conns) |-> conns[j]] /\ Len(conns) \in Nat /\ DOMAIN conns = 1..Len(conns)
    BY Facts
  <2>2. conns \in [1..Len(conns) -> Conn(epoch')]
    BY <1>4, <2>1
  <2> QED  BY <1>2, <2>1, <2>2
<1>6. Range(m_locals) = {}
  <2>1. m_locals \in Seq(DOMAIN conns)
    BY DEF IInv, ListInv
  <2>2. \A j \in DOMAIN m_locals : m_locals[j] \in DOMAIN conns
    BY <2>1
  <2>3. \A j \in Range(m_locals) : conns[j].daemonEnd
    BY DEF IInv, TypeOK
  <2> QED  BY <1>4, <2>2, <2>3 DEF Range
<1>7. TypeOK'
  <2>1. /\ {alive', restarting'} \subseteq BOOLEAN /\ tray' \in 0..MaxTrays /\ sock' \in 0..Len(conns')
        /\ wait' \in Seq(Asks) /\ lag' \in 0..MaxLag
        /\ IsInjective(m_locals') /\ IsInjective(stack') /\ Range(stack') \subseteq DOMAIN conns'
    BY <1>1, <1>2 DEF IInv, TypeOK
  <2>2. shown' \in 0..epoch'
    <3>1. shown \in 0..epoch
      BY DEF IInv, TypeOK
    <3> QED  BY <1>1, <1>2, <3>1, Facts
  <2> QED  BY <1>2, <1>3, <1>5, <1>6, <2>1, <2>2 DEF TypeOK, Conn
<1>8. ListInv' /\ DaemonInv' /\ SingleInv'
  BY <1>1, <1>2, <1>3 DEF IInv, ListInv, DaemonInv, SingleInv
<1>9. ConnInv'
  BY <1>2, <1>4, EmptyFacts DEF ConnInv, ConnOK
<1>10. AnswersInOrder'
  <2>1. sock # 0 => ~conns[sock].daemonEnd
    BY <1>4, Facts
  <2> QED  BY <1>2, <2>1 DEF AnswersInOrder
<1> QED  BY <1>7, <1>8, <1>9, <1>10 DEF IInv

-----------------------------------------------------------------------------
(* Theorems *)

LEMMA Initially == Init => IInv
<1> SUFFICES ASSUME Init
             PROVE  IInv
  OBVIOUS
<1>1. /\ epoch = 1 /\ alive = TRUE /\ restarting = FALSE /\ conns = <<>> /\ m_locals = <<>>
      /\ stack = <<>> /\ tray = 0 /\ sock = 0 /\ wait = <<>> /\ shown = 0 /\ lag = 0
  BY DEF Init
<1>2. 1 \in 1..MaxEpochs /\ 0 \in 0..MaxTrays /\ 0 \in 0..MaxLag
  BY TrayPipeAssumption
<1>3. /\ Len(<<>>) = 0 /\ DOMAIN <<>> = {} /\ Range(<<>>) = {} /\ IsInjective(<<>>)
      /\ \A S : <<>> \in Seq(S)
  BY EmptyFacts DEF IsInjective
<1>4. TypeOK
  <2>1. conns \in Seq(Conn(epoch)) /\ wait \in Seq(Asks)
    BY <1>1, <1>3
  <2>2. epoch \in 1..MaxEpochs /\ tray \in 0..MaxTrays /\ lag \in 0..MaxLag
    BY <1>1, <1>2
  <2>4. {alive, restarting} \subseteq BOOLEAN
    BY <1>1
  <2>5. shown \in 0..epoch
    BY <1>1
  <2>3. sock \in 0..Len(conns)
    BY <1>1, <1>3
  <2>6. /\ \A i \in Range(m_locals) : conns[i].daemonEnd /\ conns[i].epoch = epoch
        /\ IsInjective(m_locals) /\ IsInjective(stack) /\ Range(stack) \subseteq DOMAIN conns
    BY <1>1, <1>3
  <2> QED  BY <2>1, <2>2, <2>3, <2>4, <2>5, <2>6 DEF TypeOK, Conn
<1>5. ListInv /\ ConnInv /\ DaemonInv /\ SingleInv /\ AnswersInOrder
  BY <1>1, <1>3 DEF ListInv, ConnInv, DaemonInv, SingleInv, AnswersInOrder
<1> QED  BY <1>4, <1>5 DEF IInv

LEMMA Stutters ==
  ASSUME IInv, UNCHANGED vars
  PROVE  IInv'
<1>1. /\ epoch' = epoch /\ alive' = alive /\ restarting' = restarting /\ conns' = conns
      /\ m_locals' = m_locals /\ stack' = stack /\ tray' = tray /\ sock' = sock
      /\ wait' = wait /\ shown' = shown /\ lag' = lag
  BY DEF vars
<1>2. TypeOK' /\ ListInv' /\ ConnInv'
  BY <1>1 DEF IInv, TypeOK, ListInv, ConnInv
<1>3. DaemonInv' /\ SingleInv' /\ AnswersInOrder'
  BY <1>1 DEF IInv, DaemonInv, SingleInv, AnswersInOrder
<1> QED  BY <1>2, <1>3 DEF IInv

LEMMA Inductive == IInv /\ [Next]_vars => IInv'
<1> SUFFICES ASSUME IInv, [Next]_vars
             PROVE  IInv'
  OBVIOUS
<1>1. CASE StartTray
  BY <1>1, StartsTray
<1>2. CASE OnTimeout \/ OnGetMgrIfname \/ RestartQiperfd
  BY <1>2, Asking
<1>3. CASE SocketReadReady
  BY <1>3, TrayReadsStep
<1>4. CASE SocketDisconnected
  BY <1>4, TrayDisconnected
<1>5. ASSUME NEW i \in DOMAIN conns,
             ReadyRead(i) \/ ArriveInside(i) \/ OnUnknownMessage(i) \/ OnDisconnected(i)
      PROVE  IInv'
  BY <1>5, ReadsStep, ArrivesStep, UnknownStep, DaemonDisconnected
<1>6. CASE Return
  BY <1>6, ReturnsStep
<1>7. CASE DoRestartQIperfd
  BY <1>7, RestartsStep
<1>8. CASE SecondInstance
  BY <1>8, SecondStep
<1>9. CASE StartQIperfd
  BY <1>9, StartsStep
<1>10. CASE UNCHANGED vars
  BY <1>10, Stutters
<1> QED  BY <1>1, <1>2, <1>3, <1>4, <1>5, <1>6, <1>7, <1>8, <1>9, <1>10 DEF Next

LEMMA Always == Spec => []IInv
BY Initially, Inductive, PTL DEF Spec

(* However often daemon and tray are restarted, the daemon has registered  *)
(* only connections of its own that are open, each once, and no readyRead  *)
(* is on the stack twice for one connection (PipeServer::readyRead,        *)
(* onDisconnected).                                                        *)
THEOREM TypeCorrect == Spec => []TypeOK
<1>1. IInv => TypeOK
  BY DEF IInv
<1> QED  BY <1>1, Always, PTL

(* With a single tray what it asked is answered in order, once, whatever   *)
(* falls behind and nests: what it waits for is on its way (readyRead,     *)
(* onPipeMessage, socket_readReady).                                       *)
THEOREM AnswersKeepOrder == Spec => []AnswersInOrder
<1>1. IInv => AnswersInOrder
  BY DEF IInv
<1> QED  BY <1>1, Always, PTL
=============================================================================
