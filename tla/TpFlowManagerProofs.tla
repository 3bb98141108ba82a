------------------------- MODULE TpFlowManagerProofs -------------------------
(***************************************************************************)
(* Proofs about TpFlowManager, for every set of pairs, every number of     *)
(* requests and whatever a read of the freed map gives.                    *)
(***************************************************************************)
EXTENDS TpFlowManager, WellFoundedInduction, TLAPS

Signals == {"StatusReady", "WaitTimeout"}

TypeInv ==
  /\ alive \in BOOLEAN /\ error \in BOOLEAN /\ timer \in BOOLEAN
  /\ status \in [Pairs -> Status]
  /\ requests \in [Pairs -> Nat] /\ emitted \in [Pairs -> Nat]
  /\ restarts \in [Pairs -> Nat] /\ accepted \in [Pairs -> Nat]
  /\ reports \in [Pairs -> Seq(Status)]
  /\ watch \in [Pairs -> {"no", "waiting", "late"}]
  /\ scan \in [at : Pairs \cup {0}, marked : SUBSET Pairs]
  /\ answers \in [Pairs -> Seq(Signals)]

\* What was sent is on its way, or was handled, and then accepted at most once.
Counted ==
  \A p \in Pairs : /\ emitted[p] <= MaxRequests
                   /\ requests[p] + accepted[p] <= emitted[p]
                   /\ requests[p] + restarts[p] <= emitted[p]

\* The keys that were answered are watched and behind the iterator.
ScanInv ==
  /\ scan.marked \subseteq Watched
  /\ scan.at # 0 => scan.at \in Watched /\ \A p \in scan.marked : p < scan.at
  /\ scan.at = 0 => scan.marked = {}

IInv == TypeInv /\ Counted /\ ScanInv /\ WatchedIsPolled /\ AnsweredOnce

-----------------------------------------------------------------------------
Less == {pair \in Nat \X Nat : pair[1] < pair[2]}

\* A set of numbers that is not empty has a least member, and Lowest gives it.
LEMMA LowestIsLeast ==
  ASSUME NEW S \in SUBSET Nat, S # {}
  PROVE  Lowest(S) \in S /\ \A q \in S : Lowest(S) <= q
<1>1. IsWellFoundedOn(Less, Nat)
  BY Zenon, NatLessThanWellFounded DEF OpToRel, Less
<1>2. PICK x \in S : \A y \in S : ~ (<<y, x>> \in Less)
  BY <1>1, WFMin, Zenon
<1>3. \A x1, y1 \in Nat : <<y1, x1>> \in Less <=> y1 < x1
  BY DEF Less
<1>4. \A y \in S : ~ (y < x) /\ y \in Nat /\ x \in Nat
  BY <1>2, <1>3
<1>5. \A y \in S : x <= y
  BY <1>4
<1> QED  BY <1>5 DEF Lowest

\* Appending makes a sequence one longer.
LEMMA AppendLength ==
  ASSUME NEW S, NEW s \in Seq(S), NEW e \in S
  PROVE  Append(s, e) \in Seq(S) /\ Len(Append(s, e)) = Len(s) + 1
OBVIOUS

\* The least watched key beyond k is one, or there is none and the loop ends.
LEMMA NextKeyFacts ==
  ASSUME TpFlowManagerAssumption, TypeInv, NEW k \in Nat, NEW marked \in SUBSET Watched,
         \A p \in marked : p <= k, NextKey(k, marked)
  PROVE  \/ /\ scan' \in [at : Watched, marked : SUBSET Watched]
            /\ scan'.at > k /\ scan'.marked = marked
            /\ UNCHANGED <<watch, timer>>
         \/ EndOfLoop(marked)
<1> DEFINE rest == {p \in Watched : p > k}
<1>1. rest \in SUBSET Nat /\ rest \subseteq Watched
  BY DEF TpFlowManagerAssumption, Watched
<1>2. CASE rest = {}
  BY <1>2 DEF NextKey
<1>3. CASE rest # {}
  <2>1. Lowest(rest) \in rest
    BY <1>1, <1>3, LowestIsLeast
  <2>2. scan' = [at |-> Lowest(rest), marked |-> marked] /\ UNCHANGED <<watch, timer>>
    BY <1>3 DEF NextKey
  <2> QED  BY <2>1, <2>2
<1> QED  BY <1>2, <1>3

\* The loop goes on or ends after the keys of marked were answered.
LEMMA NextKeyKeeps ==
  ASSUME TpFlowManagerAssumption, TypeInv, NEW k \in Nat, NEW marked \in SUBSET Watched,
         \A p \in marked : p <= k, NextKey(k, marked)
  PROVE  /\ watch' \in [Pairs -> {"no", "waiting", "late"}] /\ timer' \in BOOLEAN
         /\ scan' \in [at : Pairs \cup {0}, marked : SUBSET Pairs]
         /\ ScanInv' /\ (WatchedIsPolled => WatchedIsPolled')
         /\ Watched' \ scan'.marked = Watched \ marked
<1>1. Watched \subseteq Pairs /\ Pairs \subseteq Nat \ {0}
  BY DEF Watched, TpFlowManagerAssumption
<1>2. CASE /\ scan' \in [at : Watched, marked : SUBSET Watched]
           /\ scan'.at > k /\ scan'.marked = marked
           /\ UNCHANGED <<watch, timer>>
  <2>1. Watched' = Watched
    BY <1>2 DEF Watched
  <2>2. scan'.at \in Watched /\ scan'.at # 0
    BY <1>1, <1>2
  <2>3. \A p \in marked : p < scan'.at
    <3>1. \A p \in marked : p \in Nat /\ p <= k
      BY <1>1
    <3>2. scan'.at \in Nat /\ k < scan'.at
      BY <1>1, <1>2, <2>2
    <3> QED  BY <3>1, <3>2
  <2>4. ScanInv'
    BY <1>2, <2>1, <2>2, <2>3 DEF ScanInv
  <2> QED  BY <1>1, <1>2, <2>1, <2>4 DEF TypeInv, WatchedIsPolled
<1>3. CASE EndOfLoop(marked)
  <2>1. /\ watch' = [p \in Pairs |-> IF p \in marked THEN "no" ELSE watch[p]]
        /\ timer' = ~(Watched \subseteq marked)
        /\ scan' = [at |-> 0, marked |-> {}]
    BY <1>3 DEF EndOfLoop, StopsTimer
  <2>2. Watched' = Watched \ marked
    BY <2>1 DEF Watched
  <2>3. ScanInv'
    BY <2>1, <2>2 DEF ScanInv
  <2> QED  BY <2>1, <2>2, <2>3 DEF TypeInv, WatchedIsPolled
<1> QED  BY <1>2, <1>3, NextKeyFacts

-----------------------------------------------------------------------------
LEMMA InitIInv == TpFlowManagerAssumption /\ Init => IInv
<1> SUFFICES ASSUME TpFlowManagerAssumption, Init PROVE IInv
  OBVIOUS
<1> USE DEF Init
<1>1. Watched = {}
  BY DEF Watched
<1>2. TypeInv
  <2>1. /\ status \in [Pairs -> Status] /\ requests \in [Pairs -> Nat]
        /\ reports \in [Pairs -> Seq(Status)] /\ answers \in [Pairs -> Seq(Signals)]
    BY DEF Status
  <2>2. /\ watch \in [Pairs -> {"no", "waiting", "late"}]
        /\ scan \in [at : Pairs \cup {0}, marked : SUBSET Pairs]
    OBVIOUS
  <2> QED  BY <2>1, <2>2 DEF TypeInv
<1>3. Counted
  BY DEF Counted, TpFlowManagerAssumption
<1>4. ScanInv /\ WatchedIsPolled
  BY <1>1 DEF ScanInv, WatchedIsPolled
<1>5. AnsweredOnce
  BY <1>1 DEF AnsweredOnce
<1> QED  BY <1>2, <1>3, <1>4, <1>5 DEF IInv

\* The steps of the daemons and the reports leave the flow manager alone.
LEMMA PairStep ==
  ASSUME TpFlowManagerAssumption, IInv, NEW p \in Pairs,
         ClientEnds(p) \/ ServerRestarts(p) \/ OnReport(p) \/ InitStart
  PROVE  IInv'
<1> USE DEF IInv
<1>1. UNCHANGED flowVars
  BY DEF ClientEnds, ServerRestarts, OnReport, InitStart
<1>2. ScanInv' /\ WatchedIsPolled' /\ AnsweredOnce' /\ Watched' = Watched
  BY <1>1 DEF flowVars, ScanInv, WatchedIsPolled, AnsweredOnce, Watched
<1>3. CASE ClientEnds(p)
  <2>1. TypeInv'
    <3>1. requests[p] + 1 \in Nat /\ emitted[p] + 1 \in Nat
      BY DEF TypeInv
    <3>2. requests' \in [Pairs -> Nat] /\ emitted' \in [Pairs -> Nat]
      BY <1>3, <3>1 DEF ClientEnds, TypeInv
    <3> QED  BY <1>3, <3>2 DEF ClientEnds, TypeInv, flowVars
  <2>2. Counted'
    BY <1>3 DEF ClientEnds, TypeInv, Counted, flowVars, TpFlowManagerAssumption
  <2> QED  BY <1>2, <2>1, <2>2
<1>4. CASE ServerRestarts(p)
  <2>1. PICK sent \in {<<"restarted", "started">>, <<>>} :
          reports' = [reports EXCEPT ![p] = @ \o sent]
    BY <1>4 DEF ServerRestarts
  <2>2. sent \in Seq(Status)
    <3>1. CASE sent = <<>>
      BY <3>1
    <3>2. CASE sent = <<"restarted", "started">>
      <4>1. "restarted" \in Status /\ "started" \in Status
        BY DEF Status
      <4> QED  BY <3>2, <4>1
    <3> QED  BY <2>1, <3>1, <3>2
  <2>3. reports' \in [Pairs -> Seq(Status)]
    BY <2>1, <2>2 DEF TypeInv
  <2>4. TypeInv'
    <3>1. restarts[p] - 1 \in Nat
      BY <1>4 DEF ServerRestarts, TypeInv
    <3>2. restarts' \in [Pairs -> Nat]
      BY <1>4, <3>1 DEF ServerRestarts, TypeInv
    <3> QED  BY <1>4, <2>3, <3>2 DEF ServerRestarts, TypeInv, flowVars
  <2>5. Counted'
    BY <1>4, SMTT(30) DEF ServerRestarts, TypeInv, Counted, flowVars, TpFlowManagerAssumption
  <2> QED  BY <1>2, <2>4, <2>5
<1>5. CASE OnReport(p)
  <2>1. Head(reports[p]) \in Status /\ Tail(reports[p]) \in Seq(Status)
    BY <1>5 DEF OnReport, TypeInv
  <2>2. TypeInv'
    BY <1>5, <2>1 DEF OnReport, TypeInv, flowVars
  <2>3. Counted'
    BY <1>5 DEF OnReport, Counted, flowVars
  <2> QED  BY <1>2, <2>2, <2>3
<1>6. CASE InitStart
  <2>1. TypeInv'
    BY <1>6 DEF InitStart, TypeInv, flowVars, Status
  <2>2. Counted'
    BY <1>6 DEF InitStart, Counted, flowVars
  <2> QED  BY <1>2, <2>1, <2>2
<1> QED  BY <1>3, <1>4, <1>5, <1>6

\* A request is accepted for a key that is not watched, and starts the timer.
LEMMA RequestStep ==
  ASSUME TpFlowManagerAssumption, IInv, NEW p \in Pairs, OnIperfExtendWait(p)
  PROVE  IInv'
<1> USE DEF IInv
<1>1. /\ alive' = alive /\ status' = status /\ emitted' = emitted /\ reports' = reports
      /\ scan' = scan /\ answers' = answers
      /\ requests[p] > 0 /\ requests' = [requests EXCEPT ![p] = @ - 1]
      /\ error' \in BOOLEAN
  BY DEF OnIperfExtendWait, TypeInv
<1>a. requests' \in [Pairs -> Nat]
  <2>1. requests[p] - 1 \in Nat
    BY <1>1 DEF TypeInv
  <2> QED  BY <1>1, <2>1 DEF TypeInv
<1>2. CASE /\ restarts' = restarts /\ watch' = watch /\ timer' = timer /\ accepted' = accepted
  <2>1. TypeInv'
    BY <1>1, <1>a, <1>2 DEF TypeInv
  <2>3. Counted'
    BY <1>1, <1>a, <1>2 DEF TypeInv, Counted
  <2>2. ScanInv' /\ WatchedIsPolled' /\ AnsweredOnce'
    BY <1>1, <1>2 DEF ScanInv, WatchedIsPolled, AnsweredOnce, Watched
  <2> QED  BY <2>1, <2>2, <2>3
<1>3. CASE /\ \E sent \in {0, 1} : restarts' = [restarts EXCEPT ![p] = @ + sent]
           /\ StartMonitoring(p)
  <2>1. PICK sent \in {0, 1} : restarts' = [restarts EXCEPT ![p] = @ + sent]
    BY <1>3
  <2>a. restarts' \in [Pairs -> Nat]
    <3>1. restarts[p] + sent \in Nat
      BY DEF TypeInv
    <3> QED  BY <2>1, <3>1 DEF TypeInv
  <2>2. CASE p \in Watched
    <3>1. watch' = watch /\ timer' = timer /\ accepted' = accepted
      BY <1>3, <2>2 DEF StartMonitoring
    <3>2. TypeInv'
      BY <1>1, <1>a, <2>a, <3>1 DEF TypeInv
    <3>4. Counted'
      BY <1>1, <2>1, <3>1, SMTT(30) DEF TypeInv, Counted
    <3>3. ScanInv' /\ WatchedIsPolled' /\ AnsweredOnce'
      BY <1>1, <3>1 DEF ScanInv, WatchedIsPolled, AnsweredOnce, Watched
    <3> QED  BY <3>2, <3>3, <3>4
  <2>3. CASE p \notin Watched
    <3>1. /\ watch' = [watch EXCEPT ![p] = "waiting"]
          /\ accepted' = [accepted EXCEPT ![p] = @ + 1]
          /\ timer' = TRUE
      BY <1>3, <2>3 DEF StartMonitoring
    <3>2. TypeInv'
      <4>1. accepted[p] + 1 \in Nat
        BY DEF TypeInv
      <4>2. accepted' \in [Pairs -> Nat] /\ watch' \in [Pairs -> {"no", "waiting", "late"}]
        BY <3>1, <4>1 DEF TypeInv
      <4>3. timer' \in BOOLEAN
        BY <3>1
      <4> QED  BY <1>1, <1>a, <2>a, <4>2, <4>3 DEF TypeInv
    <3>3. Counted'
      BY <1>1, <2>1, <3>1, SMTT(30) DEF TypeInv, Counted
    <3>4. Watched' = Watched \cup {p}
      BY <3>1 DEF Watched, TypeInv
    <3>5. p \notin scan.marked
      BY <2>3 DEF ScanInv
    <3>6. ScanInv' /\ WatchedIsPolled'
      BY <1>1, <3>1, <3>4 DEF ScanInv, WatchedIsPolled
    <3>7. AnsweredOnce'
      <4> SUFFICES ASSUME NEW q \in Pairs
                   PROVE  accepted'[q] = Len(answers[q]) +
                            (IF q \in Watched' \ scan.marked THEN 1 ELSE 0)
        BY <1>1 DEF AnsweredOnce
      <4>1. accepted[q] = Len(answers[q]) + (IF q \in Watched \ scan.marked THEN 1 ELSE 0)
        BY DEF AnsweredOnce
      <4>2. Len(answers[q]) \in Nat /\ accepted[q] \in Nat
        BY DEF TypeInv
      <4>3. CASE q = p
        BY <2>3, <3>1, <3>4, <3>5, <4>1, <4>2, <4>3 DEF TypeInv
      <4>4. CASE q # p
        BY <3>1, <3>4, <4>1, <4>4 DEF TypeInv
      <4> QED  BY <4>3, <4>4
    <3> QED  BY <3>2, <3>3, <3>6, <3>7
  <2> QED  BY <2>2, <2>3
<1> QED  BY <1>2, <1>3 DEF OnIperfExtendWait

\* A watched key may get late.
LEMMA TimeStep ==
  ASSUME TpFlowManagerAssumption, IInv, NEW p \in Pairs, TimePasses(p)
  PROVE  IInv'
<1> USE DEF IInv
<1>1. /\ watch' = [watch EXCEPT ![p] = "late"] /\ watch[p] = "waiting"
      /\ UNCHANGED <<alive, pairVars, timer, scan, accepted, answers, told>>
  BY DEF TimePasses
<1>2. Watched' = Watched
  BY <1>1 DEF Watched, TypeInv
<1>3. TypeInv' /\ Counted'
  BY <1>1 DEF TypeInv, Counted, pairVars
<1>4. ScanInv' /\ WatchedIsPolled' /\ AnsweredOnce'
  BY <1>1, <1>2 DEF ScanInv, WatchedIsPolled, AnsweredOnce
<1> QED  BY <1>3, <1>4

\* The loop begins at the least key with nothing answered.
LEMMA CheckStep ==
  ASSUME TpFlowManagerAssumption, IInv, CheckStatusAndTimeout
  PROVE  IInv'
<1> USE DEF IInv
<1>1. /\ scan.at = 0 /\ NextKey(0, {})
      /\ UNCHANGED <<alive, pairVars, accepted, answers, told>>
  BY DEF CheckStatusAndTimeout
<1>2. /\ watch' \in [Pairs -> {"no", "waiting", "late"}] /\ timer' \in BOOLEAN
      /\ scan' \in [at : Pairs \cup {0}, marked : SUBSET Pairs]
      /\ ScanInv' /\ WatchedIsPolled'
      /\ Watched' \ scan'.marked = Watched
  <2> HIDE DEF IInv
  <2>1. TypeInv /\ WatchedIsPolled
    BY DEF IInv
  <2> QED  BY <1>1, <2>1, NextKeyKeeps
<1>3. TypeInv' /\ Counted'
  BY <1>1, <1>2 DEF TypeInv, Counted, pairVars
<1>4. scan.marked = {}
  BY <1>1 DEF ScanInv
<1>5. AnsweredOnce'
  BY <1>1, <1>2, <1>4 DEF AnsweredOnce
<1> QED  BY <1>2, <1>3, <1>5

\* One turn of the loop answers its key at most once, or ends the console.
LEMMA VisitStep ==
  ASSUME TpFlowManagerAssumption, IInv, Visit
  PROVE  IInv'
<1> DEFINE k == scan.at
<1>1. /\ TypeInv /\ Counted /\ ScanInv /\ WatchedIsPolled /\ AnsweredOnce
      /\ k # 0 /\ UNCHANGED pairVars
  BY DEF IInv, Visit
<1>2. /\ k \in Watched /\ k \in Pairs /\ k \in Nat
      /\ scan.marked \subseteq Watched /\ k \notin scan.marked
      /\ \A p \in scan.marked : p <= k /\ p \in Nat
  <2>1. k \in Watched /\ scan.marked \subseteq Watched /\ \A p \in scan.marked : p < k
    BY <1>1 DEF ScanInv
  <2>2. \A p \in Watched : p \in Pairs /\ p \in Nat
    BY DEF Watched, TpFlowManagerAssumption
  <2>3. \A p \in scan.marked : p \in Nat /\ p < k /\ k \in Nat
    BY <2>1, <2>2
  <2>4. \A p \in scan.marked : p <= k /\ p # k
    BY <2>3
  <2> HIDE DEF k
  <2> QED  BY <2>1, <2>2, <2>3, <2>4
<1>3. CASE alive' = FALSE /\ UNCHANGED flowVars
  <2>1. TypeInv' /\ Counted'
    BY <1>1, <1>3 DEF TypeInv, Counted, pairVars, flowVars
  <2>2. ScanInv' /\ WatchedIsPolled' /\ AnsweredOnce'
    BY <1>1, <1>3 DEF ScanInv, WatchedIsPolled, AnsweredOnce, Watched, flowVars
  <2> QED  BY <2>1, <2>2 DEF IInv
<1>4. ASSUME NEW signal \in Signals, Answer(k, signal),
             NextKey(k, scan.marked \cup {k}), UNCHANGED <<alive, accepted>>
      PROVE  IInv'
  <2>1. /\ watch' \in [Pairs -> {"no", "waiting", "late"}] /\ timer' \in BOOLEAN
        /\ scan' \in [at : Pairs \cup {0}, marked : SUBSET Pairs]
        /\ ScanInv' /\ WatchedIsPolled'
        /\ Watched' \ scan'.marked = Watched \ (scan.marked \cup {k})
    BY <1>1, <1>2, <1>4, NextKeyKeeps
  <2>2. /\ answers' = [answers EXCEPT ![k] = Append(@, signal)]
        /\ answers[k] \in Seq(Signals)
    BY <1>1, <1>2, <1>4 DEF Answer, TypeInv
  <2>3. Append(answers[k], signal) \in Seq(Signals) /\ Len(Append(answers[k], signal)) = Len(answers[k]) + 1
    BY <2>2, AppendLength
  <2>4. TypeInv' /\ Counted'
    BY <1>1, <1>4, <2>1, <2>2, <2>3 DEF TypeInv, Counted, pairVars
  <2>5. AnsweredOnce'
    <3> SUFFICES ASSUME NEW q \in Pairs
                 PROVE  accepted[q] = Len(answers'[q]) +
                          (IF q \in Watched \ (scan.marked \cup {k}) THEN 1 ELSE 0)
      BY <1>4, <2>1 DEF AnsweredOnce
    <3>1. accepted[q] = Len(answers[q]) + (IF q \in Watched \ scan.marked THEN 1 ELSE 0)
      BY <1>1 DEF AnsweredOnce
    <3>2. Len(answers[q]) \in Nat
      BY <1>1 DEF TypeInv
    <3>3. CASE q = k
      <4>1. Len(answers'[q]) = Len(answers[q]) + 1
        BY <1>1, <1>2, <2>2, <2>3, <3>3 DEF TypeInv
      <4>2. q \in Watched \ scan.marked /\ q \notin Watched \ (scan.marked \cup {k})
        BY <1>2, <3>3
      <4>3. accepted[q] = Len(answers[q]) + 1
        BY <3>1, <4>2
      <4>4. Len(answers'[q]) \in Nat /\ accepted[q] = Len(answers'[q])
        BY <3>2, <4>1, <4>3
      <4> DEFINE rest == IF q \in Watched \ (scan.marked \cup {k}) THEN 1 ELSE 0
      <4>5. rest = 0
        BY <4>2
      <4> HIDE DEF rest
      <4>6. accepted[q] = Len(answers'[q]) + rest
        BY <4>4, <4>5
      <4> QED  BY <4>6 DEF rest
    <3>4. CASE q # k
      <4>1. answers'[q] = answers[q]
        BY <1>1, <2>2, <3>4 DEF TypeInv
      <4> QED  BY <3>1, <3>4, <4>1
    <3> QED  BY <3>3, <3>4
  <2> QED  BY <2>1, <2>4, <2>5 DEF IInv
<1>5. ASSUME NextKey(k, scan.marked), UNCHANGED <<alive, accepted, answers>>
      PROVE  IInv'
  <2>1. /\ watch' \in [Pairs -> {"no", "waiting", "late"}] /\ timer' \in BOOLEAN
        /\ scan' \in [at : Pairs \cup {0}, marked : SUBSET Pairs]
        /\ ScanInv' /\ WatchedIsPolled'
        /\ Watched' \ scan'.marked = Watched \ scan.marked
    BY <1>1, <1>2, <1>5, NextKeyKeeps
  <2>2. TypeInv' /\ Counted'
    BY <1>1, <1>5, <2>1 DEF TypeInv, Counted, pairVars
  <2>3. AnsweredOnce'
    BY <1>1, <1>5, <2>1 DEF AnsweredOnce
  <2> QED  BY <2>1, <2>2, <2>3 DEF IInv
<1> QED  BY <1>3, <1>4, <1>5 DEF Visit, Signals

\* Every step, and a stutter, keeps the inductive invariant.
LEMMA NextIInv == TpFlowManagerAssumption /\ IInv /\ [Next]_vars => IInv'
<1> SUFFICES ASSUME TpFlowManagerAssumption, IInv, [Next]_vars PROVE IInv'
  OBVIOUS
<1>1. CASE \E p \in Pairs : ClientEnds(p) \/ ServerRestarts(p) \/ OnReport(p)
  BY <1>1, PairStep
<1>2. CASE InitStart
  <2>1. PICK p \in Pairs : status[p] # "init"
    BY <1>2 DEF InitStart
  <2> QED  BY <1>2, PairStep
<1>3. CASE \E p \in Pairs : OnIperfExtendWait(p)
  BY <1>3, RequestStep
<1>4. CASE \E p \in Pairs : TimePasses(p)
  BY <1>4, TimeStep
<1>5. CASE CheckStatusAndTimeout \/ Visit
  BY <1>5, CheckStep, VisitStep
<1>6. CASE UNCHANGED vars
  BY <1>6 DEF vars, IInv, TypeInv, Counted, ScanInv, WatchedIsPolled, AnsweredOnce, Watched
<1> QED  BY <1>1, <1>2, <1>3, <1>4, <1>5, <1>6 DEF Next

\* The counters stay within the number of requests.
LEMMA IInvTypeOK == TpFlowManagerAssumption /\ IInv => TypeOK
<1> SUFFICES ASSUME TpFlowManagerAssumption, IInv PROVE TypeOK
  OBVIOUS
<1>1. TypeInv /\ Counted /\ ScanInv
  BY DEF IInv
<1>2. \A p \in Pairs : /\ requests[p] \in 0..MaxRequests /\ emitted[p] \in 0..MaxRequests
                       /\ accepted[p] \in 0..MaxRequests /\ restarts[p] \in 0..MaxRequests
  BY <1>1 DEF TypeInv, Counted, TpFlowManagerAssumption
<1> QED  BY <1>1, <1>2 DEF TypeInv, ScanInv, TypeOK

LEMMA Inductive == Spec => []IInv
<1>1. Init => IInv
  BY InitIInv, TpFlowManagerAssumption
<1>2. IInv /\ [Next]_vars => IInv'
  BY NextIInv, TpFlowManagerAssumption
<1> QED  BY <1>1, <1>2, PTL DEF Spec

-----------------------------------------------------------------------------
\* Every reachable state is well typed, and the iterator of
\* checkStatusAndTimeout is always at a key that is still watched.
THEOREM TypeCorrect == Spec => []TypeOK
BY Inductive, IInvTypeOK, TpFlowManagerAssumption, PTL

\* A watched key is never left without the polling timer, for every set of pairs
\* and every moment at which requests come in (checkStatusAndTimeout).
THEOREM WatchedPolled == Spec => []WatchedIsPolled
<1>1. IInv => WatchedIsPolled
  BY DEF IInv
<1> QED  BY <1>1, Inductive, PTL

\* Each accepted wait gets exactly one of StatusReady and WaitTimeout, whatever
\* the freed map seems to hold (startMonitoringKey, checkStatusAndTimeout).
THEOREM OneAnswerPerWait == Spec => []AnsweredOnce
<1>1. IInv => AnsweredOnce
  BY DEF IInv
<1> QED  BY <1>1, Inductive, PTL
=============================================================================
