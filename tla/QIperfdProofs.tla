---------------------------- MODULE QIperfdProofs ----------------------------
(***************************************************************************)
(* Proofs about QIperfd, for every number of workers, every list of pairs  *)
(* and every setting of the restart rules and time-outs.                   *)
(***************************************************************************)
EXTENDS QIperfd, FiniteSetTheorems, SequenceTheorems, TLAPS

-----------------------------------------------------------------------------
(* The maps of module QMap.                                                *)
\* What a map holds after remove(k).
LEMMA MapRemoveFacts ==
  ASSUME NEW map, NEW k
  PROVE  /\ DOMAIN MapRemove(map, k) = DOMAIN map \ {k}
         /\ \A j \in DOMAIN map \ {k} : MapRemove(map, k)[j] = map[j]
BY DEF MapRemove

\* QMap() is empty.
LEMMA EmptyMapFacts == DOMAIN EmptyMap = {} /\ \A K, V : IsMap(EmptyMap, K, V)
BY FS_EmptySet DEF EmptyMap, IsMap

\* insert() and remove() keep the types of a map's keys and values.
LEMMA MapTypes ==
  ASSUME NEW K, NEW V, NEW map, IsMap(map, K, V), NEW k \in K
  PROVE  /\ \A v \in V : IsMap(MapInsert(map, k, v), K, V)
         /\ IsMap(MapRemove(map, k), K, V)
<1>1. IsFiniteSet(DOMAIN map \cup {k}) /\ IsFiniteSet(DOMAIN map \ {k})
  BY FS_AddElement, FS_RemoveElement DEF IsMap
<1>2. ASSUME NEW v \in V
      PROVE  IsMap(MapInsert(map, k, v), K, V)
  <2> DEFINE new == MapInsert(map, k, v)
  <2>1. /\ DOMAIN new = DOMAIN map \cup {k}
        /\ new[k] = v
        /\ \A j \in DOMAIN map : j # k => new[j] = map[j]
    BY SMT DEF MapInsert
  <2> HIDE DEF new
  <2>2. DOMAIN new \subseteq K /\ \A j \in DOMAIN new : new[j] \in V
    BY <2>1 DEF IsMap
  <2>3. IsFiniteSet(DOMAIN new)
    BY <1>1, <2>1
  <2> QED  BY <2>2, <2>3 DEF IsMap, new
<1>3. IsMap(MapRemove(map, k), K, V)
  <2> DEFINE new == MapRemove(map, k)
  <2>1. /\ DOMAIN new = DOMAIN map \ {k}
        /\ \A j \in DOMAIN map \ {k} : new[j] = map[j]
    BY MapRemoveFacts
  <2> HIDE DEF new
  <2>2. DOMAIN new \subseteq K /\ \A j \in DOMAIN new : new[j] \in V
    BY <2>1 DEF IsMap
  <2>3. IsFiniteSet(DOMAIN new)
    BY <1>1, <2>1
  <2> QED  BY <2>2, <2>3 DEF IsMap, new
<1> QED  BY <1>2, <1>3

-----------------------------------------------------------------------------
(* Types.                                                                  *)
\* The signals and posted events that the helpers compute have their types.
LEMMA HelperTypes ==
  ASSUME WorkerTypeOK, NEW n \in Worker
  PROVE  /\ \A s \in Signal : Ev(s, n) \in [sig : Signal, from : Worker]
         /\ \A ok \in BOOLEAN : FinishSignals(n, ok) \in Seq([sig : Signal, from : Worker])
         /\ \A ok \in BOOLEAN : FinishTimers(n, ok) \in SUBSET Timer
         /\ \A box \in Seq(Post) : PostTo(box, n, "delete") \in Seq(Post)
<1>1. \A s \in Signal : Ev(s, n) \in [sig : Signal, from : Worker]
  BY DEF Ev
<1>2. ASSUME NEW ok \in BOOLEAN
      PROVE  FinishSignals(n, ok) \in Seq([sig : Signal, from : Worker])
  <2>1. /\ Ev("finished", n) \in [sig : Signal, from : Worker]
        /\ Ev("extend", n) \in [sig : Signal, from : Worker]
    BY <1>1 DEF Signal
  <2>2. /\ <<Ev("finished", n)>> \in Seq([sig : Signal, from : Worker])
        /\ <<Ev("extend", n)>> \in Seq([sig : Signal, from : Worker])
        /\ <<>> \in Seq([sig : Signal, from : Worker])
    BY <2>1
  <2> HIDE DEF Ev
  <2> QED  BY <2>2, Zenon DEF FinishSignals
<1>3. \A ok \in BOOLEAN : FinishTimers(n, ok) \in SUBSET Timer
  BY DEF FinishTimers, WorkerTypeOK
<1>4. \A box \in Seq(Post) : PostTo(box, n, "delete") \in Seq(Post)
  BY DEF PostTo, Post
<1> QED  BY <1>1, <1>2, <1>3, <1>4

\* setStop() keeps the worker well typed.
LEMMA SetStopType ==
  ASSUME WorkerTypeOK, NEW n \in Worker,
         NEW box \in Seq(Post), NEW armed \in SUBSET Timer,
         SetStop(n, box, armed)
  PROVE  WorkerTypeOK'
<1> DEFINE E == [sig : Signal, from : Worker]
<1>1. /\ Ev("workerFinished", n) \in E
      /\ \A ok \in BOOLEAN : FinishSignals(n, ok) \in Seq(E)
      /\ PostTo(box, n, "delete") \in Seq(Post)
  BY HelperTypes DEF Signal
<1>2. events' \in Seq(E)
  <2>1. events \in Seq(E)
    BY DEF WorkerTypeOK
  <2>2. \A ok \in BOOLEAN :
          events \o FinishSignals(n, ok) \o <<Ev("workerFinished", n)>> \in Seq(E)
    <3>1. <<Ev("workerFinished", n)>> \in Seq(E)
      BY <1>1
    <3> QED  BY <1>1, <2>1, <3>1, ConcatProperties, Zenon
  <2>3. Append(events, Ev("workerFinished", n)) \in Seq(E)
    BY <1>1, <2>1
  <2> QED  BY <2>2, <2>3 DEF SetStop
<1>3. inbox' \in [Worker -> Seq(Post)]
  BY <1>1 DEF WorkerTypeOK, SetStop
<1>4. timers' \in [Worker -> SUBSET Timer]
  <2>1. \E set \in SUBSET Timer : timers' = [timers EXCEPT ![n] = set]
    <3>1. \A ok \in BOOLEAN : armed \cap FinishTimers(n, ok) \in SUBSET Timer
      OBVIOUS
    <3> QED  BY <3>1, Zenon DEF SetStop
  <2> QED  BY <2>1 DEF WorkerTypeOK
<1>5. proc' \in [Worker -> {"none", "made", "up", "down"}]
  BY DEF WorkerTypeOK, SetStop
<1>6. mstop' \in [Worker -> BOOLEAN]
  BY DEF WorkerTypeOK, SetStop, StopFlag
<1>7. UNCHANGED <<home, wpc, quit, orphan, again, obj>>
  BY DEF SetStop
<1> QED  BY <1>2, <1>3, <1>4, <1>5, <1>6, <1>7 DEF WorkerTypeOK

\* Every step of a worker's thread keeps the worker well typed.
LEMMA WorkerStepType ==
  ASSUME WorkerAssumption, WorkerTypeOK, NEW n \in Worker, WorkerStep(n)
  PROVE  WorkerTypeOK'
<1> DEFINE E == [sig : Signal, from : Worker]
<1> USE DEF WorkerTypeOK
<1>0. /\ \A s \in Signal : Ev(s, n) \in E
      /\ \A ok \in BOOLEAN : FinishSignals(n, ok) \in Seq(E)
      /\ \A ok \in BOOLEAN : FinishTimers(n, ok) \in SUBSET Timer
  BY HelperTypes
<1>1. CASE Launch(n)
  <2>1. Ev(IF again[n] THEN "restarted" ELSE "started", n) \in E
    BY <1>0 DEF Signal
  <2> QED  BY <1>1, <2>1 DEF Launch, Place, Timer
<1>2. CASE LaunchFails(n)
  BY <1>2 DEF LaunchFails, Place
<1>3. CASE LaunchFreed(n)
  BY <1>3 DEF LaunchFreed, Place
<1>4. CASE EnterLoop(n)
  <2>1. Ev("started", n) \in E
    BY <1>0 DEF Signal
  <2> QED  BY <1>4, <2>1, SMTT(30) DEF EnterLoop, TimersInLoop, Place
<1>5. CASE LeaveLoop(n)
  BY <1>5 DEF LeaveLoop, Place
<1>6. CASE RunSetStop(n)
  <2>1. Tail(inbox[n]) \in Seq(Post)
    BY <1>6 DEF RunSetStop
  <2> QED  BY <1>6, <2>1, SetStopType DEF RunSetStop
<1>7. CASE RunSetReStart(n)
  BY <1>7, SMTT(30) DEF RunSetReStart, Timer
<1>8. CASE RunDelete(n)
  <2>1. obj' \in [Worker -> {"alive", "deleted"}]
    BY <1>8 DEF RunDelete
  <2>2. inbox' \in [Worker -> Seq(Post)]
    <3>1. inbox' = [inbox EXCEPT ![n] = <<>>] /\ <<>> \in Seq(Post)
      BY <1>8 DEF RunDelete
    <3> QED  BY <3>1
  <2>3. timers' \in [Worker -> SUBSET Timer]
    BY <1>8 DEF RunDelete
  <2>4. proc' \in [Worker -> {"none", "made", "up", "down"}]
    <3>1. proc' = [proc EXCEPT ![n] = "down"] \/ proc' = proc
      BY <1>8, Zenon DEF RunDelete
    <3> QED  BY <3>1
  <2>5. orphan' \in [Worker -> Nat]
    <3>1. \/ \E left \in {0, 1} : orphan' = [orphan EXCEPT ![n] = @ + left]
          \/ orphan' = orphan
      BY <1>8, Zenon DEF RunDelete
    <3>2. \A left \in {0, 1} : orphan[n] + left \in Nat
      OBVIOUS
    <3> QED  BY <3>1, <3>2
  <2>6. mstop' \in [Worker -> BOOLEAN]
    <3>1. \/ \E freed \in BOOLEAN : mstop' = [mstop EXCEPT ![n] = freed]
          \/ mstop' = mstop
      BY <1>8, Zenon DEF RunDelete
    <3> QED  BY <3>1
  <2>7. UNCHANGED <<home, wpc, quit, again, events>>
    BY <1>8 DEF RunDelete
  <2> QED  BY <2>1, <2>2, <2>3, <2>4, <2>5, <2>6, <2>7
<1>9. CASE ThreadEnds(n)
  <2>1. wpc' \in [Worker -> Place]
    BY <1>9 DEF ThreadEnds, Place
  <2>2. obj' \in [Worker -> {"alive", "deleted"}] /\ inbox' \in [Worker -> Seq(Post)]
    <3>1. \/ /\ obj' = [obj EXCEPT ![n] = "deleted"]
             /\ inbox' = [inbox EXCEPT ![n] = <<>>]
          \/ obj' = obj /\ inbox' = inbox
      BY <1>9, Zenon DEF ThreadEnds
    <3>2. obj' \in [Worker -> {"alive", "deleted"}]
      BY <3>1
    <3>3. inbox' \in [Worker -> Seq(Post)]
      <4>1. inbox' = [inbox EXCEPT ![n] = <<>>] \/ inbox' = inbox
        BY <3>1
      <4>2. <<>> \in Seq(Post)
        OBVIOUS
      <4> QED  BY <4>1, <4>2
    <3> QED  BY <3>2, <3>3
  <2>3. UNCHANGED <<home, quit, proc, orphan, mstop, again, timers, events>>
    BY <1>9 DEF ThreadEnds
  <2> QED  BY <2>1, <2>2, <2>3
<1>10. CASE OnRestart(n)
  BY <1>10 DEF OnRestart, Place
<1>11. CASE OnNoStdout(n)
  <2> DEFINE armed == timers[n] \ {"stdout"}
  <2>1. armed \in SUBSET Timer /\ inbox[n] \in Seq(Post)
    OBVIOUS
  <2>2. CASE proc[n] = "up"
    <3>1. SetStop(n, inbox[n], armed)
      BY <1>11, <2>2 DEF OnNoStdout
    <3> QED  BY <2>1, <3>1, SetStopType
  <2>3. CASE proc[n] # "up"
    <3>1. timers' = [timers EXCEPT ![n] = armed]
      BY <1>11, <2>3 DEF OnNoStdout
    <3>2. UNCHANGED <<home, wpc, quit, proc, orphan, mstop, again, obj, inbox, events>>
      BY <1>11, <2>3 DEF OnNoStdout
    <3> QED  BY <2>1, <3>1, <3>2
  <2> QED  BY <2>2, <2>3
<1>12. CASE ReadyReadStdOut(n)
  BY <1>12 DEF ReadyReadStdOut, Timer
<1>13. CASE ReadyReadStdErr(n)
  <2>1. Ev("stderr", n) \in E
    BY <1>0 DEF Signal
  <2>2. mstop' = [mstop EXCEPT ![n] = TRUE] /\ events' = Append(events, Ev("stderr", n))
    BY <1>13 DEF ReadyReadStdErr
  <2>3. mstop' \in [Worker -> BOOLEAN]
    BY <2>2
  <2>4. events' \in Seq(E)
    BY <2>1, <2>2
  <2>5. UNCHANGED <<home, wpc, quit, proc, orphan, again, timers, obj, inbox>>
    BY <1>13 DEF ReadyReadStdErr
  <2> QED  BY <2>3, <2>4, <2>5
<1>14. CASE Iperf2Ended(n)
  <2>1. timers[n] \cup {"stdout"} \in SUBSET Timer
    BY DEF Timer
  <2> QED  BY <1>14, <2>1, SetStopType DEF Iperf2Ended
<1>15. ASSUME NEW ok \in BOOLEAN, OnFinished(n, ok)
       PROVE  /\ events' \in Seq(E)
              /\ mstop' \in [Worker -> BOOLEAN]
              /\ timers' \in [Worker -> SUBSET Timer]
  <2>1. events' \in Seq(E)
    BY <1>0, <1>15, ConcatProperties, Zenon DEF OnFinished
  <2>2. mstop' \in [Worker -> BOOLEAN]
    BY <1>15 DEF OnFinished, Retried, WorkerAssumption
  <2>3. timers' \in [Worker -> SUBSET Timer]
    BY <1>0, <1>15 DEF OnFinished
  <2> QED  BY <2>1, <2>2, <2>3
<1>16. ASSUME NEW ok \in BOOLEAN, ProcessExits(n, ok)
       PROVE  WorkerTypeOK'
  <2>1. proc' \in [Worker -> {"none", "made", "up", "down"}]
    BY <1>16 DEF ProcessExits
  <2>2. OnFinished(n, ok) /\ UNCHANGED <<home, wpc, quit, orphan, again, obj, inbox>>
    BY <1>16 DEF ProcessExits
  <2> QED  BY <1>15, <2>1, <2>2
<1>17. ASSUME NEW ok \in BOOLEAN, OrphanExits(n, ok)
       PROVE  WorkerTypeOK'
  <2>1. orphan' \in [Worker -> Nat]
    BY <1>17 DEF OrphanExits
  <2>2. /\ OnFinished(n, ok) \/ UNCHANGED <<events, mstop, timers>>
        /\ UNCHANGED <<home, wpc, quit, proc, again, obj, inbox>>
    BY <1>17 DEF OrphanExits
  <2> QED  BY <1>15, <2>1, <2>2
<1> QED
  BY <1>1, <1>2, <1>3, <1>4, <1>5, <1>6, <1>7, <1>8, <1>9, <1>10, <1>11, <1>12,
     <1>13, <1>14, <1>16, <1>17 DEF WorkerStep

\* Posting events to some workers leaves lists of posted events.
LEMMA PostedType ==
  ASSUME WorkerTypeOK, NEW S, NEW sigs \in Seq(Post)
  PROVE  Posted(S, sigs) \in [Worker -> Seq(Post)]
<1>1. \A n \in Worker : inbox[n] \in Seq(Post) /\ inbox[n] \o sigs \in Seq(Post)
  BY ConcatProperties DEF WorkerTypeOK
<1> QED  BY <1>1, Zenon DEF Posted

\* The StopServer and StopClient of clear() are such posted events.
LEMMA StopSignalType ==
  ASSUME WorkerTypeOK, NEW m \in Mode
  PROVE  StopSignal(m) \in [Worker -> Seq(Post)]
<1>1. <<"setStop">> \in Seq(Post)
  BY DEF Post
<1>2. inbox \in [Worker -> Seq(Post)]
  BY DEF WorkerTypeOK
<1> QED  BY <1>1, <1>2, PostedType DEF StopSignal

\* The next signal to be handled comes from a worker, and the others remain.
LEMMA HeadEvent ==
  ASSUME WorkerTypeOK, events # <<>>
  PROVE  /\ Head(events) \in [sig : Signal, from : Worker]
         /\ Tail(events) \in Seq([sig : Signal, from : Worker])
BY HeadTailProperties, Zenon DEF WorkerTypeOK

\* The initial state is well typed.
LEMMA InitType == QIperfdAssumption /\ WorkerAssumption /\ Init => TypeOK
<1> SUFFICES ASSUME QIperfdAssumption, WorkerAssumption, Init
             PROVE  TypeOK
  OBVIOUS
<1>1. WorkerTypeOK
  BY DEF Init, WorkerInit, WorkerTypeOK, Mode, Place, Timer, Post, Signal
<1>2. \A m \in Mode : IsMap(threads[m], Nat, 1..born) /\ IsMap(workers[m], Nat, 1..born)
  BY EmptyMapFacts DEF Init
<1>3. /\ DOMAIN threads = Mode /\ DOMAIN workers = Mode
      /\ frames \in Seq([mode : Mode, refrow : Nat])
      /\ mpc \in [at : MainPlace, of : 0..MaxWorkers]
      /\ told \in [Worker -> SUBSET {"started", "restarted", "stoped", "errored", "extend"}]
      /\ ub \in {"none", "uninit", "dangling", "iterator", "inuse"}
      /\ cmds \in 0..MaxCmds /\ born \in 0..MaxWorkers
  BY DEF Init, Ready, MainPlace, QIperfdAssumption, WorkerAssumption
<1> QED  BY <1>1, <1>2, <1>3 DEF TypeOK

\* Every step of QIperfd keeps the state well typed.
LEMMA NextType ==
  ASSUME QIperfdAssumption, WorkerAssumption, TypeOK, [Next]_vars
  PROVE  TypeOK'
<1> DEFINE Reports == SUBSET {"started", "restarted", "stoped", "errored", "extend"}
<1> DEFINE MapsOK == \A m \in Mode : /\ IsMap(threads[m], Nat, 1..born)
                                   /\ IsMap(workers[m], Nat, 1..born)
<1> USE DEF TypeOK
<1>w. WorkerTypeOK /\ MaxWorkers \in Nat /\ born \in Nat
  BY DEF WorkerAssumption
<1>b. ASSUME NEW n \in 1..born
      PROVE  n \in Worker
  BY <1>w, <1>b DEF Worker
<1>c. ASSUME NEW c, Command(c)
      PROVE  cmds' \in 0..MaxCmds
  BY <1>c DEF Command, QIperfdAssumption
<1>m. ASSUME NEW m \in Mode
      PROVE  IsMap(threads[m], Nat, 1..born) /\ IsMap(workers[m], Nat, 1..born)
  OBVIOUS
<1>at. \A place \in MainPlace : At(place) \in [at : MainPlace, of : 0..MaxWorkers]
  BY <1>w DEF At
<1>1. ASSUME NEW m \in Mode, Add(m)
      PROVE  TypeOK'
  <2> DEFINE n == born + 1
             idx == MapCount(threads[m])
  <2>1. n \in Worker /\ born' = n /\ born' \in 0..MaxWorkers
    BY <1>1, <1>w DEF Add, Worker
  <2>2. idx \in Nat
    BY <1>m, FS_CardinalityType DEF IsMap, MapCount
  <2>3. Pairs[m][Added(m) + 1] \in Nat
    <3>1. Added(m) \in Nat
      <4>1. IsFiniteSet(1..born)
        <5>1. born \in Int /\ 1 \in Int
          BY <1>w
        <5> QED  BY <5>1, FS_Interval, Zenon
      <4>2. IsFiniteSet({j \in 1..born : home[j].mode = m})
        BY <4>1, FS_Subset
      <4> QED  BY <4>2, FS_CardinalityType DEF Added
    <3>2. Pairs[m] \in Seq(Nat) /\ Added(m) < Len(Pairs[m])
      BY <1>1 DEF Add, QIperfdAssumption
    <3> QED  BY <3>1, <3>2
  <2>4. home' \in [Worker -> [mode : Mode, idx : Nat, refrow : Nat]]
    <3>1. [mode |-> m, idx |-> idx, refrow |-> Pairs[m][Added(m) + 1]]
            \in [mode : Mode, idx : Nat, refrow : Nat]
      BY <2>2, <2>3
    <3>2. home' = [home EXCEPT ![n] = [mode |-> m, idx |-> idx,
                                       refrow |-> Pairs[m][Added(m) + 1]]]
      BY <1>1 DEF Add
    <3> QED  BY <1>w, <2>1, <3>1, <3>2 DEF WorkerTypeOK
  <2>5. WorkerTypeOK'
    BY <1>1, <1>w, <2>4 DEF Add, WorkerTypeOK
  <2>6. DOMAIN threads' = Mode /\ DOMAIN workers' = Mode /\ MapsOK'
    <3>1. /\ threads' = [threads EXCEPT ![m] = MapInsert(@, idx, n)]
          /\ workers' = [workers EXCEPT ![m] = MapInsert(@, idx, n)]
      BY <1>1 DEF Add, Register
    <3>2. ASSUME NEW l \in Mode
          PROVE  IsMap(threads[l], Nat, 1..n) /\ IsMap(workers[l], Nat, 1..n)
      BY <1>m, <1>w DEF IsMap
    <3>3. n \in 1..n
      BY <1>w
    <3>4. /\ IsMap(MapInsert(threads[m], idx, n), Nat, 1..n)
          /\ IsMap(MapInsert(workers[m], idx, n), Nat, 1..n)
      BY <2>2, <3>2, <3>3, MapTypes
    <3> HIDE DEF n, idx
    <3> QED  BY <2>1, <3>1, <3>2, <3>4
  <2> QED  BY <1>1, <2>1, <2>5, <2>6 DEF Add
<1>2. ASSUME NEW m \in Mode, StartAll(m)
      PROVE  TypeOK'
  <2>1. /\ wpc' \in [Worker -> Place]
        /\ proc' \in [Worker -> {"none", "made", "up", "down"}]
        /\ mstop' \in [Worker -> BOOLEAN]
    BY <1>2, <1>w DEF StartAll, WorkerTypeOK, Place
  <2>2. WorkerTypeOK'
    BY <1>2, <1>w, <2>1 DEF StartAll, WorkerTypeOK
  <2>3. cmds' \in 0..MaxCmds
    BY <1>2, <1>c DEF StartAll
  <2> QED  BY <1>2, <2>2, <2>3 DEF StartAll
<1>3. ASSUME NEW m \in Mode, Restart(m)
      PROVE  TypeOK'
  <2>1. inbox' \in [Worker -> Seq(Post)]
    <3>1. <<"setReStart">> \in Seq(Post)
      BY DEF Post
    <3> QED  BY <1>3, <1>w, <3>1, PostedType DEF Restart
  <2>2. WorkerTypeOK'
    BY <1>3, <1>w, <2>1 DEF Restart, WorkerTypeOK
  <2>3. cmds' \in 0..MaxCmds
    BY <1>3, <1>c DEF Restart
  <2> QED  BY <1>3, <2>2, <2>3 DEF Restart
<1>4. ASSUME StopAll
      PROVE  TypeOK'
  <2>1. inbox' \in [Worker -> Seq(Post)]
    <3>1. <<"setStop", "setStop">> \in Seq(Post)
      BY DEF Post
    <3> QED  BY <1>4, <1>w, <3>1, PostedType DEF StopAll
  <2>2. WorkerTypeOK'
    BY <1>4, <1>w, <2>1 DEF StopAll, WorkerTypeOK
  <2>3. cmds' \in 0..MaxCmds
    BY <1>4, <1>c DEF StopAll
  <2> QED  BY <1>4, <2>2, <2>3 DEF StopAll
<1>5. ASSUME Clear
      PROVE  TypeOK'
  <2>1. inbox' \in [Worker -> Seq(Post)]
    BY <1>5, <1>w, StopSignalType DEF Clear, Mode
  <2>2. WorkerTypeOK'
    BY <1>5, <1>w, <2>1 DEF Clear, WorkerTypeOK
  <2>3. cmds' \in 0..MaxCmds /\ mpc' \in [at : MainPlace, of : 0..MaxWorkers]
    BY <1>5, <1>c, <1>at DEF Clear, MainPlace
  <2> QED  BY <1>5, <2>2, <2>3 DEF Clear
<1>6. ASSUME NEW sigs, NextEvent(sigs), Broadcast,
             UNCHANGED <<home, wpc, quit, proc, orphan, mstop, again, timers, obj, inbox>>
      PROVE  WorkerTypeOK' /\ told' \in [Worker -> Reports] /\ Head(events).from \in Worker
  <2>1. /\ Head(events) \in [sig : Signal, from : Worker]
        /\ Tail(events) \in Seq([sig : Signal, from : Worker])
    BY <1>6, <1>w, HeadEvent DEF NextEvent
  <2>2. Report(Head(events).sig) \in Reports
    BY <2>1 DEF Report, Signal
  <2>3. told' \in [Worker -> Reports]
    BY <1>6, <2>1, <2>2 DEF Broadcast
  <2>4. events' \in Seq([sig : Signal, from : Worker])
    BY <1>6, <2>1 DEF Broadcast
  <2> QED  BY <1>6, <1>w, <2>1, <2>3, <2>4 DEF WorkerTypeOK
<1>7. CASE OnReport
  BY <1>6, <1>7 DEF OnReport
<1>8. CASE OnIperfFinished
  <2>1. WorkerTypeOK' /\ told' \in [Worker -> Reports] /\ Head(events).from \in Worker
    BY <1>6, <1>8 DEF OnIperfFinished
  <2>2. frames' \in Seq([mode : Mode, refrow : Nat])
    BY <1>8, <1>w, <2>1 DEF OnIperfFinished, WorkerTypeOK
  <2> QED  BY <1>8, <2>1, <2>2 DEF OnIperfFinished
<1>9. CASE HandleWorkerFinished
  <2>1. WorkerTypeOK' /\ told' \in [Worker -> Reports] /\ Head(events).from \in Worker
    BY <1>6, <1>9 DEF HandleWorkerFinished
  <2>2. DOMAIN workers' = Mode /\ MapsOK'
    <3> DEFINE h == home[Head(events).from]
    <3>1. h.mode \in Mode /\ h.idx \in Nat
      BY <1>w, <2>1 DEF WorkerTypeOK
    <3>2. /\ workers' = [workers EXCEPT ![h.mode] = MapRemove(@, h.idx)]
          /\ UNCHANGED <<born, threads>>
      BY <1>9 DEF HandleWorkerFinished
    <3> HIDE DEF h
    <3>3. IsMap(MapRemove(workers[h.mode], h.idx), Nat, 1..born)
      BY <1>m, <3>1, MapTypes
    <3> QED  BY <3>1, <3>2, <3>3
  <2> QED  BY <1>9, <2>1, <2>2 DEF HandleWorkerFinished
<1>10. CASE Del
  <2> DEFINE f == frames[Len(frames)]
  <2> DEFINE F == [mode : Mode, refrow : Nat]
  <2>1. f \in F /\ frames' \in Seq(F)
    <3>1. frames \in Seq(F) /\ Len(frames) \in Nat /\ Len(frames) # 0
      BY <1>10 DEF Del
    <3>2. \A i \in 1..Len(frames) : frames[i] \in F
      BY <3>1, ElementOfSeq, Zenon
    <3>3. SubSeq(frames, 1, Len(frames) - 1) \in Seq(F)
      BY <3>1, <3>2, SubSeqProperties
    <3>4. frames' = SubSeq(frames, 1, Len(frames) - 1)
      BY <1>10 DEF Del
    <3>5. Len(frames) \in 1..Len(frames)
      BY <3>1
    <3>6. f \in F
      BY <3>2, <3>5, Zenon
    <3> QED  BY <3>3, <3>4, <3>6, Zenon
  <2>2. CASE f.refrow \in DOMAIN threads[f.mode]
    <3> DEFINE n == threads[f.mode][f.refrow]
    <3>1. /\ Unregister(f.mode, f.refrow)
          /\ quit' = quit \cup {n}
          /\ mpc' = [at |-> "del", of |-> n]
          /\ UNCHANGED <<home, wpc, proc, orphan, mstop, again, timers, obj, inbox,
                          events, born, told, ub, cmds>>
      BY <1>10, <2>2 DEF Del
    <3>2. n \in 1..born /\ f.mode \in Mode /\ f.refrow \in Nat
      BY <1>m, <2>1, <2>2 DEF IsMap
    <3>3. n \in Worker /\ n \in 0..MaxWorkers
      BY <1>b, <1>w, <3>2 DEF Worker
    <3> HIDE DEF f, n
    <3>4. /\ IsMap(MapRemove(threads[f.mode], f.refrow), Nat, 1..born)
          /\ IsMap(MapRemove(workers[f.mode], f.refrow), Nat, 1..born)
      BY <1>m, <3>2, MapTypes
    <3>5. DOMAIN threads' = Mode /\ DOMAIN workers' = Mode /\ MapsOK'
      BY <3>1, <3>2, <3>4 DEF Unregister
    <3>6. WorkerTypeOK'
      BY <1>w, <3>1, <3>3 DEF WorkerTypeOK
    <3>7. mpc' \in [at : MainPlace, of : 0..MaxWorkers]
      BY <3>1, <3>3 DEF MainPlace
    <3> QED  BY <2>1, <3>1, <3>5, <3>6, <3>7
  <2>3. CASE f.refrow \notin DOMAIN threads[f.mode]
    <3>1. UNCHANGED <<workerVars, threads, workers, mpc, born, told, ub, cmds>>
      BY <1>10, <2>3 DEF Del, workerVars
    <3> QED  BY <1>w, <2>1, <3>1 DEF WorkerTypeOK, workerVars
  <2> QED  BY <2>2, <2>3
<1>11. ASSUME NEW timeout \in BOOLEAN, DelJoined(timeout)
       PROVE  TypeOK'
  <2>1. wpc' \in [Worker -> Place]
    BY <1>11, <1>w DEF DelJoined, WorkerTypeOK, Place
  <2>2. WorkerTypeOK'
    BY <1>11, <1>w, <2>1 DEF DelJoined, WorkerTypeOK
  <2>3. mpc' \in [at : MainPlace, of : 0..MaxWorkers]
    BY <1>11, <1>w DEF DelJoined, Ready, MainPlace
  <2> QED  BY <1>11, <2>2, <2>3 DEF DelJoined
<1>12. ASSUME NEW m \in Mode, ClearWorker(m)
       PROVE  TypeOK'
  <2>1. PICK k \in DOMAIN workers[m] :
          LET n == workers[m][k] IN
          /\ ub' = ClearHazard(n)
          /\ obj' = [obj EXCEPT ![n] = "deleted"]
          /\ inbox' = [inbox EXCEPT ![n] = <<>>]
          /\ timers' = [timers EXCEPT ![n] = {}]
          /\ workers' = [workers EXCEPT ![m] = MapRemove(@, k)]
    BY <1>12 DEF ClearWorker
  <2> DEFINE n == workers[m][k]
  <2>2. n \in Worker /\ k \in Nat
    BY <1>m, <1>b DEF IsMap
  <2>3. UNCHANGED <<home, wpc, quit, proc, orphan, mstop, again, events, born, threads,
                    frames, mpc, told, cmds>>
    BY <1>12 DEF ClearWorker
  <2> HIDE DEF n
  <2>4. WorkerTypeOK'
    <3>1. /\ obj' = [obj EXCEPT ![n] = "deleted"]
          /\ inbox' = [inbox EXCEPT ![n] = <<>>]
          /\ timers' = [timers EXCEPT ![n] = {}]
      BY <2>1 DEF n
    <3>2. obj' \in [Worker -> {"alive", "deleted"}]
      BY <1>w, <3>1 DEF WorkerTypeOK
    <3>3. inbox' \in [Worker -> Seq(Post)]
      <4>1. <<>> \in Seq(Post)
        OBVIOUS
      <4> QED  BY <1>w, <3>1, <4>1 DEF WorkerTypeOK
    <3>4. timers' \in [Worker -> SUBSET Timer]
      BY <1>w, <3>1 DEF WorkerTypeOK
    <3> QED  BY <1>w, <2>3, <3>2, <3>3, <3>4 DEF WorkerTypeOK
  <2>5. ub' \in {"none", "uninit", "dangling", "iterator", "inuse"}
    <3>1. /\ obj[n] \in {"alive", "deleted"}
          /\ proc[n] \in {"none", "made", "up", "down"}
      BY <1>w, <2>2 DEF WorkerTypeOK
    <3> QED  BY <2>1, <3>1 DEF ClearHazard, n
  <2>6. DOMAIN workers' = Mode /\ MapsOK'
    <3>1. IsMap(MapRemove(workers[m], k), Nat, 1..born)
      BY <1>m, <2>2, MapTypes
    <3> QED  BY <2>1, <2>3, <3>1
  <2> QED  BY <2>3, <2>4, <2>5, <2>6
<1>13. ASSUME NEW m \in Mode, ClearThreads(m)
       PROVE  TypeOK'
  <2>1. mpc' \in [at : MainPlace, of : 0..MaxWorkers]
    BY <1>13, <1>at DEF ClearThreads, MainPlace
  <2>2. WorkerTypeOK'
    BY <1>13, <1>w DEF ClearThreads, WorkerTypeOK, workerVars
  <2> QED  BY <1>13, <2>1, <2>2 DEF ClearThreads
<1>14. ASSUME NEW m \in Mode, JoinThread(m)
       PROVE  TypeOK'
  <2>1. PICK k \in DOMAIN threads[m] :
          /\ quit' = quit \cup {threads[m][k]}
          /\ \/ UNCHANGED threads
             \/ threads' = [threads EXCEPT ![m] = MapRemove(@, k)]
    BY <1>14 DEF JoinThread
  <2>2. threads[m][k] \in Worker /\ k \in Nat
    BY <1>m, <1>b DEF IsMap
  <2>3. UNCHANGED <<home, wpc, proc, orphan, mstop, again, timers, obj, inbox, events,
                    born, workers, frames, mpc, told, ub, cmds>>
    BY <1>14 DEF JoinThread
  <2>4. WorkerTypeOK'
    BY <1>w, <2>1, <2>2, <2>3 DEF WorkerTypeOK
  <2>5. DOMAIN threads' = Mode /\ MapsOK'
    <3>1. IsMap(MapRemove(threads[m], k), Nat, 1..born)
      BY <1>m, <2>2, MapTypes
    <3> QED  BY <2>1, <2>3, <3>1
  <2> QED  BY <2>3, <2>4, <2>5
<1>15. ASSUME NEW m \in Mode, JoinDone(m)
       PROVE  TypeOK'
  <2>1. mpc' \in [at : MainPlace, of : 0..MaxWorkers]
    BY <1>15, <1>at, <1>w DEF JoinDone, MainPlace, Ready
  <2>2. inbox' \in [Worker -> Seq(Post)]
    BY <1>15, <1>w, StopSignalType DEF JoinDone, Mode, WorkerTypeOK
  <2>3. WorkerTypeOK'
    BY <1>15, <1>w, <2>2 DEF JoinDone, WorkerTypeOK
  <2> QED  BY <1>15, <2>1, <2>3 DEF JoinDone
<1>16. CASE Run
  BY <1>16, <1>w, WorkerStepType DEF Run, mainVars
<1>17. CASE UNCHANGED vars
  BY <1>17, <1>w DEF vars, mainVars, workerVars, WorkerTypeOK
<1>18. CASE Accept
  BY <1>1, <1>2, <1>3, <1>4, <1>5, <1>18 DEF Accept
<1>19. CASE HandleEvent
  BY <1>7, <1>8, <1>9, <1>10, <1>19 DEF HandleEvent
<1>20. CASE Blocked
  BY <1>11, <1>12, <1>13, <1>14, <1>15, <1>20 DEF Blocked
<1> QED  BY <1>16, <1>17, <1>18, <1>19, <1>20 DEF Next

\* Whatever consoles send and however its threads are scheduled, qiperfd
\* stays in well-typed states: its maps hold workers that were created.
THEOREM TypeCorrect == Spec => []TypeOK
<1>1. Init => TypeOK
  BY InitType, QIperfdAssumption, WorkerAssumption
<1>2. TypeOK /\ [Next]_vars => TypeOK'
  BY NextType, QIperfdAssumption, WorkerAssumption
<1> QED  BY <1>1, <1>2, PTL DEF Spec

-----------------------------------------------------------------------------
(* The inductive invariants.                                               *)
\* The place of the main thread while clear() joins the threads of a mode.
Joining(m) == At(IF m = "S" THEN "joinS" ELSE "joinC")

\* clear() joins the threads of a mode when the workers of it are deleted.
JoinsAfterWorkers == \A m \in Mode : mpc = Joining(m) => workers[m] = EmptyMap

\* Every thread in a map is where its worker says it is.
ThreadsAtHome ==
  \A m \in Mode : \A k \in DOMAIN threads[m] :
    home[threads[m][k]].mode = m /\ home[threads[m][k]].idx = k

\* Only a thread that was told to quit ends, and del() told the one it joins.
OnlyQuitEnds ==
  /\ quit \subseteq 1..born
  /\ \A n \in Worker : wpc[n] = "gone" => n \in quit
  /\ mpc.at = "del" => mpc.of \in quit

\* A thread in a map was not told to quit, but by the clear() that joins it.
QuitLeavesMap ==
  \A m \in Mode : \A k \in DOMAIN threads[m] :
    threads[m][k] \in quit => mpc = Joining(m)

\* The self-destruction timer is armed only while work() is between
\* waitForStarted and its loop, or in a thread that was terminated there.
ArmedInLaunch ==
  \A n \in Worker : "selfdestruct" \in timers[n] => wpc[n] \in {"launched", "gone"}

\* The places of the main thread differ from each other.
LEMMA Places ==
  /\ \A m \in Mode : Ready # Joining(m) /\ Joining(m).at # "del"
  /\ Joining("S") # Joining("C")
  /\ \A m, l \in Mode : At(IF m = "S" THEN "clearS" ELSE "clearC") # Joining(l)
BY DEF Ready, Joining, At, Mode

\* What a step of a worker's thread leaves alone.
LEMMA WorkerStepFrame ==
  ASSUME WorkerTypeOK, NEW n \in Worker, WorkerStep(n)
  PROVE  /\ UNCHANGED <<home, quit>>
         /\ \A j \in Worker : wpc'[j] = "gone" => wpc[j] = "gone" \/ j \in quit
<1> USE DEF WorkerTypeOK
<1>1. ASSUME NEW box, NEW armed, SetStop(n, box, armed)
      PROVE  UNCHANGED <<home, quit, wpc>>
  BY <1>1 DEF SetStop
<1>2. CASE UNCHANGED <<home, quit, wpc>>
  BY <1>2
<1>3. CASE Launch(n) \/ LaunchFails(n) \/ LaunchFreed(n) \/ EnterLoop(n) \/ LeaveLoop(n)
  BY <1>3 DEF Launch, LaunchFails, LaunchFreed, EnterLoop, LeaveLoop
<1>4. CASE ThreadEnds(n)
  <2>1. UNCHANGED <<home, quit>> /\ n \in quit /\ wpc' = [wpc EXCEPT ![n] = "gone"]
    BY <1>4 DEF ThreadEnds
  <2> QED  BY <2>1
<1>5. CASE OnRestart(n)
  BY <1>5 DEF OnRestart
<1>6. CASE RunSetStop(n) \/ RunSetReStart(n) \/ RunDelete(n)
  BY <1>1, <1>2, <1>6 DEF RunSetStop, RunSetReStart, RunDelete
<1>7. CASE OnNoStdout(n)
  BY <1>1, <1>2, <1>7 DEF OnNoStdout
<1>8. CASE ReadyReadStdOut(n) \/ ReadyReadStdErr(n)
  BY <1>2, <1>8 DEF ReadyReadStdOut, ReadyReadStdErr
<1>9. CASE Iperf2Ended(n)
  BY <1>1, <1>2, <1>9 DEF Iperf2Ended
<1>10. CASE \E ok \in BOOLEAN : ProcessExits(n, ok) \/ OrphanExits(n, ok)
  BY <1>2, <1>10 DEF ProcessExits, OrphanExits
<1> QED
  BY <1>3, <1>4, <1>5, <1>6, <1>7, <1>8, <1>9, <1>10 DEF WorkerStep

-----------------------------------------------------------------------------
(* The two maps of a mode agree.                                           *)
PairedInv == PairedEntries /\ JoinsAfterWorkers

\* Every step keeps the maps paired, and keeps the loop over the threads of a
\* mode after the one that empties its workers.
LEMMA NextPaired ==
  ASSUME TypeOK, PairedInv, [Next]_vars
  PROVE  PairedInv'
<1> USE DEF PairedInv
<1>t. DOMAIN threads = Mode /\ DOMAIN workers = Mode
  BY DEF TypeOK
<1>1. ASSUME UNCHANGED <<threads, workers>>,
             \A m \in Mode : mpc' = Joining(m) => mpc = Joining(m) \/ workers[m] = EmptyMap
      PROVE  PairedInv'
  BY <1>1 DEF PairedEntries, JoinsAfterWorkers
<1>2. ASSUME NEW m \in Mode, Add(m)
      PROVE  PairedInv'
  <2>1. JoinsAfterWorkers'
    BY <1>2, Places DEF Add, MainFree, JoinsAfterWorkers
  <2>2. PICK n, idx : Register(m, idx, n)
    BY <1>2 DEF Add
  <2>3. ASSUME NEW l \in Mode, NEW k \in DOMAIN workers'[l]
        PROVE  k \in DOMAIN threads'[l] /\ threads'[l][k] = workers'[l][k]
    <3>1. CASE l = m
      <4>1. /\ threads'[l] = MapInsert(threads[m], idx, n)
            /\ workers'[l] = MapInsert(workers[m], idx, n)
        BY <1>t, <2>2, <3>1 DEF Register
      <4>2. CASE k = idx
        BY <4>1, <4>2 DEF MapInsert
      <4>3. CASE k # idx
        <5>1. k \in DOMAIN workers[l] /\ workers'[l][k] = workers[l][k]
          BY <2>3, <3>1, <4>1, <4>3 DEF MapInsert
        <5>2. k \in DOMAIN threads[l] /\ threads[l][k] = workers[l][k]
          BY <5>1 DEF PairedEntries
        <5>3. k \in DOMAIN threads'[l] /\ threads'[l][k] = threads[l][k]
          BY <3>1, <4>1, <4>3, <5>2 DEF MapInsert
        <5> QED  BY <5>1, <5>2, <5>3
      <4> QED  BY <4>2, <4>3
    <3>2. CASE l # m
      BY <1>t, <2>2, <2>3, <3>2 DEF Register, PairedEntries
    <3> QED  BY <3>1, <3>2
  <2> QED  BY <2>1, <2>3 DEF PairedEntries
<1>3. ASSUME NEW m \in Mode, StartAll(m) \/ Restart(m)
      PROVE  PairedInv'
  BY <1>1, <1>3 DEF StartAll, Restart
<1>4. CASE StopAll
  BY <1>1, <1>4 DEF StopAll
<1>5. CASE Clear
  BY <1>1, <1>5, Places DEF Clear, Mode
<1>6. CASE OnReport \/ OnIperfFinished
  BY <1>1, <1>6 DEF OnReport, OnIperfFinished
<1>7. ASSUME NEW m \in Mode, NEW k, UNCHANGED threads,
             workers' = [workers EXCEPT ![m] = MapRemove(@, k)]
      PROVE  PairedEntries'
  <2>1. ASSUME NEW l \in Mode, NEW j \in DOMAIN workers'[l]
        PROVE  j \in DOMAIN workers[l] /\ workers'[l][j] = workers[l][j]
    <3>1. CASE l = m
      <4>1. workers'[l] = MapRemove(workers[l], k)
        BY <1>t, <1>7, <3>1
      <4> QED  BY <2>1, <4>1 DEF MapRemove
    <3>2. CASE l # m
      <4>1. workers'[l] = workers[l]
        BY <1>t, <1>7, <3>2
      <4> QED  BY <2>1, <4>1
    <3> QED  BY <3>1, <3>2
  <2> QED  BY <1>7, <2>1 DEF PairedEntries
<1>8. CASE HandleWorkerFinished
  <2>1. JoinsAfterWorkers'
    BY <1>8, Places DEF HandleWorkerFinished, NextEvent, MainFree, JoinsAfterWorkers
  <2>2. UNCHANGED threads
    BY <1>8 DEF HandleWorkerFinished
  <2>3. PICK m, k : workers' = [workers EXCEPT ![m] = MapRemove(@, k)]
    BY <1>8 DEF HandleWorkerFinished
  <2>4. CASE m \in Mode
    BY <1>7, <2>1, <2>2, <2>3, <2>4
  <2>5. CASE m \notin Mode
    <3>1. \A l \in Mode : workers'[l] = workers[l]
      BY <1>t, <2>3, <2>5
    <3> QED  BY <2>1, <2>2, <3>1 DEF PairedEntries
  <2> QED  BY <2>4, <2>5
<1>9. CASE Del
  <2> DEFINE f == frames[Len(frames)]
  <2>1. JoinsAfterWorkers'
    <3>1. \A m \in Mode : mpc' # Joining(m)
      <4>1. mpc' = mpc \/ mpc'.at = "del"
        BY <1>9 DEF Del
      <4>2. mpc = Ready
        BY <1>9 DEF Del, MainFree
      <4> QED  BY <4>1, <4>2, Places
    <3> QED  BY <3>1 DEF JoinsAfterWorkers
  <2>2. CASE f.refrow \in DOMAIN threads[f.mode]
    <3>1. Unregister(f.mode, f.refrow)
      BY <1>9, <2>2 DEF Del
    <3> HIDE DEF f
    <3>2. ASSUME NEW l \in Mode, NEW k \in DOMAIN workers'[l]
          PROVE  k \in DOMAIN threads'[l] /\ threads'[l][k] = workers'[l][k]
      <4>1. CASE l = f.mode
        <5>1. /\ threads'[l] = MapRemove(threads[l], f.refrow)
              /\ workers'[l] = MapRemove(workers[l], f.refrow)
          BY <1>t, <3>1, <4>1 DEF Unregister
        <5>2. k \in DOMAIN workers[l] \ {f.refrow} /\ workers'[l][k] = workers[l][k]
          BY <3>2, <5>1 DEF MapRemove
        <5>3. k \in DOMAIN threads[l] /\ threads[l][k] = workers[l][k]
          BY <5>2 DEF PairedEntries
        <5>4. k \in DOMAIN threads'[l] /\ threads'[l][k] = threads[l][k]
          BY <5>1, <5>2, <5>3 DEF MapRemove
        <5> QED  BY <5>2, <5>3, <5>4
      <4>2. CASE l # f.mode
        BY <1>t, <3>1, <3>2, <4>2 DEF Unregister, PairedEntries
      <4> QED  BY <4>1, <4>2
    <3> QED  BY <2>1, <3>2 DEF PairedEntries
  <2>3. CASE f.refrow \notin DOMAIN threads[f.mode]
    <3>1. UNCHANGED <<threads, workers>>
      BY <1>9, <2>3 DEF Del
    <3> QED  BY <2>1, <3>1 DEF PairedEntries
  <2> QED  BY <2>2, <2>3
<1>10. ASSUME NEW timeout \in BOOLEAN, DelJoined(timeout)
       PROVE  PairedInv'
  BY <1>1, <1>10, Places DEF DelJoined
<1>11. ASSUME NEW m \in Mode, ClearWorker(m)
       PROVE  PairedInv'
  <2>1. JoinsAfterWorkers'
    BY <1>11, Places DEF ClearWorker, JoinsAfterWorkers
  <2>2. PICK k : workers' = [workers EXCEPT ![m] = MapRemove(@, k)]
    BY <1>11 DEF ClearWorker
  <2>3. UNCHANGED threads
    BY <1>11 DEF ClearWorker
  <2> QED  BY <1>7, <2>1, <2>2, <2>3
<1>12. ASSUME NEW m \in Mode, ClearThreads(m)
       PROVE  PairedInv'
  <2>1. mpc' = Joining(m) /\ workers[m] = EmptyMap /\ UNCHANGED <<threads, workers>>
    BY <1>12 DEF ClearThreads, Joining
  <2> QED  BY <1>1, <2>1, Places DEF Mode
<1>13. ASSUME NEW m \in Mode, JoinThread(m)
       PROVE  PairedInv'
  <2>1. mpc = Joining(m) /\ UNCHANGED <<workers, mpc>>
    BY <1>13 DEF JoinThread, Joining
  <2>2. DOMAIN workers[m] = {}
    BY <2>1, EmptyMapFacts DEF JoinsAfterWorkers
  <2>3. \A l \in Mode \ {m} : threads'[l] = threads[l]
    BY <1>13, <1>t DEF JoinThread
  <2>4. PairedEntries'
    BY <2>1, <2>2, <2>3 DEF PairedEntries
  <2>5. JoinsAfterWorkers'
    BY <2>1 DEF JoinsAfterWorkers
  <2> QED  BY <2>4, <2>5
<1>14. ASSUME NEW m \in Mode, JoinDone(m)
       PROVE  PairedInv'
  <2>1. \A l \in Mode : mpc' # Joining(l)
    BY <1>14, Places DEF JoinDone, Joining, At, Mode
  <2> QED  BY <1>1, <1>14, <2>1 DEF JoinDone
<1>15. CASE Run
  BY <1>1, <1>15 DEF Run, mainVars
<1>16. CASE UNCHANGED vars
  BY <1>1, <1>16 DEF vars, mainVars
<1> QED
  BY <1>2, <1>3, <1>4, <1>5, <1>6, <1>8, <1>9, <1>10, <1>11, <1>12, <1>13, <1>14,
     <1>15, <1>16 DEF Next, Accept, HandleEvent, Blocked

\* A worker is registered only beside the thread it was moved to, whatever
\* del(), clear() and handleWorkerFinished() take out, in any order.
THEOREM EntriesPaired == Spec => []PairedEntries
<1>1. Init => PairedInv
  BY EmptyMapFacts, Places DEF Init, PairedInv, PairedEntries, JoinsAfterWorkers
<1>2. TypeOK /\ PairedInv /\ [Next]_vars => PairedInv'
  BY NextPaired
<1>3. PairedInv => PairedEntries
  BY DEF PairedInv
<1> QED  BY <1>1, <1>2, <1>3, TypeCorrect, PTL DEF Spec

-----------------------------------------------------------------------------
(* No thread in a map has ended when the main thread takes an event.       *)
RegistryInv == ThreadsAtHome /\ OnlyQuitEnds /\ QuitLeavesMap

\* A step that leaves the registry alone: it ends no thread that was not told
\* to quit, and leaves the joins of clear() only when they are done.
LEMMA RegistryFrame ==
  ASSUME TypeOK, RegistryInv,
         UNCHANGED <<home, quit, born, threads>>,
         \A n \in Worker : wpc'[n] = "gone" => wpc[n] = "gone" \/ n \in quit,
         \A m \in Mode : mpc = Joining(m) => mpc' = mpc \/ threads[m] = EmptyMap,
         mpc'.at = "del" => mpc' = mpc
  PROVE  RegistryInv'
<1> USE DEF RegistryInv
<1>1. ThreadsAtHome'
  BY DEF ThreadsAtHome
<1>2. OnlyQuitEnds'
  BY DEF OnlyQuitEnds
<1>3. QuitLeavesMap'
  BY EmptyMapFacts DEF QuitLeavesMap, Joining
<1> QED  BY <1>1, <1>2, <1>3

\* Every step keeps the registry's threads alive: a thread ends only once it was
\* told to quit, and one that was told to quit leaves the registry first.
LEMMA NextRegistry ==
  ASSUME QIperfdAssumption, WorkerAssumption, TypeOK, RegistryInv, [Next]_vars
  PROVE  RegistryInv'
<1> USE DEF RegistryInv
<1>t. /\ DOMAIN threads = Mode /\ WorkerTypeOK /\ born \in Nat
      /\ \A m \in Mode : \A k \in DOMAIN threads[m] : threads[m][k] \in 1..born
      /\ 1..born \subseteq Worker
  BY DEF TypeOK, IsMap, Worker, WorkerAssumption
<1>w. wpc \in [Worker -> Place]
  BY <1>t DEF WorkerTypeOK
<1>1. ASSUME NEW m \in Mode, Add(m)
      PROVE  RegistryInv'
  <2> DEFINE n == born + 1
             idx == MapCount(threads[m])
  <2>1. /\ threads' = [threads EXCEPT ![m] = MapInsert(@, idx, n)]
        /\ home' = [home EXCEPT ![n] = [mode |-> m, idx |-> idx,
                                        refrow |-> Pairs[m][Added(m) + 1]]]
        /\ born' = n /\ UNCHANGED <<wpc, quit, mpc>>
    BY <1>1 DEF Add, Register
  <2>2. mpc = Ready /\ n \in Worker /\ n \notin 1..born
    BY <1>1, <1>t DEF Add, MainFree, Worker, WorkerAssumption
  <2>3. DOMAIN home = Worker
    BY <1>t DEF WorkerTypeOK
  <2> HIDE DEF n, idx
  <2>4. ASSUME NEW l \in Mode, NEW k \in DOMAIN threads'[l]
        PROVE  \/ l = m /\ k = idx /\ threads'[l][k] = n
               \/ k \in DOMAIN threads[l] /\ threads'[l][k] = threads[l][k]
    BY <1>t, <2>1, <2>4 DEF MapInsert
  <2>5. ThreadsAtHome'
    <3>1. ASSUME NEW l \in Mode, NEW k \in DOMAIN threads'[l]
          PROVE  home'[threads'[l][k]].mode = l /\ home'[threads'[l][k]].idx = k
      <4>1. CASE l = m /\ k = idx /\ threads'[l][k] = n
        BY <2>1, <2>2, <2>3, <4>1
      <4>2. CASE k \in DOMAIN threads[l] /\ threads'[l][k] = threads[l][k]
        <5>1. threads[l][k] # n /\ threads[l][k] \in Worker
          BY <1>t, <2>2, <4>2
        <5> QED  BY <2>1, <2>3, <4>2, <5>1 DEF ThreadsAtHome
      <4> QED  BY <2>4, <3>1, <4>1, <4>2
    <3> QED  BY <3>1 DEF ThreadsAtHome
  <2>6. OnlyQuitEnds'
    BY <1>t, <2>1, <2>2 DEF OnlyQuitEnds, n
  <2>7. QuitLeavesMap'
    <3>1. n \notin quit
      BY <2>2 DEF OnlyQuitEnds
    <3>2. ASSUME NEW l \in Mode, NEW k \in DOMAIN threads'[l], threads'[l][k] \in quit'
          PROVE  FALSE
      <4>1. k \in DOMAIN threads[l] /\ threads[l][k] \in quit
        BY <2>1, <2>4, <3>1, <3>2
      <4> QED  BY <2>2, <4>1, Places DEF QuitLeavesMap
    <3> QED  BY <3>2 DEF QuitLeavesMap
  <2> QED  BY <2>5, <2>6, <2>7
<1>2. ASSUME NEW m \in Mode, StartAll(m)
      PROVE  RegistryInv'
  <2>1. \A n \in Worker : wpc'[n] = "gone" => wpc[n] = "gone"
    BY <1>2 DEF StartAll
  <2> QED  BY <1>2, <2>1, RegistryFrame DEF StartAll
<1>3. ASSUME NEW m \in Mode, Restart(m)
      PROVE  RegistryInv'
  BY <1>3, RegistryFrame DEF Restart
<1>4. CASE StopAll
  BY <1>4, RegistryFrame DEF StopAll
<1>5. CASE Clear
  BY <1>5, RegistryFrame, Places DEF Clear, Command, MainFree, At
<1>6. CASE OnReport \/ OnIperfFinished \/ HandleWorkerFinished
  BY <1>6, RegistryFrame DEF OnReport, OnIperfFinished, HandleWorkerFinished
<1>7. CASE Del
  <2> DEFINE f == frames[Len(frames)]
             n == threads[f.mode][f.refrow]
  <2>1. UNCHANGED <<home, wpc, born>> /\ mpc = Ready
    BY <1>7 DEF Del, MainFree
  <2>2. CASE f.refrow \in DOMAIN threads[f.mode]
    <3>1. /\ Unregister(f.mode, f.refrow)
          /\ quit' = quit \cup {n}
          /\ mpc' = [at |-> "del", of |-> n]
      BY <1>7, <2>2 DEF Del
    <3>2. f.mode \in Mode
      <4>1. /\ frames \in Seq([mode : Mode, refrow : Nat])
            /\ Len(frames) \in 1..Len(frames)
        BY <1>7 DEF Del, TypeOK
      <4>2. f \in [mode : Mode, refrow : Nat]
        BY <4>1, ElementOfSeq, Zenon
      <4> QED  BY <4>2
    <3>3. n \in 1..born /\ home[n].mode = f.mode /\ home[n].idx = f.refrow
      BY <1>t, <2>2, <3>2 DEF ThreadsAtHome
    <3> HIDE DEF f, n
    <3>4. ASSUME NEW l \in Mode, NEW k \in DOMAIN threads'[l]
          PROVE  /\ k \in DOMAIN threads[l] /\ threads'[l][k] = threads[l][k]
                 /\ l # f.mode \/ k # f.refrow
      BY <1>t, <3>1, <3>4 DEF Unregister, MapRemove
    <3>5. ThreadsAtHome'
      BY <2>1, <3>4 DEF ThreadsAtHome
    <3>6. OnlyQuitEnds'
      BY <1>t, <2>1, <3>1, <3>3 DEF OnlyQuitEnds
    <3>7. ASSUME NEW l \in Mode, NEW k \in DOMAIN threads'[l], threads'[l][k] \in quit'
          PROVE  FALSE
      <4>1. threads[l][k] # n
        BY <3>3, <3>4, <3>7 DEF ThreadsAtHome
      <4>2. threads[l][k] \in quit /\ k \in DOMAIN threads[l]
        BY <3>1, <3>4, <3>7, <4>1
      <4> QED  BY <2>1, <4>2, Places DEF QuitLeavesMap
    <3> QED  BY <3>5, <3>6, <3>7 DEF QuitLeavesMap
  <2>3. CASE f.refrow \notin DOMAIN threads[f.mode]
    <3>1. UNCHANGED <<threads, quit, mpc>>
      BY <1>7, <2>3 DEF Del
    <3> QED  BY <2>1, <3>1, RegistryFrame
  <2> QED  BY <2>2, <2>3
<1>8. ASSUME NEW timeout \in BOOLEAN, DelJoined(timeout)
      PROVE  RegistryInv'
  <2>1. mpc.of \in quit /\ wpc' = [wpc EXCEPT ![mpc.of] = "gone"]
    BY <1>8 DEF DelJoined, OnlyQuitEnds
  <2>2. \A n \in Worker : wpc'[n] = "gone" => wpc[n] = "gone" \/ n \in quit
    BY <1>w, <2>1
  <2>3. mpc' = Ready /\ mpc.at = "del" /\ UNCHANGED <<home, quit, born, threads>>
    BY <1>8 DEF DelJoined
  <2> QED  BY <2>2, <2>3, RegistryFrame, Places DEF Ready
<1>9. ASSUME NEW m \in Mode, ClearWorker(m)
      PROVE  RegistryInv'
  BY <1>9, RegistryFrame DEF ClearWorker
<1>10. ASSUME NEW m \in Mode, ClearThreads(m)
       PROVE  RegistryInv'
  <2>1. /\ mpc = At(IF m = "S" THEN "clearS" ELSE "clearC") /\ mpc' = Joining(m)
        /\ UNCHANGED <<home, quit, born, threads, wpc>>
    BY <1>10 DEF ClearThreads, Joining, workerVars
  <2> QED  BY <2>1, RegistryFrame, Places
<1>11. ASSUME NEW m \in Mode, JoinThread(m)
       PROVE  RegistryInv'
  <2>1. PICK k \in DOMAIN threads[m] :
          /\ quit' = quit \cup {threads[m][k]}
          /\ \/ UNCHANGED threads
             \/ threads' = [threads EXCEPT ![m] = MapRemove(@, k)]
    BY <1>11 DEF JoinThread
  <2>2. mpc = Joining(m) /\ UNCHANGED <<home, wpc, born, mpc>>
    BY <1>11 DEF JoinThread, Joining
  <2>3. ASSUME NEW l \in Mode, NEW j \in DOMAIN threads'[l]
        PROVE  j \in DOMAIN threads[l] /\ threads'[l][j] = threads[l][j]
    <3>1. \/ threads'[l] = threads[l]
          \/ threads'[l] = MapRemove(threads[l], k)
      BY <1>t, <2>1
    <3> QED  BY <2>3, <3>1 DEF MapRemove
  <2>4. ThreadsAtHome'
    BY <2>2, <2>3 DEF ThreadsAtHome
  <2>5. OnlyQuitEnds'
    BY <1>t, <2>1, <2>2 DEF OnlyQuitEnds
  <2>6. ASSUME NEW l \in Mode, NEW j \in DOMAIN threads'[l], threads'[l][j] \in quit'
        PROVE  mpc' = Joining(l)
    <3>1. CASE threads[l][j] \in quit
      BY <2>2, <2>3, <2>6, <3>1 DEF QuitLeavesMap, Joining
    <3>2. CASE threads[l][j] = threads[m][k]
      <4>1. /\ home[threads[l][j]].mode = l
            /\ home[threads[m][k]].mode = m
        BY <2>1, <2>3, <2>6 DEF ThreadsAtHome
      <4> QED  BY <2>2, <3>2, <4>1 DEF Joining
    <3> QED  BY <2>1, <2>3, <2>6, <3>1, <3>2
  <2>7. QuitLeavesMap'
    BY <2>6 DEF QuitLeavesMap, Joining
  <2> QED  BY <2>4, <2>5, <2>7
<1>12. ASSUME NEW m \in Mode, JoinDone(m)
       PROVE  RegistryInv'
  <2>1. /\ mpc = Joining(m) /\ threads[m] = EmptyMap
        /\ mpc' \in {Ready, At("clearC")}
        /\ UNCHANGED <<home, quit, born, threads, wpc>>
    BY <1>12 DEF JoinDone, Joining
  <2>2. mpc'.at # "del"
    BY <2>1 DEF Ready, At
  <2>3. \A l \in Mode : mpc = Joining(l) => l = m
    BY <2>1, Places DEF Mode
  <2> QED  BY <2>1, <2>2, <2>3, RegistryFrame
<1>13. CASE Run
  BY <1>13, <1>t, WorkerStepFrame, RegistryFrame DEF Run, mainVars
<1>14. CASE UNCHANGED vars
  BY <1>14, RegistryFrame DEF vars, mainVars, workerVars
<1> QED
  BY <1>1, <1>2, <1>3, <1>4, <1>5, <1>6, <1>7, <1>8, <1>9, <1>10, <1>11, <1>12, <1>13,
     <1>14 DEF Next, Accept, HandleEvent, Blocked

\* startServer(), start(), del() and clear() never find a QThread in a map
\* that has ended, whichever way it was made to end.
THEOREM ThreadsInMapsLive == Spec => []NoDeadThreadInMap
<1>1. Init => RegistryInv
  <2> SUFFICES ASSUME Init  PROVE RegistryInv
    OBVIOUS
  <2>1. \A m \in Mode : DOMAIN threads[m] = {}
    BY EmptyMapFacts DEF Init
  <2>2. OnlyQuitEnds
    BY DEF Init, WorkerInit, OnlyQuitEnds, Ready
  <2> QED  BY <2>1, <2>2 DEF RegistryInv, ThreadsAtHome, QuitLeavesMap
<1>2. TypeOK /\ RegistryInv /\ [Next]_vars => RegistryInv'
  BY NextRegistry, QIperfdAssumption, WorkerAssumption
<1>3. TypeOK /\ RegistryInv => NoDeadThreadInMap
  <2> SUFFICES ASSUME TypeOK, RegistryInv, MainFree,
                      NEW m \in Mode, NEW k \in DOMAIN threads[m]
               PROVE  wpc[threads[m][k]] # "gone"
    BY DEF NoDeadThreadInMap
  <2>1. threads[m][k] \in Worker
    BY WorkerAssumption DEF TypeOK, IsMap, Worker
  <2>2. threads[m][k] \notin quit
    BY Places DEF MainFree, RegistryInv, QuitLeavesMap
  <2> QED  BY <2>1, <2>2 DEF RegistryInv, OnlyQuitEnds
<1> QED  BY <1>1, <1>2, <1>3, TypeCorrect, PTL DEF Spec

-----------------------------------------------------------------------------
(* The self-destruction timer is never armed where it could fire.          *)
\* A step that arms no self-destruction timer and moves no thread that has one.
LEMMA ArmedFrame ==
  ASSUME ArmedInLaunch,
         \A n \in Worker : "selfdestruct" \in timers'[n] => "selfdestruct" \in timers[n],
         \A n \in Worker : wpc[n] \in {"launched", "gone"} => wpc'[n] \in {"launched", "gone"}
  PROVE  ArmedInLaunch'
BY DEF ArmedInLaunch

\* A step of a worker's thread.
LEMMA WorkerStepArmed ==
  ASSUME WorkerTypeOK, ArmedInLaunch, NEW n \in Worker, WorkerStep(n)
  PROVE  ArmedInLaunch'
<1>t. timers \in [Worker -> SUBSET Timer] /\ wpc \in [Worker -> Place]
  BY DEF WorkerTypeOK
<1>1. ASSUME NEW set, timers' = [timers EXCEPT ![n] = set],
             "selfdestruct" \in set => "selfdestruct" \in timers[n], UNCHANGED wpc
      PROVE  ArmedInLaunch'
  BY <1>t, <1>1, ArmedFrame
<1>2. ASSUME UNCHANGED <<timers, wpc>>
      PROVE  ArmedInLaunch'
  BY <1>2, ArmedFrame
<1>3. \A ok \in BOOLEAN : FinishTimers(n, ok) \subseteq timers[n]
  BY DEF FinishTimers
<1>4. ASSUME NEW box, NEW armed, SetStop(n, box, armed),
             "selfdestruct" \in armed => "selfdestruct" \in timers[n]
      PROVE  ArmedInLaunch'
  <2>1. \/ \E ok \in BOOLEAN : timers' = [timers EXCEPT ![n] = armed \cap FinishTimers(n, ok)]
        \/ timers' = [timers EXCEPT ![n] = armed]
    BY <1>4, Zenon DEF SetStop
  <2>2. UNCHANGED wpc
    BY <1>4 DEF SetStop
  <2> QED  BY <1>1, <1>4, <2>1, <2>2
<1>5. CASE Launch(n)
  BY <1>t, <1>5 DEF Launch, ArmedInLaunch
<1>6. CASE EnterLoop(n)
  BY <1>t, <1>6 DEF EnterLoop, TimersInLoop, ArmedInLaunch
<1>7. CASE LaunchFails(n) \/ LaunchFreed(n) \/ LeaveLoop(n) \/ ThreadEnds(n)
  <2>1. /\ UNCHANGED timers /\ wpc[n] \notin {"launched", "gone"}
        /\ \E place : wpc' = [wpc EXCEPT ![n] = place]
    BY <1>7 DEF LaunchFails, LaunchFreed, LeaveLoop, ThreadEnds
  <2> QED  BY <1>t, <2>1, ArmedFrame
<1>8. CASE OnRestart(n)
  <2>1. /\ timers' = [timers EXCEPT ![n] = @ \ {"restart"}]
        /\ wpc' = [wpc EXCEPT ![n] = "delay"]
        /\ wpc[n] \notin {"launched", "gone"}
    BY <1>8 DEF OnRestart, Dispatching
  <2> QED  BY <1>t, <2>1, ArmedFrame
<1>9. CASE RunSetStop(n)
  BY <1>4, <1>9 DEF RunSetStop
<1>10. CASE RunSetReStart(n)
  BY <1>1, <1>10 DEF RunSetReStart
<1>11. CASE RunDelete(n)
  BY <1>1, <1>11 DEF RunDelete
<1>12. CASE OnNoStdout(n)
  <2> DEFINE armed == timers[n] \ {"stdout"}
  <2>1. \/ SetStop(n, inbox[n], armed)
        \/ timers' = [timers EXCEPT ![n] = armed] /\ UNCHANGED wpc
    BY <1>12 DEF OnNoStdout
  <2> QED  BY <1>1, <1>4, <2>1
<1>13. CASE ReadyReadStdOut(n)
  BY <1>1, <1>13 DEF ReadyReadStdOut
<1>14. CASE ReadyReadStdErr(n)
  BY <1>2, <1>14 DEF ReadyReadStdErr
<1>15. CASE Iperf2Ended(n)
  BY <1>4, <1>15 DEF Iperf2Ended
<1>16. ASSUME NEW ok \in BOOLEAN, ProcessExits(n, ok) \/ OrphanExits(n, ok)
       PROVE  ArmedInLaunch'
  <2>1. /\ UNCHANGED wpc
        /\ timers' = [timers EXCEPT ![n] = FinishTimers(n, ok)] \/ UNCHANGED timers
    BY <1>16 DEF ProcessExits, OrphanExits, OnFinished
  <2> QED  BY <1>1, <1>2, <1>3, <2>1
<1> QED
  BY <1>5, <1>6, <1>7, <1>8, <1>9, <1>10, <1>11, <1>12, <1>13, <1>14, <1>15, <1>16
     DEF WorkerStep

\* Every step leaves the self-destruction timer armed in waitForStarted at most.
LEMMA NextArmed ==
  ASSUME TypeOK, ArmedInLaunch, [Next]_vars
  PROVE  ArmedInLaunch'
<1>t. /\ timers \in [Worker -> SUBSET Timer] /\ wpc \in [Worker -> Place]
      /\ WorkerTypeOK
  BY DEF TypeOK, WorkerTypeOK
<1>1. ASSUME UNCHANGED <<timers, wpc>>
      PROVE  ArmedInLaunch'
  BY <1>1, ArmedFrame
<1>2. CASE Accept
  <2>1. ASSUME NEW m \in Mode, StartAll(m)
        PROVE  ArmedInLaunch'
    <3>1. UNCHANGED timers /\ \A n \in Worker : wpc'[n] = wpc[n] \/ wpc[n] = "idle"
      BY <2>1 DEF StartAll, Startable
    <3> QED  BY <3>1, ArmedFrame
  <2>2. ASSUME NEW m \in Mode, Add(m) \/ Restart(m)
        PROVE  UNCHANGED <<timers, wpc>>
    BY <2>2 DEF Add, Restart
  <2>3. StopAll \/ Clear => UNCHANGED <<timers, wpc>>
    BY DEF StopAll, Clear
  <2> QED  BY <1>1, <1>2, <2>1, <2>2, <2>3 DEF Accept
<1>3. CASE HandleEvent
  BY <1>1, <1>3 DEF HandleEvent, OnReport, OnIperfFinished, HandleWorkerFinished, Del
<1>4. CASE Blocked
  <2>1. ASSUME NEW timeout \in BOOLEAN, DelJoined(timeout)
        PROVE  ArmedInLaunch'
    <3>1. UNCHANGED timers /\ wpc' = [wpc EXCEPT ![mpc.of] = "gone"]
      BY <2>1 DEF DelJoined
    <3> QED  BY <1>t, <3>1, ArmedFrame
  <2>2. ASSUME NEW m \in Mode, ClearWorker(m)
        PROVE  ArmedInLaunch'
    <3>1. UNCHANGED wpc /\ \E n : timers' = [timers EXCEPT ![n] = {}]
      BY <2>2 DEF ClearWorker
    <3> QED  BY <1>t, <3>1, ArmedFrame
  <2>3. ASSUME NEW m \in Mode, ClearThreads(m) \/ JoinThread(m) \/ JoinDone(m)
        PROVE  UNCHANGED <<timers, wpc>>
    BY <2>3 DEF ClearThreads, JoinThread, JoinDone, workerVars
  <2> QED  BY <1>1, <1>4, <2>1, <2>2, <2>3 DEF Blocked
<1>5. CASE Run
  BY <1>5, <1>t, WorkerStepArmed DEF Run
<1>6. CASE UNCHANGED vars
  BY <1>1, <1>6 DEF vars, workerVars
<1> QED  BY <1>2, <1>3, <1>4, <1>5, <1>6 DEF Next

\* onSelfDestructor is never called: the timer that would call it is stopped by
\* work() before the worker's thread can take a timer event.
THEOREM SelfDestructionNeverFires == Spec => []SelfDestructionUnarmed
<1>1. Init => ArmedInLaunch
  BY DEF Init, WorkerInit, ArmedInLaunch
<1>2. TypeOK /\ ArmedInLaunch /\ [Next]_vars => ArmedInLaunch'
  BY NextArmed
<1>3. ArmedInLaunch => SelfDestructionUnarmed
  BY DEF ArmedInLaunch, SelfDestructionUnarmed, Dispatching
<1> QED  BY <1>1, <1>2, <1>3, TypeCorrect, PTL DEF Spec

-----------------------------------------------------------------------------
(***************************************************************************)
(* STOPED is the last that a console hears of a row, as long as no RESTART *)
(* is sent.  A restart makes a worker announce its iperf again, and is     *)
(* meant to.                                                               *)
(***************************************************************************)

\* No restart is on its way to a worker.
NoRestart ==
  \A n \in Worker :
    /\ "restart" \notin timers[n]
    /\ \A i \in 1..Len(inbox[n]) : inbox[n][i] # "setReStart"

\* A process that m_iperf does not name has nobody to report its end to.
OrphansFreed == \A n \in Worker : orphan[n] > 0 => obj[n] = "deleted"

\* The process starts when work() gets past its start delay.
NotUpYet == \A n \in Worker : wpc[n] \in {"idle", "delay"} => proc[n] # "up"

\* Where the two emissions of started() are still to come.
Early == {"idle", "delay", "launched"}

\* Until then nobody has heard, or will hear, that the row stopped.
NotFinished ==
  \A n \in Worker :
    wpc[n] \in Early =>
      /\ "stoped" \notin told[n]
      /\ \A i \in 1..Len(events) : events[i].from = n => events[i].sig # "finished"

\* No started() is queued behind the finished() of its worker.
StartedFirst ==
  \A i, j \in 1..Len(events) :
    i < j /\ events[i].sig = "finished" /\ events[j].sig = "started" =>
      events[i].from # events[j].from

QuietInv == NoRestart /\ OrphansFreed /\ NotUpYet
OrderInv == NotFinished /\ StartedFirst /\ StopedIsLast
StopedInv == QuietInv /\ OrderInv

-----------------------------------------------------------------------------
(* The queue of signals.                                                   *)
E == [sig : Signal, from : Worker]

\* The shape of the state that the order of signals depends on.
LEMMA OrderTypes ==
  ASSUME TypeOK
  PROVE  /\ events \in Seq(E)
         /\ wpc \in [Worker -> Place]
         /\ \A i \in 1..Len(events) : events[i] \in E
         /\ DOMAIN told = Worker
<1>1. events \in Seq(E) /\ wpc \in [Worker -> Place] /\ DOMAIN told = Worker
  BY DEF TypeOK, WorkerTypeOK, E
<1>2. \A i \in 1..Len(events) : events[i] \in E
  BY <1>1
<1> QED  BY <1>1, <1>2

\* A step that emits nothing and moves no thread back.
LEMMA OrderFrame ==
  ASSUME OrderInv, UNCHANGED <<events, told>>,
         \A n \in Worker : wpc'[n] \in Early => wpc[n] \in Early
  PROVE  OrderInv'
BY DEF OrderInv, NotFinished, StartedFirst, StopedIsLast

\* A step of worker n that emits the signals s: started() only while it is
\* early, and finished() only when it no longer is.
LEMMA OrderEmit ==
  ASSUME OrderInv, events \in Seq(E), NEW n \in Worker, NEW s \in Seq(E),
         events' = events \o s, UNCHANGED told,
         \A m \in Worker : wpc'[m] \in Early => wpc[m] \in Early,
         \A i \in 1..Len(s) :
           /\ s[i].from = n
           /\ s[i].sig = "started" => wpc[n] \in Early /\ Len(s) = 1
           /\ s[i].sig = "finished" => wpc'[n] \notin Early
  PROVE  OrderInv'
<1>1. /\ Len(events') = Len(events) + Len(s)
      /\ \A i \in 1..Len(events) : events'[i] = events[i]
      /\ \A i \in 1..Len(events') :
           i \notin 1..Len(events) => i - Len(events) \in 1..Len(s) /\ events'[i] = s[i - Len(events)]
  OBVIOUS
<1>2. NotFinished'
  <2> SUFFICES ASSUME NEW m \in Worker, wpc'[m] \in Early
               PROVE  /\ "stoped" \notin told'[m]
                      /\ \A i \in 1..Len(events') : events'[i].from = m => events'[i].sig # "finished"
    BY DEF NotFinished
  <2>1. /\ "stoped" \notin told[m]
        /\ \A i \in 1..Len(events) : events[i].from = m => events[i].sig # "finished"
    BY DEF OrderInv, NotFinished
  <2>2. ASSUME NEW i \in 1..Len(events'), events'[i].from = m
        PROVE  events'[i].sig # "finished"
    <3>1. CASE i \in 1..Len(events)
      BY <1>1, <2>1, <2>2, <3>1
    <3>2. CASE i \notin 1..Len(events)
      BY <1>1, <2>2, <3>2
    <3> QED  BY <3>1, <3>2
  <2> QED  BY <2>1, <2>2
<1>3. StartedFirst'
  <2> SUFFICES ASSUME NEW i \in 1..Len(events'), NEW j \in 1..Len(events'), i < j,
                      events'[i].sig = "finished", events'[j].sig = "started"
               PROVE  events'[i].from # events'[j].from
    BY DEF StartedFirst
  <2>1. CASE j \in 1..Len(events)
    <3>1. i \in 1..Len(events)
      BY <2>1
    <3> QED  BY <1>1, <2>1, <3>1 DEF OrderInv, StartedFirst
  <2>2. CASE j \notin 1..Len(events)
    <3>1. j - Len(events) \in 1..Len(s) /\ events'[j] = s[j - Len(events)]
      BY <1>1, <2>2
    <3>2. events'[j].from = n /\ wpc[n] \in Early /\ Len(s) = 1
      BY <3>1
    <3>3. i \in 1..Len(events)
      BY <1>1, <3>1, <3>2
    <3>4. events[i].from # n
      BY <1>1, <3>2, <3>3 DEF OrderInv, NotFinished
    <3> QED  BY <1>1, <3>2, <3>3, <3>4
  <2> QED  BY <2>1, <2>2
<1>4. StopedIsLast'
  <2> SUFFICES ASSUME NEW i \in 1..Len(events'), events'[i].sig = "started"
               PROVE  "stoped" \notin told[events'[i].from]
    BY DEF StopedIsLast
  <2>1. CASE i \in 1..Len(events)
    BY <1>1, <2>1 DEF OrderInv, StopedIsLast
  <2>2. CASE i \notin 1..Len(events)
    <3>1. events'[i].from = n /\ wpc[n] \in Early
      BY <1>1, <2>2
    <3> QED  BY <3>1 DEF OrderInv, NotFinished
  <2> QED  BY <2>1, <2>2
<1> QED  BY <1>2, <1>3, <1>4 DEF OrderInv

\* The main thread takes the next signal and tells the consoles of it.
LEMMA OrderBroadcast ==
  ASSUME TypeOK, OrderInv, events # <<>>, Broadcast, UNCHANGED wpc
  PROVE  OrderInv'
<1> DEFINE e == Head(events)
<1>1. /\ events \in Seq(E) /\ e = events[1] /\ e \in E /\ 1 \in 1..Len(events)
      /\ events' = Tail(events)
      /\ told' = [told EXCEPT ![e.from] = @ \cup Report(e.sig)]
  BY OrderTypes DEF Broadcast
<1>2. /\ \A i \in 1..Len(events') : i + 1 \in 1..Len(events) /\ events'[i] = events[i + 1]
  BY <1>1
<1>3. \A n \in Worker : "stoped" \in told'[n] =>
        "stoped" \in told[n] \/ (n = e.from /\ e.sig = "finished")
  <2>1. e.sig \in Signal
    BY <1>1 DEF E
  <2>2. "stoped" \in Report(e.sig) => e.sig = "finished"
    BY <2>1 DEF Report, Signal
  <2> QED  BY <1>1, <2>2, OrderTypes
<1> HIDE DEF e
<1>4. NotFinished'
  <2> SUFFICES ASSUME NEW n \in Worker, wpc[n] \in Early
               PROVE  /\ "stoped" \notin told'[n]
                      /\ \A i \in 1..Len(events') : events'[i].from = n => events'[i].sig # "finished"
    BY DEF NotFinished
  <2>1. /\ "stoped" \notin told[n]
        /\ \A i \in 1..Len(events) : events[i].from = n => events[i].sig # "finished"
    BY DEF OrderInv, NotFinished
  <2> QED  BY <1>1, <1>2, <1>3, <2>1
<1>5. StartedFirst'
  <2> SUFFICES ASSUME NEW i \in 1..Len(events'), NEW j \in 1..Len(events'), i < j,
                      events'[i].sig = "finished", events'[j].sig = "started"
               PROVE  events'[i].from # events'[j].from
    BY DEF StartedFirst
  <2>1. i + 1 < j + 1
    OBVIOUS
  <2> QED  BY <1>2, <2>1 DEF OrderInv, StartedFirst
<1>6. StopedIsLast'
  <2> SUFFICES ASSUME NEW i \in 1..Len(events'), events'[i].sig = "started",
                      "stoped" \in told'[events'[i].from]
               PROVE  FALSE
    BY DEF StopedIsLast
  <2>1. events'[i].from \in Worker
    BY <1>2, OrderTypes DEF E
  <2>2. "stoped" \notin told[events'[i].from]
    BY <1>2 DEF OrderInv, StopedIsLast
  <2>3. events'[i].from = e.from /\ e.sig = "finished"
    BY <1>3, <2>1, <2>2
  <2>4. 1 < i + 1
    OBVIOUS
  <2> QED  BY <1>1, <1>2, <2>3, <2>4 DEF OrderInv, StartedFirst
<1> QED  BY <1>4, <1>5, <1>6 DEF OrderInv

-----------------------------------------------------------------------------
(* The steps of a worker's thread.                                         *)
\* What the helpers leave alone, and what they emit.
LEMMA QuietHelpers ==
  ASSUME NEW n \in Worker
  PROVE  /\ \A ok \in BOOLEAN : FinishTimers(n, ok) \subseteq timers[n]
         /\ \A box : PostTo(box, n, "delete") = box \/ PostTo(box, n, "delete") = Append(box, "delete")
         /\ \A ok \in BOOLEAN : FinishSignals(n, ok) \in
              {<<>>, <<Ev("finished", n)>>, <<Ev("extend", n)>>}
BY DEF FinishTimers, PostTo, FinishSignals

\* setStop() asks for no restart and starts nothing.
LEMMA SetStopQuiet ==
  ASSUME WorkerTypeOK, QuietInv, NEW n \in Worker, NEW box \in Seq(Post), NEW armed,
         SetStop(n, box, armed), "restart" \notin armed,
         \A i \in 1..Len(box) : box[i] # "setReStart"
  PROVE  QuietInv'
<1>t. /\ timers \in [Worker -> SUBSET Timer] /\ inbox \in [Worker -> Seq(Post)]
      /\ proc \in [Worker -> {"none", "made", "up", "down"}]
  BY DEF WorkerTypeOK
<1>1. UNCHANGED <<wpc, orphan, obj>>
  BY DEF SetStop
<1>2. \E set : timers' = [timers EXCEPT ![n] = set] /\ "restart" \notin set
  <2>1. \/ \E ok \in BOOLEAN : timers' = [timers EXCEPT ![n] = armed \cap FinishTimers(n, ok)]
        \/ timers' = [timers EXCEPT ![n] = armed]
    BY Zenon DEF SetStop
  <2> QED  BY <2>1
<1>3. \E b \in Seq(Post) : /\ inbox' = [inbox EXCEPT ![n] = b]
                           /\ \A i \in 1..Len(b) : b[i] # "setReStart"
  <2>1. "delete" \in Post
    BY DEF Post
  <2> DEFINE b == PostTo(box, n, "delete")
  <2>2. inbox' = [inbox EXCEPT ![n] = b]
    BY DEF SetStop
  <2>3. b = box \/ b = Append(box, "delete")
    BY QuietHelpers
  <2> HIDE DEF b
  <2>4. b \in Seq(Post) /\ \A i \in 1..Len(b) : b[i] # "setReStart"
    BY <2>1, <2>3
  <2> QED  BY <2>2, <2>4
<1>4. proc' = proc \/ proc' = [proc EXCEPT ![n] = "down"]
  BY DEF SetStop
<1>5. NoRestart'
  BY <1>t, <1>2, <1>3 DEF QuietInv, NoRestart
<1>6. OrphansFreed'
  BY <1>1 DEF QuietInv, OrphansFreed
<1>7. NotUpYet'
  BY <1>t, <1>1, <1>4 DEF QuietInv, NotUpYet
<1> QED  BY <1>5, <1>6, <1>7 DEF QuietInv

\* A step that changes none of what QuietInv is about, but for lesser timers,
\* threads that get past work(), and processes that end.
LEMMA QuietFrame ==
  ASSUME QuietInv, UNCHANGED <<orphan, inbox>>,
         \A n \in Worker :
           /\ "restart" \in timers'[n] => "restart" \in timers[n]
           /\ obj[n] = "deleted" => obj'[n] = "deleted"
           /\ wpc'[n] \in {"idle", "delay"} => proc'[n] # "up"
  PROVE  QuietInv'
BY DEF QuietInv, NoRestart, OrphansFreed, NotUpYet

\* Every step of a worker's thread keeps it quiet.
LEMMA WorkerStepQuiet ==
  ASSUME WorkerTypeOK, QuietInv, NEW n \in Worker, WorkerStep(n)
  PROVE  QuietInv'
<1>t. /\ timers \in [Worker -> SUBSET Timer] /\ inbox \in [Worker -> Seq(Post)]
      /\ proc \in [Worker -> {"none", "made", "up", "down"}]
      /\ wpc \in [Worker -> Place] /\ orphan \in [Worker -> Nat]
      /\ obj \in [Worker -> {"alive", "deleted"}]
  BY DEF WorkerTypeOK
<1>q. /\ \A m \in Worker : /\ "restart" \notin timers[m]
                           /\ \A i \in 1..Len(inbox[m]) : inbox[m][i] # "setReStart"
                           /\ orphan[m] > 0 => obj[m] = "deleted"
                           /\ wpc[m] \in {"idle", "delay"} => proc[m] # "up"
  BY DEF QuietInv, NoRestart, OrphansFreed, NotUpYet
<1>1. CASE Launch(n)
  BY <1>t, <1>q, <1>1, QuietFrame DEF Launch
<1>2. CASE LaunchFails(n)
  BY <1>t, <1>q, <1>2, QuietFrame DEF LaunchFails
<1>3. CASE LaunchFreed(n)
  <2>1. NoRestart'
    BY <1>3, <1>q DEF LaunchFreed, NoRestart
  <2>2. OrphansFreed'
    BY <1>t, <1>q, <1>3 DEF LaunchFreed, OrphansFreed
  <2>3. NotUpYet'
    BY <1>t, <1>q, <1>3 DEF LaunchFreed, NotUpYet
  <2> QED  BY <2>1, <2>2, <2>3 DEF QuietInv
<1>4. CASE EnterLoop(n)
  BY <1>t, <1>q, <1>4, QuietFrame DEF EnterLoop, TimersInLoop
<1>5. CASE LeaveLoop(n)
  BY <1>t, <1>q, <1>5, QuietFrame DEF LeaveLoop
<1>6. CASE RunSetStop(n)
  <2>1. inbox[n] \in Seq(Post) /\ inbox[n] # <<>> /\ SetStop(n, Tail(inbox[n]), timers[n])
    BY <1>t, <1>6 DEF RunSetStop
  <2>2. /\ Tail(inbox[n]) \in Seq(Post)
        /\ \A i \in 1..Len(Tail(inbox[n])) : Tail(inbox[n])[i] # "setReStart"
    BY <1>q, <2>1
  <2> QED  BY <1>q, <2>1, <2>2, SetStopQuiet
<1>7. CASE RunSetReStart(n)
  <2>1. inbox[n] \in Seq(Post) /\ inbox[n] # <<>> /\ Head(inbox[n]) = "setReStart"
    BY <1>t, <1>7 DEF RunSetReStart
  <2>2. inbox[n][1] = "setReStart" /\ 1 \in 1..Len(inbox[n])
    BY <2>1
  <2> QED  BY <1>q, <2>2
<1>8. CASE RunDelete(n)
  <2>1. /\ obj' = [obj EXCEPT ![n] = "deleted"]
        /\ inbox' = [inbox EXCEPT ![n] = <<>>]
        /\ timers' = [timers EXCEPT ![n] = {}]
        /\ UNCHANGED wpc
    BY <1>8 DEF RunDelete
  <2>2. proc' = proc \/ proc' = [proc EXCEPT ![n] = "down"]
    BY <1>8, Zenon DEF RunDelete
  <2>3. \A m \in Worker : m # n => orphan'[m] = orphan[m]
    BY <1>t, <1>8 DEF RunDelete
  <2>4. NoRestart'
    BY <1>t, <1>q, <2>1 DEF NoRestart
  <2>5. OrphansFreed'
    BY <1>t, <1>q, <2>1, <2>3 DEF OrphansFreed
  <2>6. NotUpYet'
    BY <1>t, <1>q, <2>1, <2>2 DEF NotUpYet
  <2> QED  BY <2>4, <2>5, <2>6 DEF QuietInv
<1>9. CASE ThreadEnds(n)
  <2>1. /\ wpc' = [wpc EXCEPT ![n] = "gone"] /\ UNCHANGED <<proc, orphan, timers>>
        /\ \/ obj' = [obj EXCEPT ![n] = "deleted"] /\ inbox' = [inbox EXCEPT ![n] = <<>>]
           \/ UNCHANGED <<obj, inbox>>
    BY <1>9, Zenon DEF ThreadEnds
  <2>2. NoRestart'
    BY <1>t, <1>q, <2>1 DEF NoRestart
  <2>3. OrphansFreed'
    BY <1>t, <1>q, <2>1 DEF OrphansFreed
  <2>4. NotUpYet'
    BY <1>t, <1>q, <2>1 DEF NotUpYet
  <2> QED  BY <2>2, <2>3, <2>4 DEF QuietInv
<1>10. CASE OnRestart(n)
  BY <1>q, <1>10 DEF OnRestart
<1>11. CASE OnNoStdout(n)
  <2> DEFINE armed == timers[n] \ {"stdout"}
  <2>1. CASE SetStop(n, inbox[n], armed)
    BY <1>t, <1>q, <2>1, SetStopQuiet
  <2>2. CASE timers' = [timers EXCEPT ![n] = armed] /\ UNCHANGED <<wpc, proc, orphan, obj, inbox>>
    BY <1>t, <1>q, <2>2, QuietFrame
  <2> QED  BY <1>11, <2>1, <2>2 DEF OnNoStdout
<1>12. CASE ReadyReadStdOut(n)
  BY <1>t, <1>q, <1>12, QuietFrame DEF ReadyReadStdOut
<1>13. CASE ReadyReadStdErr(n)
  BY <1>t, <1>q, <1>13, QuietFrame DEF ReadyReadStdErr
<1>14. CASE Iperf2Ended(n)
  <2>1. "restart" \notin timers[n] \cup {"stdout"}
    BY <1>q
  <2> QED  BY <1>t, <1>q, <1>14, <2>1, SetStopQuiet DEF Iperf2Ended
<1>15. ASSUME NEW ok \in BOOLEAN, OnFinished(n, ok)
       PROVE  \A m \in Worker : timers'[m] \subseteq timers[m]
  BY <1>t, <1>15, QuietHelpers DEF OnFinished
<1>16. ASSUME NEW ok \in BOOLEAN, ProcessExits(n, ok)
       PROVE  QuietInv'
  <2>1. /\ \A m \in Worker : timers'[m] \subseteq timers[m]
        /\ proc' = [proc EXCEPT ![n] = "down"] /\ UNCHANGED <<wpc, orphan, obj, inbox>>
    BY <1>15, <1>16 DEF ProcessExits
  <2> QED  BY <1>t, <1>q, <2>1, QuietFrame
<1>17. ASSUME NEW ok \in BOOLEAN, OrphanExits(n, ok)
       PROVE  QuietInv'
  <2>1. /\ \A m \in Worker : timers'[m] \subseteq timers[m]
        /\ orphan' = [orphan EXCEPT ![n] = @ - 1] /\ orphan[n] > 0
        /\ UNCHANGED <<wpc, proc, obj, inbox>>
    BY <1>15, <1>17 DEF OrphanExits
  <2>2. NoRestart'
    BY <1>q, <2>1 DEF NoRestart
  <2>3. OrphansFreed'
    BY <1>t, <1>q, <2>1 DEF OrphansFreed
  <2>4. NotUpYet'
    BY <1>q, <2>1 DEF NotUpYet
  <2> QED  BY <2>2, <2>3, <2>4 DEF QuietInv
<1> QED
  BY <1>1, <1>2, <1>3, <1>4, <1>5, <1>6, <1>7, <1>8, <1>9, <1>10, <1>11, <1>12, <1>13,
     <1>14, <1>16, <1>17 DEF WorkerStep

\* setStop() reports no start, and an end only for an iperf that ran.
LEMMA SetStopOrder ==
  ASSUME TypeOK, QuietInv, OrderInv, NEW n \in Worker, NEW box, NEW armed,
         SetStop(n, box, armed), wpc[n] # "launched", UNCHANGED told
  PROVE  OrderInv'
<1>t. events \in Seq(E) /\ wpc \in [Worker -> Place]
  BY OrderTypes
<1>1. UNCHANGED wpc
  BY DEF SetStop
<1>2. /\ Ev("finished", n) \in E /\ Ev("extend", n) \in E /\ Ev("workerFinished", n) \in E
      /\ \A s \in Signal : Ev(s, n).sig = s /\ Ev(s, n).from = n
  BY DEF Ev, E, Signal
<1>3. CASE proc[n] = "up" /\ \E ok \in BOOLEAN :
             events' = events \o FinishSignals(n, ok) \o <<Ev("workerFinished", n)>>
  <2>1. PICK ok \in BOOLEAN :
          events' = events \o FinishSignals(n, ok) \o <<Ev("workerFinished", n)>>
    BY <1>3
  <2>2. wpc[n] \notin Early
    BY <1>3 DEF QuietInv, NotUpYet, Early
  <2> DEFINE s == FinishSignals(n, ok) \o <<Ev("workerFinished", n)>>
  <2>3. FinishSignals(n, ok) \in {<<>>, <<Ev("finished", n)>>, <<Ev("extend", n)>>}
    BY QuietHelpers
  <2>4. FinishSignals(n, ok) \in Seq(E)
    <3>1. <<>> \in Seq(E) /\ <<Ev("finished", n)>> \in Seq(E) /\ <<Ev("extend", n)>> \in Seq(E)
      BY <1>2
    <3> QED  BY <2>3, <3>1, Zenon
  <2>5. s \in Seq(E) /\ events' = events \o s
    BY <1>t, <1>2, <2>1, <2>4
  <2>6. \A i \in 1..Len(s) : s[i].from = n /\ s[i].sig # "started"
    <3>1. \A i \in 1..Len(s) :
            s[i] \in {Ev("finished", n), Ev("extend", n), Ev("workerFinished", n)}
      BY <1>2, <2>3, <2>4
    <3> QED  BY <1>2, <3>1 DEF Signal
  <2> HIDE DEF s
  <2> QED  BY <1>t, <1>1, <2>2, <2>5, <2>6, OrderEmit
<1>4. CASE events' = Append(events, Ev("workerFinished", n))
  <2> DEFINE s == <<Ev("workerFinished", n)>>
  <2>1. s \in Seq(E) /\ events' = events \o s
    BY <1>t, <1>2, <1>4
  <2>2. \A i \in 1..Len(s) : s[i].from = n /\ s[i].sig = "workerFinished"
    BY <1>2 DEF Signal
  <2> HIDE DEF s
  <2> QED  BY <1>t, <1>1, <2>1, <2>2, OrderEmit
<1> QED  BY <1>3, <1>4, Zenon DEF SetStop

\* Every step of a worker's thread keeps the order of its signals.
LEMMA WorkerStepOrder ==
  ASSUME TypeOK, QuietInv, OrderInv, NEW n \in Worker, WorkerStep(n), UNCHANGED told
  PROVE  OrderInv'
<1>t. events \in Seq(E) /\ wpc \in [Worker -> Place]
  BY OrderTypes
<1>2. \A s \in Signal : Ev(s, n) \in E /\ Ev(s, n).sig = s /\ Ev(s, n).from = n
  BY DEF Ev, E
<1>q. wpc[n] \in {"idle", "delay"} => proc[n] # "up"
  BY DEF QuietInv, NotUpYet
<1>3. ASSUME NEW sig \in Signal, events' = Append(events, Ev(sig, n)),
             \A m \in Worker : wpc'[m] \in Early => wpc[m] \in Early,
             sig = "started" => wpc[n] \in Early, sig # "finished"
      PROVE  OrderInv'
  <2> DEFINE s == <<Ev(sig, n)>>
  <2>1. s \in Seq(E) /\ events' = events \o s /\ Len(s) = 1
    BY <1>t, <1>2, <1>3
  <2>2. \A i \in 1..Len(s) : s[i].from = n /\ s[i].sig = sig
    BY <1>2
  <2> HIDE DEF s
  <2> QED  BY <1>t, <1>3, <2>1, <2>2, OrderEmit
<1>4. ASSUME UNCHANGED events, \E place \in Place \ {"delay"} : wpc' = [wpc EXCEPT ![n] = place],
             wpc[n] \in Early \/ \A m \in Worker : wpc'[m] \notin Early \/ m # n
      PROVE  OrderInv'
  BY <1>t, <1>4, OrderFrame
<1>5. CASE Launch(n)
  <2> DEFINE sig == IF again[n] THEN "restarted" ELSE "started"
  <2>1. events' = Append(events, Ev(sig, n)) /\ wpc' = [wpc EXCEPT ![n] = "launched"] /\ wpc[n] = "delay"
    BY <1>5 DEF Launch
  <2>2. sig \in Signal /\ sig # "finished"
    BY DEF Signal
  <2> HIDE DEF sig
  <2> QED  BY <1>t, <1>3, <2>1, <2>2 DEF Early
<1>6. CASE LaunchFails(n) \/ LaunchFreed(n) \/ LeaveLoop(n) \/ ThreadEnds(n)
  <2>1. UNCHANGED events /\ \E place \in {"loop", "exec", "gone"} : wpc' = [wpc EXCEPT ![n] = place]
    BY <1>6 DEF LaunchFails, LaunchFreed, LeaveLoop, ThreadEnds
  <2> QED  BY <1>t, <2>1, OrderFrame DEF Early
<1>7. CASE EnterLoop(n)
  <2>1. events' = Append(events, Ev("started", n)) /\ wpc' = [wpc EXCEPT ![n] = "loop"] /\ wpc[n] = "launched"
    BY <1>7 DEF EnterLoop
  <2> QED  BY <1>t, <1>3, <2>1 DEF Early, Signal
<1>8. CASE RunSetStop(n)
  BY <1>8, SetStopOrder DEF RunSetStop, Dispatching
<1>9. CASE RunSetReStart(n) \/ RunDelete(n) \/ ReadyReadStdOut(n)
  <2>1. UNCHANGED <<events, wpc>>
    BY <1>9 DEF RunSetReStart, RunDelete, ReadyReadStdOut
  <2> QED  BY <2>1, OrderFrame
<1>10. CASE OnRestart(n)
  BY <1>10 DEF OnRestart, QuietInv, NoRestart
<1>11. CASE OnNoStdout(n)
  <2>1. \/ SetStop(n, inbox[n], timers[n] \ {"stdout"})
        \/ UNCHANGED <<events, wpc>>
    BY <1>11 DEF OnNoStdout
  <2>2. wpc[n] # "launched"
    BY <1>11 DEF OnNoStdout, Dispatching
  <2> QED  BY <2>1, <2>2, OrderFrame, SetStopOrder
<1>12. CASE ReadyReadStdErr(n)
  <2>1. events' = Append(events, Ev("stderr", n)) /\ UNCHANGED wpc
    BY <1>12 DEF ReadyReadStdErr
  <2> QED  BY <1>3, <2>1 DEF Signal
<1>13. CASE Iperf2Ended(n)
  BY <1>13, SetStopOrder DEF Iperf2Ended, Dispatching
<1>14. ASSUME NEW ok \in BOOLEAN, OnFinished(n, ok), UNCHANGED wpc, wpc[n] \notin Early
       PROVE  OrderInv'
  <2> DEFINE s == FinishSignals(n, ok)
  <2>1. s \in {<<>>, <<Ev("finished", n)>>, <<Ev("extend", n)>>}
    BY QuietHelpers
  <2>2. \A e \in {Ev("finished", n), Ev("extend", n)} :
          e \in E /\ e.from = n /\ e.sig # "started"
    BY DEF Ev, E, Signal
  <2>3. s \in Seq(E) /\ \A i \in 1..Len(s) : s[i].from = n /\ s[i].sig # "started"
    <3> HIDE DEF s
    <3>1. CASE s = <<>>
      BY <3>1
    <3>2. ASSUME NEW e \in {Ev("finished", n), Ev("extend", n)}, s = <<e>>
          PROVE  s \in Seq(E) /\ \A i \in 1..Len(s) : s[i].from = n /\ s[i].sig # "started"
      <4>1. e \in E /\ e.from = n /\ e.sig # "started"
        BY <2>2
      <4> QED  BY <3>2, <4>1
    <3> QED  BY <2>1, <3>1, <3>2, Zenon
  <2>4. events' = events \o s
    BY <1>14 DEF OnFinished
  <2> HIDE DEF s
  <2> QED  BY <1>t, <1>14, <2>3, <2>4, OrderEmit
<1>15. ASSUME NEW ok \in BOOLEAN, ProcessExits(n, ok)
       PROVE  OrderInv'
  <2>1. wpc[n] \notin Early
    BY <1>q, <1>15 DEF ProcessExits, Dispatching, Early
  <2> QED  BY <1>14, <1>15, <2>1 DEF ProcessExits
<1>16. ASSUME NEW ok \in BOOLEAN, OrphanExits(n, ok)
       PROVE  OrderInv'
  <2>1. obj[n] = "deleted" /\ ~Dispatching(n)
    BY <1>16 DEF OrphanExits, QuietInv, OrphansFreed, Dispatching
  <2>2. UNCHANGED <<events, wpc>>
    BY <1>16, <2>1 DEF OrphanExits
  <2> QED  BY <2>2, OrderFrame
<1> QED
  BY <1>5, <1>6, <1>7, <1>8, <1>9, <1>10, <1>11, <1>12, <1>13, <1>15, <1>16 DEF WorkerStep

-----------------------------------------------------------------------------
(* The steps of the main thread.                                           *)
\* Events posted by a command other than RESTART ask for no restart.
LEMMA PostedQuiet ==
  ASSUME WorkerTypeOK, NoRestart, NEW S, NEW sigs \in Seq(Post),
         \A i \in 1..Len(sigs) : sigs[i] # "setReStart"
  PROVE  \A n \in Worker : \A i \in 1..Len(Posted(S, sigs)[n]) :
           Posted(S, sigs)[n][i] # "setReStart"
<1> SUFFICES ASSUME NEW n \in Worker
             PROVE  \A i \in 1..Len(Posted(S, sigs)[n]) : Posted(S, sigs)[n][i] # "setReStart"
  OBVIOUS
<1>1. Posted(S, sigs)[n] = inbox[n] \/ Posted(S, sigs)[n] = inbox[n] \o sigs
  BY DEF Posted
<1>2. inbox[n] \in Seq(Post) /\ \A i \in 1..Len(inbox[n]) : inbox[n][i] # "setReStart"
  BY DEF WorkerTypeOK, NoRestart
<1>3. \A i \in 1..Len(inbox[n] \o sigs) : (inbox[n] \o sigs)[i] # "setReStart"
  BY <1>2
<1> QED  BY <1>1, <1>2, <1>3

\* Without RESTART, every step keeps the workers quiet.
LEMMA NextQuiet ==
  ASSUME QIperfdAssumption, WorkerAssumption, "RESTART" \notin Commands,
         TypeOK, QuietInv, [Next]_vars
  PROVE  QuietInv'
<1>t. /\ timers \in [Worker -> SUBSET Timer] /\ inbox \in [Worker -> Seq(Post)]
      /\ proc \in [Worker -> {"none", "made", "up", "down"}]
      /\ wpc \in [Worker -> Place]
      /\ obj \in [Worker -> {"alive", "deleted"}]
      /\ WorkerTypeOK
  BY DEF TypeOK, WorkerTypeOK
<1>q. /\ \A m \in Worker : /\ "restart" \notin timers[m]
                           /\ \A i \in 1..Len(inbox[m]) : inbox[m][i] # "setReStart"
                           /\ wpc[m] \in {"idle", "delay"} => proc[m] # "up"
      /\ NoRestart
  BY DEF QuietInv, NoRestart, NotUpYet
<1>1. ASSUME UNCHANGED <<timers, wpc, proc, orphan, obj, inbox>>
      PROVE  QuietInv'
  BY <1>1 DEF QuietInv, NoRestart, OrphansFreed, NotUpYet
<1>2. ASSUME NEW S, NEW sigs \in Seq(Post), \A i \in 1..Len(sigs) : sigs[i] # "setReStart",
             inbox' = Posted(S, sigs), UNCHANGED <<timers, wpc, proc, orphan, obj>>
      PROVE  QuietInv'
  <2>1. \A n \in Worker : \A i \in 1..Len(inbox'[n]) : inbox'[n][i] # "setReStart"
    <3>1. \A n \in Worker : \A i \in 1..Len(Posted(S, sigs)[n]) :
            Posted(S, sigs)[n][i] # "setReStart"
      BY <1>t, <1>q, <1>2, PostedQuiet
    <3> QED  BY <1>2, <3>1, Zenon
  <2>2. NoRestart'
    BY <1>q, <1>2, <2>1 DEF NoRestart
  <2> QED  BY <1>2, <2>2 DEF QuietInv, OrphansFreed, NotUpYet
<1>3. ASSUME NEW m \in Mode, inbox' = StopSignal(m), UNCHANGED <<timers, wpc, proc, orphan, obj>>
      PROVE  QuietInv'
  <2>1. /\ <<"setStop">> \in Seq(Post)
        /\ \A i \in 1..Len(<<"setStop">>) : <<"setStop">>[i] # "setReStart"
    BY DEF Post
  <2>2. inbox' = inbox \/ inbox' = Posted(1..born, <<"setStop">>)
    BY <1>3 DEF StopSignal
  <2> QED  BY <1>1, <1>2, <1>3, <2>1, <2>2
<1>4. ASSUME NEW m \in Mode, StartAll(m)
      PROVE  QuietInv'
  <2>1. /\ UNCHANGED <<timers, orphan, obj, inbox>>
        /\ \A n \in Worker : \/ wpc'[n] = wpc[n] /\ proc'[n] = proc[n]
                             \/ wpc'[n] = "delay" /\ proc'[n] = "made"
    BY <1>4 DEF StartAll
  <2> QED  BY <1>q, <2>1, QuietFrame
<1>5. CASE Accept
  <2>1. CASE StopAll
    <3>1. /\ <<"setStop", "setStop">> \in Seq(Post)
          /\ \A i \in 1..Len(<<"setStop", "setStop">>) :
               <<"setStop", "setStop">>[i] # "setReStart"
      BY DEF Post
    <3> QED  BY <1>2, <2>1, <3>1 DEF StopAll
  <2>2. CASE Clear
    BY <1>3, <2>2 DEF Clear, Mode
  <2>3. ASSUME NEW m \in Mode, Add(m)
        PROVE  QuietInv'
    BY <1>1, <2>3 DEF Add
  <2>4. ASSUME NEW m \in Mode, Restart(m)
        PROVE  FALSE
    BY <2>4 DEF Restart, Command
  <2> QED  BY <1>4, <1>5, <2>1, <2>2, <2>3, <2>4 DEF Accept
<1>6. CASE HandleEvent
  BY <1>1, <1>6 DEF HandleEvent, OnReport, OnIperfFinished, HandleWorkerFinished, Del
<1>7. CASE Blocked
  <2>1. ASSUME NEW timeout \in BOOLEAN, DelJoined(timeout)
        PROVE  QuietInv'
    <3>1. /\ UNCHANGED <<timers, proc, orphan, obj, inbox>>
          /\ wpc' = [wpc EXCEPT ![mpc.of] = "gone"]
      BY <2>1 DEF DelJoined
    <3> QED  BY <1>t, <1>q, <3>1, QuietFrame
  <2>2. ASSUME NEW m \in Mode, ClearWorker(m)
        PROVE  QuietInv'
    <3>1. PICK n : /\ obj' = [obj EXCEPT ![n] = "deleted"]
                   /\ inbox' = [inbox EXCEPT ![n] = <<>>]
                   /\ timers' = [timers EXCEPT ![n] = {}]
                   /\ UNCHANGED <<wpc, proc, orphan>>
      BY <2>2 DEF ClearWorker
    <3>2. NoRestart'
      <4>1. ASSUME NEW m0 \in Worker
            PROVE  /\ "restart" \notin timers'[m0]
                   /\ \A i \in 1..Len(inbox'[m0]) : inbox'[m0][i] # "setReStart"
        <5>1. \/ timers'[m0] = {} /\ inbox'[m0] = <<>>
              \/ timers'[m0] = timers[m0] /\ inbox'[m0] = inbox[m0]
          BY <1>t, <3>1
        <5> QED  BY <1>q, <5>1
      <4> QED  BY <4>1 DEF NoRestart
    <3>3. OrphansFreed'
      BY <1>t, <3>1 DEF QuietInv, OrphansFreed
    <3>4. NotUpYet'
      BY <1>q, <3>1 DEF NotUpYet
    <3> QED  BY <3>2, <3>3, <3>4 DEF QuietInv
  <2>3. ASSUME NEW m \in Mode, ClearThreads(m) \/ JoinThread(m)
        PROVE  QuietInv'
    BY <1>1, <2>3 DEF ClearThreads, JoinThread, workerVars
  <2>4. ASSUME NEW m \in Mode, JoinDone(m)
        PROVE  QuietInv'
    <3>1. /\ UNCHANGED <<timers, wpc, proc, orphan, obj>>
          /\ inbox' = StopSignal("C") \/ inbox' = inbox
      BY <2>4 DEF JoinDone
    <3> QED  BY <1>1, <1>3, <3>1 DEF Mode
  <2> QED  BY <1>7, <2>1, <2>2, <2>3, <2>4 DEF Blocked
<1>8. CASE Run
  BY <1>8, <1>t, WorkerStepQuiet DEF Run
<1>9. CASE UNCHANGED vars
  BY <1>1, <1>9 DEF vars, workerVars
<1> QED  BY <1>5, <1>6, <1>7, <1>8, <1>9 DEF Next

\* Every step keeps the order of the signals.
LEMMA NextOrder ==
  ASSUME TypeOK, QuietInv, OrderInv, [Next]_vars
  PROVE  OrderInv'
<1>t. events \in Seq(E) /\ wpc \in [Worker -> Place]
  BY OrderTypes
<1>1. ASSUME UNCHANGED <<events, told, wpc>>
      PROVE  OrderInv'
  BY <1>1, OrderFrame
<1>2. CASE Accept
  <2>1. ASSUME NEW m \in Mode, StartAll(m)
        PROVE  OrderInv'
    <3>1. /\ UNCHANGED <<events, told>>
          /\ \A n \in Worker : wpc'[n] = wpc[n] \/ wpc[n] = "idle"
      BY <2>1 DEF StartAll, Startable
    <3> QED  BY <3>1, OrderFrame DEF Early
  <2>2. ASSUME NEW m \in Mode, Add(m) \/ Restart(m)
        PROVE  UNCHANGED <<events, told, wpc>>
    BY <2>2 DEF Add, Restart
  <2>3. StopAll \/ Clear => UNCHANGED <<events, told, wpc>>
    BY DEF StopAll, Clear
  <2> QED  BY <1>1, <1>2, <2>1, <2>2, <2>3 DEF Accept
<1>3. CASE HandleEvent
  <2>1. CASE OnReport \/ OnIperfFinished \/ HandleWorkerFinished
    <3>1. events # <<>> /\ Broadcast /\ UNCHANGED wpc
      BY <2>1 DEF OnReport, OnIperfFinished, HandleWorkerFinished, NextEvent
    <3> QED  BY <3>1, OrderBroadcast
  <2>2. CASE Del
    BY <1>1, <2>2 DEF Del
  <2> QED  BY <1>3, <2>1, <2>2 DEF HandleEvent
<1>4. CASE Blocked
  <2>1. ASSUME NEW timeout \in BOOLEAN, DelJoined(timeout)
        PROVE  OrderInv'
    <3>1. UNCHANGED <<events, told>> /\ wpc' = [wpc EXCEPT ![mpc.of] = "gone"]
      BY <2>1 DEF DelJoined
    <3> QED  BY <1>t, <3>1, OrderFrame DEF Early
  <2>2. ASSUME NEW m \in Mode, ClearWorker(m) \/ ClearThreads(m) \/ JoinThread(m) \/ JoinDone(m)
        PROVE  UNCHANGED <<events, told, wpc>>
    BY <2>2 DEF ClearWorker, ClearThreads, JoinThread, JoinDone, workerVars
  <2> QED  BY <1>1, <1>4, <2>1, <2>2 DEF Blocked
<1>5. CASE Run
  BY <1>5, WorkerStepOrder DEF Run, mainVars
<1>6. CASE UNCHANGED vars
  BY <1>1, <1>6 DEF vars, workerVars, mainVars
<1> QED  BY <1>2, <1>3, <1>4, <1>5, <1>6 DEF Next

\* A console that was told that a row stopped is never told that it started:
\* work() emits started() twice (iperfworker.cpp:422 and :193), and both come
\* before finished() in the queue of the main thread.
THEOREM StopedComesLast == "RESTART" \notin Commands => (Spec => []StopedIsLast)
<1> SUFFICES ASSUME "RESTART" \notin Commands
             PROVE  Spec => []StopedIsLast
  OBVIOUS
<1>1. Init => StopedInv
  BY DEF Init, WorkerInit, StopedInv, QuietInv, OrderInv, NoRestart, OrphansFreed, NotUpYet,
         NotFinished, StartedFirst, StopedIsLast
<1>2. TypeOK /\ StopedInv /\ [Next]_vars => StopedInv'
  BY NextQuiet, NextOrder, QIperfdAssumption, WorkerAssumption DEF StopedInv
<1>3. StopedInv => StopedIsLast
  BY DEF StopedInv, OrderInv
<1> QED  BY <1>1, <1>2, <1>3, TypeCorrect, PTL DEF Spec
=============================================================================
