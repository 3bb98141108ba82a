------------------------------- MODULE QIperfd -------------------------------
(***************************************************************************)
(* qiperfd, the daemon on every endpoint: the registry of the iperf        *)
(* workers and their threads, the commands that consoles send it over the  *)
(* WebSocket, and the slots its workers' signals are queued for.           *)
(*                                                                         *)
(* Everything in QIperfd runs on the main thread, but a handler is not a   *)
(* step of its own: del() and clear() block while workers go on, and       *)
(* WSServer::sendTextResult runs processEvents between two clients, so     *)
(* that other events are handled inside onFinished, before its del().      *)
(***************************************************************************)
EXTENDS IperfWorker

CONSTANTS
  Pairs,        \* [Mode -> Seq(refrow)]: what a console ADDs here, in order
  Commands,     \* the commands consoles send
  SessionOnly,  \* TRUE: ADDs come before the first START, as TPWorker sends
  MaxCmds       \* bound: how many commands come that are not ADD

ASSUME QIperfdAssumption ==
  /\ Pairs \in [Mode -> Seq(Nat)]
  /\ Commands \subseteq {"ADD", "START", "STOP", "RESTART", "CLEAR"}
  /\ SessionOnly \in BOOLEAN
  /\ MaxCmds \in Nat

VARIABLES
  born,      \* how many workers add() has created
  threads,   \* m_thserver and m_threads: idx -> the worker the thread is for
  workers,   \* m_iperfwserver and m_iperfworkers: idx -> worker
  frames,    \* the onFinished calls that have yet to del(), innermost last
  mpc,       \* what the main thread is in the middle of
  told,      \* what the consoles were told of each worker
  ub,        \* the first undefined behaviour of the main thread, or "none"
  cmds       \* how many commands came that were not ADD

mainVars == <<born, threads, workers, frames, mpc, told, ub, cmds>>
vars == <<workerVars, mainVars>>

(* "ready": in an event loop; "del": in del()'s wait(3000) for the thread  *)
(* of worker "of"; the others are the four loops of clear(), in order.     *)
Ready == [at |-> "ready", of |-> 0]
MainPlace == {"ready", "del", "clearS", "joinS", "clearC", "joinC"}

TypeOK ==
  /\ WorkerTypeOK
  /\ born \in 0..MaxWorkers
  /\ DOMAIN threads = Mode /\ DOMAIN workers = Mode
  /\ \A m \in Mode : IsMap(threads[m], Nat, 1..born) /\ IsMap(workers[m], Nat, 1..born)
  /\ frames \in Seq([mode : Mode, refrow : Nat])
  /\ mpc \in [at : MainPlace, of : 0..MaxWorkers]
  /\ told \in [Worker -> SUBSET {"started", "restarted", "stoped", "errored", "extend"}]
  /\ ub \in {"none", "uninit", "dangling", "iterator", "inuse"}
  /\ cmds \in 0..MaxCmds

Init ==
  /\ WorkerInit
  /\ born = 0
  /\ threads = [m \in Mode |-> EmptyMap]
  /\ workers = [m \in Mode |-> EmptyMap]
  /\ frames = <<>>
  /\ mpc = Ready
  /\ told = [n \in Worker |-> {}]
  /\ ub = "none"
  /\ cmds = 0

-----------------------------------------------------------------------------
\* The main thread can take its next event, from exec or from a nested
\* processEvents; after undefined behaviour the model promises nothing.
MainFree == mpc = Ready /\ ub = "none"

Command(c) == MainFree /\ c \in Commands /\ cmds < MaxCmds /\ cmds' = cmds + 1

\* How many pairs of a mode were added.
Added(m) == Cardinality({n \in 1..born : home[n].mode = m})

\* Mutant: index and worker swapped in the insertion.
RegisterSwapped(m, idx, n) ==
  /\ threads' = [threads EXCEPT ![m] = MapInsert(@, idx, n)]
  /\ workers' = [workers EXCEPT ![m] = MapInsert(@, n, idx)]

\* The insertions of add() into the two maps of a mode.
Register(m, idx, n) ==
  /\ threads' = [threads EXCEPT ![m] = MapInsert(@, idx, n)]
  /\ workers' = [workers EXCEPT ![m] = MapInsert(@, idx, n)]

(* CMD_IPERF_ADD, QIperfd::add: the index is the number of threads left in *)
(* the map, and an entry that has that index is replaced.                  *)
Add(m) ==
  /\ MainFree /\ "ADD" \in Commands
  /\ born < MaxWorkers /\ Added(m) < Len(Pairs[m])
  /\ SessionOnly => \A n \in 1..born : wpc[n] = "idle"
  /\ LET n == born + 1
         idx == MapCount(threads[m])
     IN /\ born' = n
        /\ home' = [home EXCEPT ![n] = [mode |-> m, idx |-> idx,
                                        refrow |-> Pairs[m][Added(m) + 1]]]
        /\ Register(m, idx, n)
  /\ UNCHANGED <<wpc, quit, proc, orphan, mstop, again, timers, obj, inbox, events,
                 frames, mpc, told, ub, cmds>>

\* startServer(idx) and start(idx) go through for these indices: the thread
\* does not run yet and the index has a worker.
Startable(m) == {k \in DOMAIN threads[m] : /\ wpc[threads[m][k]] = "idle"
                                           /\ k \in DOMAIN workers[m]}

(* CMD_IPERF_START, QIperfd::startAll: the threads of one mode are started *)
(* and every one of them enters IperfWorker::work.                         *)
StartAll(m) ==
  /\ Command("START")
  /\ LET S == {threads[m][k] : k \in Startable(m)} IN
     /\ wpc' = [n \in Worker |-> IF n \in S THEN "delay" ELSE wpc[n]]
     /\ proc' = [n \in Worker |-> IF n \in S THEN "made" ELSE proc[n]]
     /\ mstop' = [n \in Worker |-> mstop[n] /\ n \notin S]
  /\ UNCHANGED <<home, quit, orphan, again, timers, obj, inbox, events,
                 born, threads, workers, frames, mpc, told, ub>>

\* The posted events of all workers after the signals in "sigs" were emitted
\* to every worker in S: a deleted object is connected to nothing.
Posted(S, sigs) ==
  [n \in Worker |-> IF n \in S /\ obj[n] = "alive" /\ wpc[n] # "gone"
                    THEN inbox[n] \o sigs ELSE inbox[n]]

\* CMD_IPERF_STOP, QIperfd::stopAll: every worker's setStop is connected to
\* StopClient and to StopServer, and both are emitted.
StopAll ==
  /\ Command("STOP")
  /\ inbox' = Posted(1..born, <<"setStop", "setStop">>)
  /\ UNCHANGED <<home, wpc, quit, proc, orphan, mstop, again, timers, obj, events,
                 born, threads, workers, frames, mpc, told, ub>>

\* CMD_IPERF_RESTART: the refrow in the message is only logged; onSetReStart
\* compares the mode alone.
Restart(m) ==
  /\ Command("RESTART")
  /\ inbox' = Posted({n \in 1..born : home[n].mode = m}, <<"setReStart">>)
  /\ UNCHANGED <<home, wpc, quit, proc, orphan, mstop, again, timers, obj, events,
                 born, threads, workers, frames, mpc, told, ub>>

-----------------------------------------------------------------------------
(* The slots of the workers' signals.                                      *)
\* What the consoles are told when a signal is handled.
Report(sig) ==
  CASE sig = "started" -> {"started"} [] sig = "restarted" -> {"restarted"}
    [] sig = "finished" -> {"stoped"} [] sig = "stderr" -> {"errored"}
    [] sig = "extend" -> {"extend"}   [] sig = "workerFinished" -> {}

NextEvent(sigs) == MainFree /\ events # <<>> /\ Head(events).sig \in sigs

Broadcast ==
  LET e == Head(events) IN
  /\ events' = Tail(events)
  /\ told' = [told EXCEPT ![e.from] = @ \cup Report(e.sig)]

\* QIperfd::onStarted, onReStarted, onErrored, onIperfExtendWait.
OnReport ==
  /\ NextEvent({"started", "restarted", "stderr", "extend"})
  /\ Broadcast
  /\ UNCHANGED <<home, wpc, quit, proc, orphan, mstop, again, timers, obj, inbox,
                 born, threads, workers, frames, mpc, ub, cmds>>

\* QIperfd::onFinished, as far as the broadcast of CMD_IPERF_STOPED, in which
\* other events may be handled; del(refrow, servermode) is still to come.
OnIperfFinished ==
  /\ NextEvent({"finished"})
  /\ Broadcast
  /\ LET h == home[Head(events).from] IN
     frames' = Append(frames, [mode |-> h.mode, refrow |-> h.refrow])
  /\ UNCHANGED <<home, wpc, quit, proc, orphan, mstop, again, timers, obj, inbox,
                 born, threads, workers, mpc, ub, cmds>>

\* QIperfd::handleWorkerFinished(id, servermode).
HandleWorkerFinished ==
  /\ NextEvent({"workerFinished"})
  /\ Broadcast
  /\ LET h == home[Head(events).from] IN
     workers' = [workers EXCEPT ![h.mode] = MapRemove(@, h.idx)]
  /\ UNCHANGED <<home, wpc, quit, proc, orphan, mstop, again, timers, obj, inbox,
                 born, threads, frames, mpc, ub, cmds>>

\* Mutant: del() forgets to remove the worker.
UnregisterThreadOnly(m, k) ==
  /\ threads' = [threads EXCEPT ![m] = MapRemove(@, k)]
  /\ UNCHANGED workers

\* Mutant: del() looks the thread up with value() where it means take().
UnregisterWorkerOnly(m, k) ==
  /\ UNCHANGED threads
  /\ workers' = [workers EXCEPT ![m] = MapRemove(@, k)]

\* The removals of del() from the two maps of a mode.
Unregister(m, k) ==
  /\ threads' = [threads EXCEPT ![m] = MapRemove(@, k)]
  /\ workers' = [workers EXCEPT ![m] = MapRemove(@, k)]

\* onFinished goes on to QIperfd::del, whose "idx" is the refrow: it takes
\* both entries, if there is a thread, and waits for that thread.
Del ==
  /\ MainFree /\ frames # <<>>
  /\ LET f == frames[Len(frames)] IN
     /\ frames' = SubSeq(frames, 1, Len(frames) - 1)
     /\ IF f.refrow \in DOMAIN threads[f.mode]
        THEN LET n == threads[f.mode][f.refrow] IN
             /\ Unregister(f.mode, f.refrow)
             /\ quit' = quit \cup {n}
             /\ mpc' = [at |-> "del", of |-> n]
        ELSE UNCHANGED <<threads, workers, quit, mpc>>
  /\ UNCHANGED <<home, wpc, proc, orphan, mstop, again, timers, obj, inbox, events,
                 born, told, ub, cmds>>

\* A wait for the thread of n may time out: it is inside work(), and not on
\* its way out of it (the loop looks at m_stop every half second).
Stuck(n) == wpc[n] \in InWork /\ ~(wpc[n] = "loop" /\ mstop[n])

\* The wait of del() ends: the thread has ended or was never started; if not
\* within 3 s it is terminated.  The QThread is deleted.
DelJoined(timeout) ==
  LET n == mpc.of IN
  /\ mpc.at = "del" /\ ub = "none"
  /\ IF timeout THEN Stuck(n) ELSE wpc[n] \in {"gone", "idle"}
  /\ wpc' = [wpc EXCEPT ![n] = "gone"]
  /\ mpc' = Ready
  /\ UNCHANGED <<home, quit, proc, orphan, mstop, again, timers, obj, inbox, events,
                 born, threads, workers, frames, told, ub, cmds>>

-----------------------------------------------------------------------------
(* CMD_IPERF_CLEAR, QIperfd::clear.                                        *)
At(place) == [at |-> place, of |-> 0]

\* The StopServer or StopClient that clear() emits before it deletes the
\* workers of a mode, if it has any; either reaches every worker.
StopSignal(m) ==
  IF workers[m] = EmptyMap THEN inbox ELSE Posted(1..born, <<"setStop">>)

Clear ==
  /\ Command("CLEAR")
  /\ mpc' = At("clearS")
  /\ inbox' = StopSignal("S")
  /\ UNCHANGED <<home, wpc, quit, proc, orphan, mstop, again, timers, obj, events,
                 born, threads, workers, frames, told, ub>>

\* What clear() does to worker n beyond what the language defines: getPID
\* and ~IperfWorker read an m_iperf that is not initialised before work();
\* the worker deleted itself and its workerFinished is not yet handled;
\* setStop() removes the entry the iterator is at, through
\* handleWorkerFinished; or the worker's thread is inside work().
ClearHazard(n) ==
  CASE obj[n] = "deleted" -> "dangling"
    [] obj[n] = "alive" /\ proc[n] = "none" -> "uninit"
    [] obj[n] = "alive" /\ proc[n] = "up" -> "iterator"
    [] obj[n] = "alive" /\ proc[n] \in {"made", "down"} ->
         IF wpc[n] \in InWork THEN "inuse" ELSE "none"

\* One round of the loop over the workers of a mode.
ClearWorker(m) ==
  /\ mpc = At(IF m = "S" THEN "clearS" ELSE "clearC") /\ ub = "none"
  /\ \E k \in DOMAIN workers[m] :
       LET n == workers[m][k] IN
       /\ \A j \in DOMAIN workers[m] : k <= j
       /\ ub' = ClearHazard(n)
       /\ obj' = [obj EXCEPT ![n] = "deleted"]
       /\ inbox' = [inbox EXCEPT ![n] = <<>>]
       /\ timers' = [timers EXCEPT ![n] = {}]
       /\ workers' = [workers EXCEPT ![m] = MapRemove(@, k)]
  /\ UNCHANGED <<home, wpc, quit, proc, orphan, mstop, again, events,
                 born, threads, frames, mpc, told, cmds>>

\* The loop over the workers of a mode is done; the one over the threads
\* tells the first thread to quit.
ClearThreads(m) ==
  /\ mpc = At(IF m = "S" THEN "clearS" ELSE "clearC") /\ ub = "none"
  /\ workers[m] = EmptyMap
  /\ mpc' = At(IF m = "S" THEN "joinS" ELSE "joinC")
  /\ UNCHANGED <<workerVars, born, threads, workers, frames, told, ub, cmds>>

\* One round of the loop over the threads of a mode: quit, wait at most 5 s
\* (servers) or 8 s (clients), and forget the thread in either case.
JoinThread(m) ==
  /\ mpc = At(IF m = "S" THEN "joinS" ELSE "joinC") /\ ub = "none"
  /\ \E k \in DOMAIN threads[m] :
       LET n == threads[m][k] IN
       /\ \A j \in DOMAIN threads[m] : k <= j
       /\ quit' = quit \cup {n}
       /\ IF n \notin quit THEN UNCHANGED threads
          ELSE /\ wpc[n] # "exec"
               /\ threads' = [threads EXCEPT ![m] = MapRemove(@, k)]
  /\ UNCHANGED <<home, wpc, proc, orphan, mstop, again, timers, obj, inbox, events,
                 born, workers, frames, mpc, told, ub, cmds>>

\* Every thread of the mode is forgotten: on to the clients, or done.
JoinDone(m) ==
  /\ mpc = At(IF m = "S" THEN "joinS" ELSE "joinC") /\ ub = "none"
  /\ threads[m] = EmptyMap
  /\ mpc' = IF m = "S" THEN At("clearC") ELSE Ready
  /\ inbox' = IF m = "S" THEN StopSignal("C") ELSE inbox
  /\ UNCHANGED <<home, wpc, quit, proc, orphan, mstop, again, timers, obj, events,
                 born, threads, workers, frames, told, ub, cmds>>

-----------------------------------------------------------------------------
Accept ==
  \/ \E m \in Mode : Add(m) \/ StartAll(m) \/ Restart(m)
  \/ StopAll \/ Clear

HandleEvent == OnReport \/ OnIperfFinished \/ HandleWorkerFinished \/ Del

Blocked ==
  \/ \E timeout \in BOOLEAN : DelJoined(timeout)
  \/ \E m \in Mode : ClearWorker(m) \/ ClearThreads(m) \/ JoinThread(m) \/ JoinDone(m)

Run == \E n \in Worker : WorkerStep(n) /\ UNCHANGED mainVars

Next == Accept \/ HandleEvent \/ Blocked \/ Run

Spec == Init /\ [][Next]_vars

(* Fairness.  Each worker's thread is scheduled, so what its code does     *)
(* next, its posted events and its timers are not put off for ever; the    *)
(* same holds for the main thread's event queue and for its bounded waits. *)
(* iperf may run for ever, and consoles need not send anything.            *)
Fairness ==
  /\ \A n \in Worker :
       /\ WF_vars((Launch(n) \/ LaunchFails(n) \/ LaunchFreed(n)) /\ UNCHANGED mainVars)
       /\ WF_vars((EnterLoop(n) \/ LeaveLoop(n) \/ ThreadEnds(n)) /\ UNCHANGED mainVars)
       /\ WF_vars((RunSetStop(n) \/ RunSetReStart(n) \/ RunDelete(n)) /\ UNCHANGED mainVars)
       /\ WF_vars((OnRestart(n) \/ OnNoStdout(n)) /\ UNCHANGED mainVars)
  /\ WF_vars(HandleEvent)
  /\ WF_vars(Del)
  /\ WF_vars(Blocked)

FairSpec == Spec /\ Fairness

-----------------------------------------------------------------------------
(* Properties.                                                             *)
\* The two maps of a mode agree: a worker is registered only beside the
\* thread it was moved to.  add() fills both, but handleWorkerFinished
\* empties one, del() looks into one, and clear() empties them in turn.
PairedEntries ==
  \A m \in Mode : \A k \in DOMAIN workers[m] :
    k \in DOMAIN threads[m] /\ threads[m][k] = workers[m][k]

\* No QThread that has ended, and so deletes itself, is in a map when the
\* main thread takes its next event: startServer(), start(), del() and
\* clear() never use a QThread that is gone.
NoDeadThreadInMap ==
  MainFree => \A m \in Mode : \A k \in DOMAIN threads[m] : wpc[threads[m][k]] # "gone"

\* onStarted arms m_selfdestruction, and work() stops it before the worker's
\* thread can take a timer event, however starts and restarts interleave:
\* onSelfDestructor is never called.
SelfDestructionUnarmed == \A n \in Worker : Dispatching(n) => "selfdestruct" \notin timers[n]

\* A console is never told that a row started after it was told that the
\* row stopped, although work() emits started() a second time.
StopedIsLast ==
  \A i \in 1..Len(events) :
    events[i].sig = "started" => "stoped" \notin told[events[i].from]

\* A thread is forced to end only when the worker in it was told to stop, or
\* found that its iperf ended.
OnlyFinishedTerminated ==
  [][\A n \in Worker :
       wpc[n] \in InWork /\ obj[n] = "alive" /\ ~mstop[n] => wpc'[n] # "gone"]_vars

\* When STOP reaches a worker whose iperf runs, the consoles are told that
\* the row stopped.
StopReported ==
  \A n \in Worker :
    (proc[n] = "up" /\ Dispatching(n) /\ (\E i \in 1..Len(inbox[n]) : inbox[n][i] = "setStop"))
      ~> ("stoped" \in told[n] \/ ub # "none")

\* When the consoles were told that a row stopped, its thread leaves the
\* registry.
StopedIsReleased ==
  \A n \in Worker :
    "stoped" \in told[n] ~> (n \notin MapValues(threads[home[n].mode]) \/ ub # "none")
=============================================================================
