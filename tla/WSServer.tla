------------------------------ MODULE WSServer ------------------------------
(***************************************************************************)
(* The daemon's WebSocket server (qiperfd/src/wsserver.cpp) and the slots  *)
(* of qiperfd/src/qiperfd.cpp that report through it.  A broadcast runs    *)
(* processEvents after each client, so that clients come and go and other  *)
(* broadcasts run inside it.  A client is a number, its place among the    *)
(* sorted keys of m_clients.                                               *)
(***************************************************************************)
EXTENDS Naturals, Sequences, FiniteSets

CONSTANTS
  Clients,     \* the WebSockets that consoles open, each with a port of its own
  Rows,        \* the iperf that report
  Target       \* Target[r]: the client whose console gets the throughput of row r

ASSUME WSServerAssumption == Clients \subseteq Nat /\ Target \in [Rows -> Clients]

VARIABLES
  m_clients,   \* the clients in the map
  seen,        \* the clients that ever connected
  signals,     \* the workers' signals queued at the main thread
  emitted,     \* emitted[r]: how many signals the worker of row r emitted
  frames,      \* the calls of sendTextMessage to all that are on the stack
  members,     \* members[m]: the clients in the map when broadcast m began
  got          \* got[k]: what was sent to client k, in order

vars == <<m_clients, seen, signals, emitted, frames, members, got>>

Kinds == <<"STARTED", "DATA", "STOPED">>
Reports == Rows \X {"STARTED", "DATA", "STOPED"}

Init ==
  /\ m_clients = {} /\ seen = {} /\ signals = <<>>
  /\ emitted = [r \in Rows |-> 0]
  /\ frames = <<>>
  /\ members = [m \in Reports |-> {}]
  /\ got = [k \in Clients |-> <<>>]

Lowest(S) == CHOOSE k \in S : \A j \in S : k <= j

-----------------------------------------------------------------------------
(* A worker emits started, its throughput, and finished.                   *)
Emit(r) ==
  /\ emitted[r] < Len(Kinds)
  /\ emitted' = [emitted EXCEPT ![r] = @ + 1]
  /\ signals' = Append(signals, <<r, Kinds[emitted'[r]]>>)
  /\ UNCHANGED <<m_clients, seen, frames, members, got>>

\* Mutant: a closed WebSocket may come back under its key.
OnNewConnectionAgain(k) ==
  /\ k \notin m_clients
  /\ m_clients' = m_clients \cup {k}
  /\ UNCHANGED <<seen, signals, emitted, frames, members, got>>

OnNewConnection(k) ==
  /\ k \notin seen
  /\ m_clients' = m_clients \cup {k}
  /\ seen' = seen \cup {k}
  /\ UNCHANGED <<signals, emitted, frames, members, got>>

SocketDisconnected(k) ==
  /\ k \in m_clients
  /\ m_clients' = m_clients \ {k}
  /\ UNCHANGED <<seen, signals, emitted, frames, members, got>>

(* One turn of the loop of sendTextMessage without a target, up to its     *)
(* processEvents: the lowest of the keys ts is served if it is still there.*)
Send(m, ts) ==
  got' = IF Lowest(ts) \in m_clients
         THEN [got EXCEPT ![Lowest(ts)] = Append(@, m)] ELSE got

\* Mutant: the loop goes over the map itself, not over the keys read before it.
RestLive(ts) == {k \in m_clients : k > Lowest(ts)}
Rest(ts) == ts \ {Lowest(ts)}

\* Mutant: the loop goes on with the client that it has just served.
BroadcastTwice ==
  /\ signals # <<>> /\ Head(signals)[2] # "DATA"
  /\ LET m == Head(signals)
     IN  /\ signals' = Tail(signals)
         /\ members' = [members EXCEPT ![m] = m_clients]
         /\ IF m_clients = {}
            THEN UNCHANGED <<frames, got>>
            ELSE /\ Send(m, m_clients)
                 /\ frames' = Append(frames, [msg |-> m, ts |-> m_clients])
  /\ UNCHANGED <<m_clients, seen, emitted>>

\* Mutant: events run before the first client is served, too.
BroadcastLate ==
  /\ signals # <<>> /\ Head(signals)[2] # "DATA"
  /\ LET m == Head(signals)
     IN  /\ signals' = Tail(signals)
         /\ members' = [members EXCEPT ![m] = m_clients]
         /\ frames' = Append(frames, [msg |-> m, ts |-> m_clients])
  /\ UNCHANGED <<m_clients, seen, emitted, got>>

(* onStarted and onFinished send to all: the keys are read, and the first  *)
(* client is served before any other event.                                *)
Broadcast ==
  /\ signals # <<>> /\ Head(signals)[2] # "DATA"
  /\ LET m == Head(signals)
     IN  /\ signals' = Tail(signals)
         /\ members' = [members EXCEPT ![m] = m_clients]
         /\ IF m_clients = {}
            THEN UNCHANGED <<frames, got>>
            ELSE /\ Send(m, m_clients)
                 /\ frames' = Append(frames, [msg |-> m, ts |-> Rest(m_clients)])
  /\ UNCHANGED <<m_clients, seen, emitted>>

\* Mutant: throughput goes to all, as sendTextResult does.
OnThroughputToAll ==
  /\ signals # <<>> /\ Head(signals)[2] = "DATA" /\ m_clients # {}
  /\ LET m == Head(signals)
     IN  /\ signals' = Tail(signals)
         /\ Send(m, m_clients)
         /\ frames' = Append(frames, [msg |-> m, ts |-> Rest(m_clients)])
  /\ UNCHANGED <<m_clients, seen, emitted, members>>

(* onThroughput sends to its target, if it is there, and runs no events.   *)
OnThroughput ==
  /\ signals # <<>> /\ Head(signals)[2] = "DATA"
  /\ LET m == Head(signals)
         k == Target[m[1]]
     IN  /\ signals' = Tail(signals)
         /\ got' = IF k \in m_clients THEN [got EXCEPT ![k] = Append(@, m)] ELSE got
  /\ UNCHANGED <<m_clients, seen, emitted, frames, members>>

(* processEvents returns to the innermost broadcast: it serves the next    *)
(* client, or is done and returns in its turn.                             *)
Top == frames[Len(frames)]

\* Mutant: the loop does not get past a client that is gone.
ResumeStuck ==
  /\ frames # <<>>
  /\ IF Top.ts = {}
     THEN /\ frames' = SubSeq(frames, 1, Len(frames) - 1)
          /\ UNCHANGED got
     ELSE /\ Lowest(Top.ts) \in m_clients
          /\ Send(Top.msg, Top.ts)
          /\ frames' = [frames EXCEPT ![Len(frames)].ts = Rest(@)]
  /\ UNCHANGED <<m_clients, seen, signals, emitted, members>>

Resume ==
  /\ frames # <<>>
  /\ IF Top.ts = {}
     THEN /\ frames' = SubSeq(frames, 1, Len(frames) - 1)
          /\ UNCHANGED got
     ELSE /\ Send(Top.msg, Top.ts)
          /\ frames' = [frames EXCEPT ![Len(frames)].ts = Rest(@)]
  /\ UNCHANGED <<m_clients, seen, signals, emitted, members>>

Next ==
  \/ \E r \in Rows : Emit(r)
  \/ \E k \in Clients : OnNewConnection(k) \/ SocketDisconnected(k)
  \/ Broadcast \/ OnThroughput \/ Resume

(* The main thread goes on: a pending signal is handled, and processEvents *)
(* returns when none is.                                                   *)
Fairness == WF_vars(Broadcast \/ OnThroughput \/ Resume)

Spec == Init /\ [][Next]_vars /\ Fairness

-----------------------------------------------------------------------------
(* Clients in the map have connected; keys of a broadcast were in the map. *)
TypeOK ==
  /\ m_clients \in SUBSET seen /\ seen \in SUBSET Clients
  /\ signals \in Seq(Reports)
  /\ emitted \in [Rows -> 0..3]
  /\ frames \in Seq([msg : Reports, ts : SUBSET Clients])
  /\ members \in [Reports -> SUBSET seen]
  /\ got \in [Clients -> Seq(Reports)]

Has(k, m) == \E i \in DOMAIN got[k] : got[k][i] = m
Pending(m, k) == \E i \in DOMAIN frames : frames[i].msg = m /\ k \in frames[i].ts

(* However connections, disconnections and other broadcasts fall into a    *)
(* broadcast, a client that was there when it began and stays gets the     *)
(* report once (sendTextMessage reads the keys once and looks each up).    *)
ExactlyOnce ==
  \A k \in Clients :
    /\ \A i, j \in DOMAIN got[k] : got[k][i] = got[k][j] => i = j
    /\ \A m \in Reports :
         k \in m_clients \cap members[m] => (Has(k, m) <=> ~Pending(m, k))

(* Nobody else gets it: a client that joins during a broadcast is left out *)
(* of it, and throughput goes to its target only (sendTextMessage).        *)
OnlyMembers ==
  \A k \in Clients, m \in Reports :
    Has(k, m) => IF m[2] = "DATA" THEN k = Target[m[1]] ELSE k \in members[m]

(* A console gets no throughput of a row that it was told is stopped, even *)
(* where a nested STOPED overtakes a STARTED (onThroughput, onFinished).   *)
NoDataAfterStop ==
  \A k \in Clients : \A i, j \in DOMAIN got[k] :
    got[k][i][2] = "STOPED" /\ got[k][j][2] = "DATA" /\ got[k][i][1] = got[k][j][1] => j < i

(* The client with the lowest key sees a row start before it sees it stop: *)
(* it is served before processEvents runs (sendTextMessage).               *)
LowestInOrder ==
  \A r \in Rows :
    LET started == <<r, "STARTED">>
        stoped == <<r, "STOPED">>
    IN  members[started] # {} =>
          LET k == Lowest(members[started])
          IN  \A i, j \in DOMAIN got[k] :
                got[k][i] = started /\ got[k][j] = stoped => i < j

(* Nested broadcasts all come to their end.                                *)
BroadcastEnds == frames # <<>> ~> frames = <<>>
=============================================================================
