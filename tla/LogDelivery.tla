---------------------------- MODULE LogDelivery ----------------------------
(***************************************************************************)
(* What the upload of iperf logs promises to a daemon that hands a log in: *)
(* each request is served at most once, at the console that it was handed  *)
(* in for, and a request that was given up stays so.  FileTransfer is      *)
(* shown to implement this.                                                *)
(***************************************************************************)
EXTENDS Naturals, Sequences

CONSTANT Consoles      \* the file clients a request can be made to

VARIABLES
  owner,     \* owner[t]: the file client that request t was made to
  open,      \* the requests that may still be served
  arrived    \* the requests that were served, in order, with the console they came to

vars == <<owner, open, arrived>>

Init == owner = <<>> /\ open = {} /\ arrived = <<>>

(* A log is handed in for console c; others may be given up with it.       *)
Request(c) ==
  /\ owner' = Append(owner, c)
  /\ open' \in SUBSET (open \cup {Len(owner')})
  /\ UNCHANGED arrived

(* Request t is served; others may be given up with it.                    *)
Arrive(t) ==
  /\ arrived' = Append(arrived, <<t, owner[t]>>)
  /\ open' \in SUBSET (open \ {t})
  /\ UNCHANGED owner

(* Requests are given up: a broken connection, or a file that is gone.     *)
GiveUp == open' \in SUBSET open /\ UNCHANGED <<owner, arrived>>

Next ==
  \/ \E c \in Consoles : Request(c)
  \/ \E t \in open : Arrive(t)
  \/ GiveUp

Spec == Init /\ [][Next]_vars
=============================================================================
