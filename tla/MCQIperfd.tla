------------------------------ MODULE MCQIperfd ------------------------------
(* Instances of QIperfd for TLC.                                           *)
EXTENDS QIperfd

\* One server and one client, whose rows are the indices they get.
OnePair == [m \in Mode |-> <<0>>]

\* Two servers, whose rows are the indices they get.
TwoServers == [m \in Mode |-> IF m = "S" THEN <<0, 1>> ELSE <<>>]

\* Three servers, whose rows are the indices they get when added in order.
ThreeServers == [m \in Mode |-> IF m = "S" THEN <<0, 1, 2>> ELSE <<>>]

\* Two servers of a console whose row 0 has its server on another endpoint.
ShiftedServers == [m \in Mode |-> IF m = "S" THEN <<1, 2>> ELSE <<>>]
=============================================================================
