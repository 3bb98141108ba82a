------------------------------ MODULE MCBridges ------------------------------
(* Three devices; another console has opened none of them, one, or two.    *)
EXTENDS Bridges

Devices == 1..3
OtherViews == {<<>>, <<1>>, <<1, 2>>}
=============================================================================
