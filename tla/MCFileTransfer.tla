--------------------------- MODULE MCFileTransfer ---------------------------
(* Instances of FileTransfer for TLC. *)
EXTENDS FileTransfer

CONSTANTS plain, ragged
TwoLogs == {plain, ragged}
OneRagged == {ragged}
=============================================================================
