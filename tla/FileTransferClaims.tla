------------------------- MODULE FileTransferClaims -------------------------
(* What the change log says of the upload of logs. *)
EXTENDS FileTransfer

CONSTANTS plain

Copied(n) ==
  \A i \in 1..inodes[n].size : \E s \in Range(saved) :
    \E x \in Range(s.got) : x.kind = "body" /\ x.ino = n /\ x.i = i

(* "Add when iperf log file finished copy, delete it" (debian/changelog):  *)
(* a file that is gone from the daemon's host is at a console, once nothing *)
(* is on its way any more (onBytesWritten of FileClient).                  *)
DeletedIsCopied ==
  \A n \in DOMAIN inodes : Open = {} /\ n \notin Range(dir) => Copied(n)
=============================================================================
