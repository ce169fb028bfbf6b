------------------------------- MODULE MCInbox -------------------------------
(* File 1 has a name of its own; files 2 and 3 have another one of the same   *)
(* workspace, so that the third can be dropped while the second is claimed.   *)
EXTENDS Inbox

CONSTANTS n1, n2, w1

TheName == [d \in Drops |-> IF d = 1 THEN n1 ELSE n2]
TheSize == [d \in Drops |-> IF d = 3 THEN 2 ELSE 1]
TheWorkspace == [n \in Names |-> w1]
=============================================================================
