---------------------------- MODULE MCOpuProcess ----------------------------
(***************************************************************************)
(* Instance of OpuProcess: an address space two threads of which open the  *)
(* device, twice at most at a time, two contexts that look up and queue    *)
(* work, and two processes, the second one made when the first has left    *)
(* the table: after a failed open, and before its notifier is put.         *)
(***************************************************************************)
EXTENDS OpuProcess, TLC
CONSTANTS m1, t1, t2, u1, u2
OneMm == {m1}
TwoThreads == {t1, t2}
SameMm == [t \in TwoThreads |-> m1]
TwoUsers == {u1, u2}
=============================================================================
