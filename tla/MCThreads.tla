----------------------------- MODULE MCThreads ------------------------------
(***************************************************************************)
(* The thread programs on a small instance.  Three producers, one of them  *)
(* with nothing to do; three threads to join, so that two can end while    *)
(* main() joins the other; three rounds of the unlocked increments, the    *)
(* least for which one thread can undo the work of the other; three        *)
(* notifications.                                                          *)
(***************************************************************************)
EXTENDS ThreadSuite

MCCounts == <<2, 0, 1>>
=============================================================================
