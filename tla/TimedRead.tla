----------------------------- MODULE TimedRead -----------------------------
(***************************************************************************)
(* timed_read: alarm() puts a limit on a read(): SIGALRM interrupts it,    *)
(* unless its handler was established with SA_RESTART.  Nothing makes      *)
(* alarm() and read() one step.                                            *)
(***************************************************************************)
EXTENDS SigParams

VARIABLES
    pc,
    restart,     \* the restart-flag was given
    alarm,       \* "off", "set" or "fired"
    input,       \* there is something to read
    result       \* "none", "timed out" or "read"
vars == <<pc, restart, alarm, input, result>>

Input ==
    /\ ~input /\ input' = TRUE
    /\ UNCHANGED <<pc, restart, alarm, result>>

(* alarm(n), where 0 sets none *)
Alarm ==
    /\ pc = "alarm" /\ pc' = "read"
    /\ alarm' \in {"off", "set"}
    /\ UNCHANGED <<restart, input, result>>

(* read() finds input, or blocks *)
Read ==
    /\ pc = "read"
    /\ IF input THEN pc' = "done" /\ result' = "read" ELSE pc' = "blocked" /\ UNCHANGED result
    /\ UNCHANGED <<restart, alarm, input>>

ReadReturns ==
    /\ pc = "blocked" /\ input
    /\ pc' = "done" /\ result' = "read"
    /\ UNCHANGED <<restart, alarm, input>>

(* SIGALRM and handler(): a blocked read() fails with EINTR *)
Fire ==
    /\ alarm = "set" /\ alarm' = "fired" /\ pc # "exit"
    /\ IF pc = "blocked" /\ ~restart THEN pc' = "done" /\ result' = "timed out"
                                     ELSE UNCHANGED <<pc, result>>
    /\ UNCHANGED <<restart, input>>

(* alarm(0), report, exit *)
Off ==
    /\ pc = "done" /\ pc' = "exit"
    /\ alarm' = IF alarm = "set" THEN "off" ELSE alarm
    /\ UNCHANGED <<restart, input, result>>

Init == pc = "alarm" /\ restart \in BOOLEAN /\ alarm = "off" /\ input \in BOOLEAN /\ result = "none"

Own == Alarm \/ Read \/ ReadReturns \/ Off
Next == Own \/ Fire \/ Input
Spec == Init /\ [][Next]_vars /\ WF_vars(Own) /\ WF_vars(Fire)

(* The signal came before the read() it was to interrupt, or there was     *)
(* none, or it restarts the call.                                          *)
Unlimited == pc \in {"read", "blocked"} /\ (restart \/ alarm # "set")

(* Otherwise the program ends, with or without input. *)
Limited == <>(pc = "exit" \/ Unlimited)
=============================================================================
