------------------------------ MODULE SelfPipe ------------------------------
(***************************************************************************)
(* self_pipe: SIGINT's handler writes a byte to a non-blocking pipe whose  *)
(* read end is one of the descriptors select() waits for, so that a signal *)
(* before the call, during it, or after it counts.                         *)
(***************************************************************************)
EXTENDS SigParams

VARIABLES
    pc,
    pend,        \* SIGINT is pending
    sent,        \* signals sent so far
    pipe,        \* bytes in the pipe
    ready,       \* another descriptor is ready
    isset,       \* FD_ISSET(pfd[0], &readfds)
    caught       \* history: the handler ran before select() returned
vars == <<pc, pend, sent, pipe, ready, isset, caught>>

SendInt ==
    /\ sent < MaxSignals /\ pc # "exit"
    /\ sent' = sent + 1 /\ pend' = TRUE
    /\ UNCHANGED <<pc, pipe, ready, isset, caught>>

(* Mutant: relies on the signal to interrupt select(). *)
HandlerSilent ==
    /\ pend /\ pc # "exit"
    /\ pend' = FALSE
    /\ pipe' = pipe
    /\ caught' = (caught \/ pc \in {"setup", "select"})
    /\ UNCHANGED <<pc, sent, ready, isset>>

(* handler(): interrupts select(), which is called again, or anything      *)
(* else; a full pipe (EAGAIN) is enough of a message.                      *)
Handler ==
    /\ pend /\ pc # "exit"
    /\ pend' = FALSE
    /\ pipe' = IF pipe < PipeCap THEN pipe + 1 ELSE pipe
    /\ caught' = (caught \/ pc \in {"setup", "select"})
    /\ UNCHANGED <<pc, sent, ready, isset>>

Setup ==
    /\ pc = "setup" /\ pc' = "select"
    /\ UNCHANGED <<pend, sent, pipe, ready, isset, caught>>

FdReady ==
    /\ ~ready /\ pc # "exit" /\ ready' = TRUE
    /\ UNCHANGED <<pc, pend, sent, pipe, isset, caught>>

(* select() returns: a descriptor is ready, or the time is over. *)
Select(timeout) ==
    /\ pc = "select" /\ (pipe > 0 \/ ready \/ timeout)
    /\ isset' = (pipe > 0)
    /\ pc' = IF isset' THEN "drain" ELSE "report"
    /\ UNCHANGED <<pend, sent, pipe, ready, caught>>

(* read() one byte of the pipe, or EAGAIN *)
Drain ==
    /\ pc = "drain"
    /\ pipe' = IF pipe > 0 THEN pipe - 1 ELSE pipe
    /\ pc' = IF pipe > 0 THEN pc ELSE "report"
    /\ UNCHANGED <<pend, sent, ready, isset, caught>>

Report ==
    /\ pc = "report" /\ pc' = "exit"
    /\ UNCHANGED <<pend, sent, pipe, ready, isset, caught>>

Init == /\ pc = "setup" /\ pend = FALSE /\ sent = 0 /\ pipe = 0
        /\ ready = FALSE /\ isset = FALSE /\ caught = FALSE

Own == Setup \/ Select(FALSE) \/ Drain \/ Report \/ Handler
Next == Own \/ Select(TRUE) \/ SendInt \/ FdReady
Spec == Init /\ [][Next]_vars /\ WF_vars(Own)

(* A signal caught before select() returns is reported, whenever it came. *)
CaughtIsReported == (pc \in {"drain", "report", "exit"} /\ caught) => isset

(* select() does not stay blocked after a signal. *)
CaughtEndsWait == caught ~> pc = "exit"
=============================================================================
