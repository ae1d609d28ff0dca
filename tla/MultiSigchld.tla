---------------------------- MODULE MultiSigchld ----------------------------
(***************************************************************************)
(* multi_SIGCHLD: the parent forks its children with SIGCHLD blocked and   *)
(* then suspends itself, unblocking it, until a handler has reaped them    *)
(* all.  SIGCHLD does not queue: while one is pending, the ends of further *)
(* children leave no trace but the zombies.                                *)
(***************************************************************************)
EXTENDS SigParams, FiniteSets

Kid == 1 .. NumKids

VARIABLES
    pc,                \* where the parent is
    pend,              \* SIGCHLD is pending
    kid,               \* "none", "run", "zombie" or "reaped"
    numLiveChildren
vars == <<pc, pend, kid, numLiveChildren>>

(* main(): fork() the next child *)
Fork ==
    /\ pc = "fork"
    /\ \E c \in Kid : /\ kid[c] = "none" /\ \A d \in 1 .. c - 1 : kid[d] # "none"
                      /\ kid' = [kid EXCEPT ![c] = "run"]
                      /\ pc' = IF c = NumKids THEN "test" ELSE pc
    /\ UNCHANGED <<pend, numLiveChildren>>

(* The child's sleep() ends, and the child. *)
KidExit(c) ==
    /\ kid[c] = "run"
    /\ kid' = [kid EXCEPT ![c] = "zombie"]
    /\ pend' = TRUE
    /\ UNCHANGED <<pc, numLiveChildren>>

Test ==
    /\ pc = "test"
    /\ pc' = IF numLiveChildren > 0 THEN "suspend" ELSE "exit"
    /\ UNCHANGED <<pend, kid, numLiveChildren>>

(* sigsuspend() unblocks SIGCHLD and waits in one step. *)
Deliver ==
    /\ pc = "suspend" /\ pend
    /\ pc' = "handler" /\ pend' = FALSE
    /\ UNCHANGED <<kid, numLiveChildren>>

(* Mutant: reaps one child for each signal. *)
ReapOne ==
    /\ pc = "handler"
    /\ \E c \in Kid : kid[c] = "zombie" /\ kid' = [kid EXCEPT ![c] = "reaped"]
    /\ numLiveChildren' = numLiveChildren - 1
    /\ pc' = "sleep"
    /\ UNCHANGED pend

(* sigchldHandler(): waitpid(-1, WNOHANG) finds a zombie *)
Reap ==
    /\ pc = "handler"
    /\ \E c \in Kid : kid[c] = "zombie" /\ kid' = [kid EXCEPT ![c] = "reaped"]
    /\ numLiveChildren' = numLiveChildren - 1
    /\ UNCHANGED <<pc, pend>>

(* It finds none: the loop ends, the handler sleeps with SIGCHLD blocked. *)
NoMore ==
    /\ pc = "handler" /\ \A c \in Kid : kid[c] # "zombie"
    /\ pc' = "sleep"
    /\ UNCHANGED <<pend, kid, numLiveChildren>>

HandlerReturns ==
    /\ pc = "sleep" /\ pc' = "test"
    /\ UNCHANGED <<pend, kid, numLiveChildren>>

Init == pc = "fork" /\ pend = FALSE /\ kid = [c \in Kid |-> "none"] /\ numLiveChildren = NumKids

Own == Fork \/ Test \/ Deliver \/ Reap \/ NoMore \/ HandlerReturns
Next == Own \/ \E c \in Kid : KidExit(c)
Spec == Init /\ [][Next]_vars /\ WF_vars(Own) /\ \A c \in Kid : WF_vars(KidExit(c))

(* A zombie is never forgotten: when the parent waits, or comes to wait, a *)
(* signal is pending for it, however many ends share that signal; and the  *)
(* counter is the number of children not reaped.                           *)
ZombieSignalled ==
    /\ (pc \in {"test", "suspend", "sleep"} /\ \E c \in Kid : kid[c] = "zombie") => pend
    /\ numLiveChildren = Cardinality({c \in Kid : kid[c] # "reaped"})

(* The parent exits only when all children have ended and were reaped. *)
ExitReaped == pc = "exit" => \A c \in Kid : kid[c] = "reaped"
=============================================================================
