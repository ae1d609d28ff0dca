----------------------------- MODULE SigSuspend -----------------------------
(***************************************************************************)
(* Programs that block signals and wait for them in sigsuspend():          *)
(* sig_speed_sigsuspend, where parent and child send each other a signal   *)
(* in turn, t_sigsuspend, which handles SIGINT and SIGQUIT outside its     *)
(* critical section, and fork_sig_sync, whose parent waits for the signal  *)
(* that the child sends when its work is done.  pend and kpend are the     *)
(* signals pending for the process and its child; a signal that is not     *)
(* blocked is handled when it is sent, and is not pending.                 *)
(***************************************************************************)
EXTENDS SigParams

VARIABLES
    pc, kpc, pend,
    uprog,        \* "sig_speed", "t_sigsuspend" or "fork_sync"
    kpend,
    sigmask,      \* the signals are blocked, in both processes
    scnt, kscnt,  \* rounds of parent and child
    gotSigquit,
    sentSigs      \* SIGINTs and SIGQUITs sent
suspVars == <<pc, kpc, pend, uprog, kpend, sigmask, scnt, kscnt, gotSigquit, sentSigs>>

numSigs == MaxSignals

(* Mutant: the signals are blocked only after the fork(). *)
BlockLate ==
    /\ pc = "block" /\ ~sigmask /\ uprog # "fork_sync"
    /\ IF kpc = "none" /\ uprog = "sig_speed" THEN kpc' = "kill" /\ UNCHANGED <<pc, sigmask>>
       ELSE pc' = "loop" /\ sigmask' = TRUE /\ UNCHANGED kpc
    /\ UNCHANGED <<pend, uprog, kpend, scnt, kscnt, gotSigquit, sentSigs>>

(* sigprocmask() *)
Block ==
    /\ pc = "block" /\ uprog # "fork_sync"
    /\ sigmask' = TRUE
    /\ pc' = IF uprog = "sig_speed" THEN "fork" ELSE "loop"
    /\ UNCHANGED <<kpc, pend, uprog, kpend, scnt, kscnt, gotSigquit, sentSigs>>

(* The child inherits handler and mask. *)
Fork ==
    /\ pc = "fork" /\ uprog # "fork_sync"
    /\ pc' = "loop" /\ kpc' = "kill"
    /\ UNCHANGED <<pend, uprog, kpend, sigmask, scnt, kscnt, gotSigquit, sentSigs>>

(* The tests of the loops *)
Loop ==
    /\ pc = "loop"
    /\ pc' = IF uprog = "sig_speed" THEN IF scnt < numSigs THEN "suspend" ELSE "exit"
             ELSE IF gotSigquit THEN "unblock" ELSE "critical"
    /\ UNCHANGED <<kpc, pend, uprog, kpend, sigmask, scnt, kscnt, gotSigquit, sentSigs>>

Critical ==
    /\ pc = "critical" /\ pc' = "suspend"
    /\ UNCHANGED <<kpc, pend, uprog, kpend, sigmask, scnt, kscnt, gotSigquit, sentSigs>>

(* sigsuspend() returns when handlers were called for all that is pending. *)
Suspend ==
    /\ pc = "suspend" /\ uprog # "fork_sync"
    /\ pend # {} /\ pend' = {}
    /\ gotSigquit' = (gotSigquit \/ "QUIT" \in pend)
    /\ pc' = IF uprog = "sig_speed" THEN "kill" ELSE "loop"
    /\ UNCHANGED <<kpc, uprog, kpend, sigmask, scnt, kscnt, sentSigs>>

(* kill(childPid, TESTSIG): a child that has ended is a zombie. *)
Kill ==
    /\ pc = "kill" /\ pc' = "loop"
    /\ kpend' = (kpc # "exit")
    /\ scnt' = scnt + 1
    /\ UNCHANGED <<kpc, pend, uprog, sigmask, kscnt, gotSigquit, sentSigs>>

(* t_sigsuspend restores its mask: what is pending is handled. *)
Unblock ==
    /\ pc = "unblock" /\ uprog # "fork_sync" /\ pc' = "exit"
    /\ sigmask' = FALSE /\ pend' = {}
    /\ UNCHANGED <<kpc, uprog, kpend, scnt, kscnt, gotSigquit, sentSigs>>

KidKill ==
    /\ kpc = "kill" /\ uprog # "fork_sync" /\ kpc' = "suspend"
    /\ pend' = IF sigmask THEN {"USR1"} ELSE {}
    /\ UNCHANGED <<pc, uprog, kpend, sigmask, scnt, kscnt, gotSigquit, sentSigs>>

KidSuspend ==
    /\ kpc = "suspend" /\ kpend /\ kpend' = FALSE
    /\ kscnt' = kscnt + 1
    /\ kpc' = IF kscnt' < numSigs THEN "kill" ELSE "exit"
    /\ UNCHANGED <<pc, pend, uprog, sigmask, scnt, gotSigquit, sentSigs>>

(* At the keyboard.  Before they are caught, these signals would end the   *)
(* program.                                                                *)
Post(s) ==
    /\ uprog = "t_sigsuspend" /\ sentSigs < MaxSignals /\ pc \notin {"block", "exit"}
    /\ sentSigs' = sentSigs + 1
    /\ pend' = IF sigmask THEN pend \cup {s} ELSE pend
    /\ gotSigquit' = (gotSigquit \/ (~sigmask /\ s = "QUIT"))
    /\ UNCHANGED <<pc, kpc, uprog, kpend, sigmask, scnt, kscnt>>

-----------------------------------------------------------------------------
(* fork_sig_sync *)

syncRest == <<uprog, kpend, scnt, kscnt, gotSigquit, sentSigs>>

(* Mutant: forks first and blocks the signal then. *)
SyncBlockLate ==
    /\ uprog = "fork_sync" /\ pc \in {"block", "fork"}
    /\ IF pc = "block" THEN pc' = "fork" /\ kpc' = "work" /\ UNCHANGED sigmask
                       ELSE pc' = "suspend" /\ sigmask' = TRUE /\ UNCHANGED kpc
    /\ UNCHANGED <<pend, syncRest>>

SyncBlock ==
    /\ uprog = "fork_sync" /\ pc = "block" /\ pc' = "fork"
    /\ sigmask' = TRUE
    /\ UNCHANGED <<kpc, pend, syncRest>>

SyncFork ==
    /\ uprog = "fork_sync" /\ pc = "fork"
    /\ pc' = "suspend" /\ kpc' = "work"
    /\ UNCHANGED <<pend, sigmask, syncRest>>

KidWorks ==
    /\ uprog = "fork_sync" /\ kpc = "work" /\ kpc' = "kill"
    /\ UNCHANGED <<pc, pend, sigmask, syncRest>>

(* kill(): unless SIGUSR1 is blocked the handler runs at once, outside     *)
(* sigsuspend(), and leaves no trace.                                      *)
SyncKidKill ==
    /\ uprog = "fork_sync" /\ kpc = "kill" /\ kpc' = "exit"
    /\ pend' = IF sigmask THEN {"USR1"} ELSE {}
    /\ UNCHANGED <<pc, sigmask, syncRest>>

SyncSuspend ==
    /\ uprog = "fork_sync" /\ pc = "suspend" /\ pend # {}
    /\ pend' = {} /\ pc' = "restore"
    /\ UNCHANGED <<kpc, sigmask, syncRest>>

SyncRestore ==
    /\ uprog = "fork_sync" /\ pc = "restore" /\ pc' = "exit"
    /\ sigmask' = FALSE
    /\ UNCHANGED <<kpc, pend, syncRest>>

-----------------------------------------------------------------------------
Init ==
    /\ uprog \in {"sig_speed", "t_sigsuspend", "fork_sync"}
    /\ pc = "block" /\ kpc = "none" /\ pend = {} /\ kpend = FALSE /\ sigmask = FALSE
    /\ scnt = 0 /\ kscnt = 0 /\ gotSigquit = FALSE /\ sentSigs = 0

Own == \/ Block \/ Fork \/ Loop \/ Critical \/ Suspend \/ Kill \/ Unblock
       \/ SyncBlock \/ SyncFork \/ SyncSuspend \/ SyncRestore
KidStep == KidKill \/ KidSuspend \/ KidWorks \/ SyncKidKill
Environment == \E s \in {"INT", "QUIT"} : Post(s)
Next == Own \/ KidStep \/ Environment
Spec == Init /\ [][Next]_suspVars /\ WF_suspVars(Own) /\ WF_suspVars(KidStep)

(* Parent and child of sig_speed_sigsuspend take turns, and at most one    *)
(* signal is on its way: none is merged with another.                      *)
InTurn ==
    uprog = "sig_speed" =>
        /\ scnt - kscnt \in {0, 1}
        /\ ~(pend # {} /\ kpend)
        /\ pc = "exit" => kscnt >= numSigs - 1

(* The parent of fork_sig_sync goes on only when the child has done its    *)
(* work.                                                                   *)
ParentWaits == uprog = "fork_sync" /\ pc \in {"restore", "exit"} => kpc = "exit"

(* Both end, and t_sigsuspend ends after a SIGQUIT. *)
BothEnd == (uprog = "sig_speed") ~> (pc = "exit" /\ kpc = "exit")
QuitEnds == (uprog = "t_sigsuspend" /\ "QUIT" \in pend) ~> (pc = "exit")
=============================================================================
