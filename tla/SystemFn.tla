------------------------------ MODULE SystemFn ------------------------------
(***************************************************************************)
(* system(): runs a shell command.  SIGCHLD is blocked so that a handler   *)
(* of the caller, which may wait for any child, does not take the status   *)
(* of this one; SIGINT and SIGQUIT typed at the terminal are for the       *)
(* command and not for the caller.                                         *)
(***************************************************************************)
EXTENDS SigParams

Typed == {"INT", "QUIT"}

VARIABLES
    pc,            \* where the caller is in system()
    mask,          \* SIGCHLD is blocked
    disp,          \* the caller's dispositions of SIGINT and SIGQUIT
    orig,          \* what they were: saOrigInt, saOrigQuit
    origMask,
    kid,           \* where the child is
    cdisp,         \* its dispositions
    cstatus,       \* how it ended
    status,        \* the value of the call
    pend,          \* SIGCHLD is pending
    typed,         \* signals typed so far
    killed         \* the caller was killed
vars == <<pc, mask, disp, orig, origMask, kid, cdisp, cstatus, status, pend, typed, killed>>
child == <<kid, cdisp, cstatus>>
caller == <<orig, origMask, typed, killed>>

At(from, to) == pc = from /\ pc' = to /\ ~killed
Alive == kid \in {"int", "quit", "mask", "exec", "sh"}

(* Mutant: does not block SIGCHLD. *)
BlockForgotten ==
    /\ At("call", "ignore INT")
    /\ UNCHANGED <<mask, disp, caller, child, status, pend>>

Block ==
    /\ At("call", "ignore INT")
    /\ mask' = TRUE
    /\ UNCHANGED <<disp, caller, child, status, pend>>

Ignore ==
    /\ \/ At("ignore INT", "ignore QUIT") /\ disp' = [disp EXCEPT !["INT"] = "IGN"]
       \/ At("ignore QUIT", "fork") /\ disp' = [disp EXCEPT !["QUIT"] = "IGN"]
    /\ UNCHANGED <<mask, caller, child, status, pend>>

Fork ==
    /\ \/ At("fork", "wait") /\ kid' = "int" /\ cdisp' = disp /\ UNCHANGED status
       \/ At("fork", "restore mask") /\ status' = "-1" /\ UNCHANGED <<kid, cdisp>>
    /\ UNCHANGED <<mask, disp, caller, cstatus, pend>>

KidEnds(how) == kid' = "zombie" /\ cstatus' = how /\ pend' = TRUE

(* The child: a signal the caller does not ignore gets its default action  *)
(* back; then the mask, and the shell, which may not be there.             *)
KidStep ==
    /\ \/ /\ kid \in {"int", "quit"}
          /\ kid' = IF kid = "int" THEN "quit" ELSE "mask"
          /\ LET s == IF kid = "int" THEN "INT" ELSE "QUIT"
             IN cdisp' = IF orig[s] # "IGN" THEN [cdisp EXCEPT ![s] = "DFL"] ELSE cdisp
          /\ UNCHANGED <<cstatus, pend>>
       \/ kid = "mask" /\ kid' = "exec" /\ UNCHANGED <<cdisp, cstatus, pend>>
       \/ kid = "exec" /\ kid' = "sh" /\ UNCHANGED <<cdisp, cstatus, pend>>
       \/ kid = "exec" /\ KidEnds("127") /\ UNCHANGED cdisp
       \/ kid = "sh" /\ KidEnds("exit") /\ UNCHANGED cdisp
    /\ UNCHANGED <<pc, mask, disp, caller, status>>

(* waitpid(childPid), again after EINTR; ECHILD if another has waited.     *)
Wait ==
    /\ At("wait", "restore mask") /\ kid \in {"zombie", "reaped"}
    /\ kid' = "reaped"
    /\ status' = IF kid = "zombie" THEN cstatus ELSE "-1"
    /\ UNCHANGED <<mask, disp, caller, cdisp, cstatus, pend>>

(* The caller's own handler of SIGCHLD, with waitpid(-1, WNOHANG) *)
CallersHandler ==
    /\ pend /\ ~mask /\ ~killed
    /\ pend' = FALSE
    /\ kid' = IF kid = "zombie" THEN "reaped" ELSE kid
    /\ UNCHANGED <<pc, mask, disp, caller, cdisp, cstatus, status>>

(* Mutant: forgets SIGQUIT. *)
RestoreInt ==
    /\ \/ At("restore mask", "restore INT") /\ mask' = origMask /\ UNCHANGED disp
       \/ At("restore INT", "return") /\ disp' = [disp EXCEPT !["INT"] = orig["INT"]] /\ UNCHANGED mask
    /\ UNCHANGED <<caller, child, status, pend>>

Restore ==
    /\ \/ At("restore mask", "restore INT") /\ mask' = origMask /\ UNCHANGED disp
       \/ At("restore INT", "restore QUIT") /\ disp' = [disp EXCEPT !["INT"] = orig["INT"]] /\ UNCHANGED mask
       \/ At("restore QUIT", "return") /\ disp' = [disp EXCEPT !["QUIT"] = orig["QUIT"]] /\ UNCHANGED mask
    /\ UNCHANGED <<caller, child, status, pend>>

(* A key typed at the terminal: the signal goes to caller and child. *)
Type(s) ==
    /\ typed < MaxSignals /\ pc # "return" /\ ~killed
    /\ typed' = typed + 1
    /\ killed' = (disp[s] = "DFL")
    /\ IF Alive /\ cdisp[s] = "DFL" THEN KidEnds("killed") ELSE UNCHANGED <<kid, cstatus, pend>>
    /\ UNCHANGED <<pc, mask, disp, orig, origMask, cdisp, status>>

Init ==
    /\ pc = "call" /\ origMask \in BOOLEAN /\ mask = origMask
    /\ orig \in [Typed -> {"DFL", "IGN", "handler"}] /\ disp = orig
    /\ kid = "none" /\ cdisp = orig /\ cstatus = "none" /\ status = "none"
    /\ pend = FALSE /\ typed = 0 /\ killed = FALSE

Own == Block \/ Ignore \/ Fork \/ Wait \/ Restore
Next == Own \/ KidStep \/ CallersHandler \/ \E s \in Typed : Type(s)
Spec == Init /\ [][Next]_vars /\ WF_vars(Own) /\ WF_vars(KidStep)

(* system() returns how its own child ended, whatever else waits for       *)
(* children, and -1 only if it has none; it leaves mask and dispositions   *)
(* as they were.                                                           *)
ReturnsStatus ==
    pc = "return" => /\ status = IF kid = "none" THEN "-1" ELSE cstatus
                     /\ mask = origMask /\ disp = orig

(* What is typed while the command runs cannot kill the caller and leave   *)
(* the child behind; the command ignores what the caller ignores, and      *)
(* nothing else.                                                           *)
TypedForCommand ==
    /\ killed => kid \in {"none", "reaped"}
    /\ kid = "sh" => \A s \in Typed : (cdisp[s] = "IGN") <=> (orig[s] = "IGN")
=============================================================================
