----------------------------- MODULE SimpleInit -----------------------------
(***************************************************************************)
(* simple_init: the first process of a PID namespace.  It reads commands,  *)
(* forks a child for each and pauses until a signal comes; a handler of    *)
(* SIGCHLD reaps children and the orphans it inherits.  The terminal       *)
(* belongs to one process group at a time: each child takes it, and init   *)
(* takes it back after its pause.                                          *)
(***************************************************************************)
EXTENDS SigParams

Cmd == 1 .. NumKids            \* the commands that are read
Shell == 0                     \* init's own process group

VARIABLES
    pc,         \* where init is
    pend,       \* SIGCHLD is pending
    kid,        \* the process of each command, and, at 0, an orphan it left
    fg          \* the foreground process group
vars == <<pc, pend, kid, fg>>

At(from, to) == pc = from /\ pc' = to

(* fgets(): a command, or the end of the input *)
ReadCommand ==
    /\ \/ At("prompt", "fork") /\ \E c \in Cmd : kid[c] = "none"
       \/ At("prompt", "exit")
    /\ UNCHANGED <<pend, kid, fg>>

Fork ==
    /\ At("fork", "pause")
    /\ \E c \in Cmd : /\ kid[c] = "none" /\ \A d \in 1 .. c - 1 : kid[d] # "none"
                      /\ kid' = [kid EXCEPT ![c] = "forked"]
    /\ UNCHANGED <<pend, fg>>

(* fork() failed: out of the loop *)
ForkFails ==
    /\ At("fork", "exit")
    /\ UNCHANGED <<pend, kid, fg>>

Pause ==
    /\ At("pause", "paused")
    /\ UNCHANGED <<pend, kid, fg>>

(* child_handler(): reaps all there is; ends a pause(), and nothing else,  *)
(* as the other calls are restarted.                                       *)
ChildHandler ==
    /\ pend /\ pc # "exit" /\ pend' = FALSE
    /\ kid' = [c \in DOMAIN kid |-> IF kid[c] = "zombie" THEN "reaped" ELSE kid[c]]
    /\ pc' = IF pc = "paused" THEN "take back" ELSE pc
    /\ UNCHANGED fg

TakeBack ==
    /\ At("take back", "prompt")
    /\ fg' = Shell
    /\ UNCHANGED <<pend, kid>>

(* The child: takes the terminal and execs, or ends at once because its    *)
(* words cannot be expanded.                                               *)
KidStarts(c) ==
    /\ kid[c] = "forked"
    /\ \/ kid' = [kid EXCEPT ![c] = "run"] /\ fg' = c /\ UNCHANGED pend
       \/ kid' = [kid EXCEPT ![c] = "zombie"] /\ pend' = TRUE /\ UNCHANGED fg
    /\ pc # "exit" /\ UNCHANGED pc

KidEnds(c) ==
    /\ kid[c] = "run" /\ pc # "exit"
    /\ kid' = [kid EXCEPT ![c] = "zombie"]
    /\ pend' = TRUE
    /\ UNCHANGED <<pc, fg>>

(* SA_NOCLDSTOP: the child is stopped, and init is not told. *)
KidStops(c) ==
    /\ kid[c] = "run" /\ pc # "exit"
    /\ kid' = [kid EXCEPT ![c] = "stopped"]
    /\ UNCHANGED <<pc, pend, fg>>

(* A process a command has left behind becomes init's child. *)
Orphaned ==
    /\ kid[0] = "none" /\ pc # "exit" /\ \E c \in Cmd : kid[c] = "run"
    /\ kid' = [kid EXCEPT ![0] = "run"]
    /\ UNCHANGED <<pc, pend, fg>>

Init == pc = "prompt" /\ pend = FALSE /\ kid = [c \in 0 .. NumKids |-> "none"] /\ fg = Shell

Own == Fork \/ Pause \/ ChildHandler \/ TakeBack
KidStep == \E c \in 0 .. NumKids : KidStarts(c) \/ KidEnds(c)
Next == Own \/ ReadCommand \/ ForkFails \/ KidStep \/ Orphaned \/ \E c \in Cmd : KidStops(c)
Spec == Init /\ [][Next]_vars /\ WF_vars(Own) /\ WF_vars(KidStep)

(* A process that has ended is reaped, whether or not init waits for it    *)
(* and whether or not other ends share its SIGCHLD; or init itself ends.   *)
ZombiesReaped == \A c \in 0 .. NumKids : kid[c] = "zombie" ~> (kid[c] = "reaped" \/ pc = "exit")

(* pause() "will be interrupted by signal handler": when no child is left  *)
(* that could end, init does not stay in its pause.                        *)
PauseReturns ==
    (pc = "paused" /\ \A c \in 0 .. NumKids : kid[c] \in {"none", "reaped"}) ~> pc # "paused"
=============================================================================
