--------------------------- MODULE UsernsChildExec --------------------------
(***************************************************************************)
(* userns_child_exec: a child in a new user namespace executes a command;  *)
(* its parent writes the child's UID and GID maps first.  The child waits  *)
(* for the end of file on a pipe, which comes when nobody has the write    *)
(* end open any more.                                                      *)
(***************************************************************************)
EXTENDS Naturals

VARIABLES
    want,       \* the maps asked for: -M, -G, or both with -r
    deny_setgroups, privileged, setgroupsFile,  \* option -D; the system
    ppc, kpc,   \* where the parent and its child are
    writeEnd,   \* who has the write end of the pipe open
    maps,       \* the maps written
    setgroups   \* /proc/PID/setgroups
usVars == <<want, deny_setgroups, privileged, setgroupsFile, ppc, kpc, writeEnd, maps, setgroups>>
given == <<want, deny_setgroups, privileged, setgroupsFile>>

(* clone(): the child has the same descriptors. *)
Clone ==
    /\ ppc = "clone" /\ ppc' = "uid_map"
    /\ kpc' = "close" /\ writeEnd' = {"parent", "child"}
    /\ UNCHANGED <<given, maps, setgroups>>

(* errExit(), or the parent is killed: its descriptors are closed. *)
ParentFails ==
    /\ ppc \notin {"clone", "failed", "exit"} /\ ppc' = "failed"
    /\ writeEnd' = writeEnd \ {"parent"}
    /\ UNCHANGED <<given, kpc, maps, setgroups>>

(* update_child_maps(), up to the GID map *)
UidMap ==
    /\ ppc = "uid_map" /\ ppc' = "setgroups"
    /\ maps' = IF "uid" \in want THEN maps \cup {"uid"} ELSE maps
    /\ UNCHANGED <<given, kpc, writeEnd, setgroups>>

(* proc_setgroups_write(): a system without the file needs no "deny". *)
SetGroups ==
    /\ ppc = "setgroups" /\ ppc' = "gid_map"
    /\ setgroups' = IF "gid" \in want /\ deny_setgroups /\ setgroupsFile
                    THEN "deny" ELSE setgroups
    /\ UNCHANGED <<given, kpc, writeEnd, maps>>

(* The kernel lets an unprivileged process write a GID map only after      *)
(* setgroups() was denied, where there is such a file.                     *)
GidMapAllowed == privileged \/ setgroups = "deny" \/ ~setgroupsFile

GidMap ==
    /\ ppc = "gid_map" /\ ("gid" \in want => GidMapAllowed) /\ ppc' = "close"
    /\ maps' = IF "gid" \in want THEN maps \cup {"gid"} ELSE maps
    /\ UNCHANGED <<given, kpc, writeEnd, setgroups>>

(* The write is refused: errExit() *)
GidMapRefused ==
    /\ ppc = "gid_map" /\ "gid" \in want /\ ~GidMapAllowed
    /\ ppc' = "failed" /\ writeEnd' = writeEnd \ {"parent"}
    /\ UNCHANGED <<given, kpc, maps, setgroups>>

ClosePipe ==
    /\ ppc = "close" /\ ppc' = "waitpid"
    /\ writeEnd' = writeEnd \ {"parent"}
    /\ UNCHANGED <<given, kpc, maps, setgroups>>

WaitChild ==
    /\ ppc = "waitpid" /\ kpc = "exited" /\ ppc' = "exit"
    /\ UNCHANGED <<given, kpc, writeEnd, maps, setgroups>>

(* Mutant: the child keeps its own write end. *)
ChildKeeps ==
    /\ kpc = "close" /\ kpc' = "read"
    /\ UNCHANGED <<given, ppc, writeEnd, maps, setgroups>>

(* childFunc() *)
ChildCloses ==
    /\ kpc = "close" /\ kpc' = "read"
    /\ writeEnd' = writeEnd \ {"child"}
    /\ UNCHANGED <<given, ppc, maps, setgroups>>

(* Mutant: does not wait for the end of file. *)
ChildReadsNothing ==
    /\ kpc = "read" /\ kpc' = "perform"
    /\ UNCHANGED <<given, ppc, writeEnd, maps, setgroups>>

(* read() returns 0 at the end of file only: nothing is ever written. *)
ChildReads ==
    /\ kpc = "read" /\ writeEnd = {} /\ kpc' = "perform"
    /\ UNCHANGED <<given, ppc, writeEnd, maps, setgroups>>

(* perform_repeatable_options(), which may fail, then execvp() *)
ChildExecs ==
    /\ kpc = "perform" /\ kpc' \in {"exec", "exited"}
    /\ UNCHANGED <<given, ppc, writeEnd, maps, setgroups>>

(* The command ends, or execvp() failed. *)
ChildEnds ==
    /\ kpc = "exec" /\ kpc' = "exited"
    /\ UNCHANGED <<given, ppc, writeEnd, maps, setgroups>>

Init ==
    /\ want \in SUBSET {"uid", "gid"}
    /\ deny_setgroups \in BOOLEAN /\ privileged \in BOOLEAN /\ setgroupsFile \in BOOLEAN
    /\ ppc = "clone" /\ kpc = "none" /\ writeEnd = {"parent"}
    /\ maps = {} /\ setgroups = "allow"

ParentStep == Clone \/ UidMap \/ SetGroups \/ GidMap \/ GidMapRefused \/ ClosePipe \/ WaitChild
ChildStep == ChildCloses \/ ChildReads \/ ChildExecs \/ ChildEnds
Next == ParentStep \/ ChildStep \/ ParentFails
Fairness == WF_usVars(ParentStep) /\ WF_usVars(ChildStep)
Spec == Init /\ [][Next]_usVars /\ Fairness

(* The command runs with all the maps that were asked for, or its parent   *)
(* has failed: as long as the parent lives, closing the pipe is what lets  *)
(* the child go on.                                                        *)
MapsFirst == kpc \in {"perform", "exec"} => want \subseteq maps \/ ppc = "failed"

(* "in order to ensure that the parent sets the UID and GID maps before    *)
(* the child calls execve()"                                               *)
MapsBeforeExec == kpc = "exec" => want \subseteq maps

(* The child does not wait for ever: it sees the end of file whether its   *)
(* parent closes the pipe or fails.                                        *)
ChildGoesOn == kpc = "close" ~> kpc = "exited"
=============================================================================
