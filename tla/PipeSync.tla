------------------------------ MODULE PipeSync ------------------------------
(***************************************************************************)
(* pipe_sync: a parent waits for the work of its children with a pipe that *)
(* nobody writes to.  Its read() returns end of file when the last         *)
(* descriptor for the write end is closed, by a child that is done, by a   *)
(* process that ends, or by the parent itself.                             *)
(***************************************************************************)
EXTENDS SigParams, FiniteSets

VARIABLES
    pc,
    kid,          \* "none", "working" or "closed", for each child
    wrEnd         \* the parent has the write end open
pipeVars == <<pc, kid, wrEnd>>

Kid == 1 .. NumKids
Unborn == {c \in Kid : kid[c] = "none"}

(* A child inherits the write end. *)
Fork ==
    /\ pc = "fork"
    /\ kid' = [kid EXCEPT ![CHOOSE c \in Unborn : \A d \in Unborn : c <= d] = "working"]
    /\ pc' = IF Cardinality(Unborn) = 1 THEN "close" ELSE "fork"
    /\ UNCHANGED wrEnd

ForkFails ==
    /\ pc = "fork" /\ pc' = "failed" /\ wrEnd' = FALSE
    /\ UNCHANGED kid

(* Mutant: the parent keeps its write end. *)
CloseForgotten ==
    /\ pc = "close" /\ pc' = "read"
    /\ UNCHANGED <<kid, wrEnd>>

Close ==
    /\ pc = "close" /\ pc' = "read" /\ wrEnd' = FALSE
    /\ UNCHANGED kid

Read ==
    /\ pc = "read" /\ ~wrEnd /\ \A c \in Kid : kid[c] # "working"
    /\ pc' = "exit"
    /\ UNCHANGED <<kid, wrEnd>>

(* The child is done, or getInt() ends it. *)
KidStep ==
    /\ \E c \in Kid : kid[c] = "working" /\ kid' = [kid EXCEPT ![c] = "closed"]
    /\ UNCHANGED <<pc, wrEnd>>

Init == pc = "fork" /\ kid = [c \in Kid |-> "none"] /\ wrEnd = TRUE

Own == Fork \/ Close \/ Read
Next == Own \/ ForkFails \/ KidStep
Spec == Init /\ [][Next]_pipeVars /\ WF_pipeVars(Own) /\ WF_pipeVars(KidStep)

(* The parent goes on only when no child works any more. *)
AllSynchronised == pc = "exit" => \A c \in Kid : kid[c] = "closed"

(* And it does go on, if it could create the children. *)
GoesOn == <>(pc \in {"exit", "failed"})
=============================================================================
