------------------------------ MODULE SemInit ------------------------------
(***************************************************************************)
(* svsem_good_init and svsem_bad_init: any number of processes start at    *)
(* once, each wants to add its number to one System V semaphore, and the   *)
(* one whose semget(IPC_EXCL) succeeds has to initialise it.  Creating the *)
(* set and SETVAL are two steps.  The good program makes the others wait   *)
(* for a sem_otime that the creator's no-op semop() sets; the bad one does *)
(* not.                                                                    *)
(*                                                                         *)
(* A process may be killed at any point (Killable).  sem_otime is reduced  *)
(* to whether it is still 0.                                               *)
(***************************************************************************)
EXTENDS IpcParams, FiniteSetsExt

VARIABLES
    program,  \* which of the two all processes run
    semSet,   \* the set with key 12345 exists
    semval,   \* its value
    otime,    \* its sem_otime is not 0
    pc,       \* where each process is
    tries,    \* j of the retry loop
    added,    \* history: the processes whose operation was done
    creator   \* history: the process that has created the set

vars == <<program, semSet, semval, otime, pc, tries, added, creator>>

PC == {"create", "setval", "noop", "get", "stat", "sleep", "op", "done", "failed", "killed"}

Goto(p, from, to) == pc[p] = from /\ pc' = [pc EXCEPT ![p] = to]

(* semop() blocks while the result would be negative; 0 waits for 0. *)
SemopReady(n) == IF n = 0 THEN semval = 0 ELSE semval + n >= 0

(* semget(IPC_CREAT | IPC_EXCL): one process creates the set. *)
Create(p) ==
    /\ ~semSet
    /\ Goto(p, "create", "setval")
    /\ semSet' = TRUE /\ semval' = 0 /\ otime' = FALSE
    /\ creator' = {p}
    /\ UNCHANGED <<program, tries, added>>

(* EEXIST: it was created by another process; get its ID. *)
CreateExists(p) ==
    /\ semSet
    /\ Goto(p, "create", "get")
    /\ UNCHANGED <<program, semSet, semval, otime, tries, added, creator>>

(* Mutant: initialises the semaphore as available. *)
SetValOne(p) ==
    /\ Goto(p, "setval", IF program = "good" THEN "noop" ELSE "op")
    /\ semval' = 1
    /\ UNCHANGED <<program, semSet, otime, tries, added, creator>>

SetVal(p) ==
    /\ Goto(p, "setval", IF program = "good" THEN "noop" ELSE "op")
    /\ semval' = 0
    /\ UNCHANGED <<program, semSet, otime, tries, added, creator>>

(* The creator's no-op waits for 0 and sets sem_otime. *)
NoOp(p) ==
    /\ SemopReady(0)
    /\ Goto(p, "noop", "op")
    /\ otime' = TRUE
    /\ UNCHANGED <<program, semSet, semval, tries, added, creator>>

(* The second semget().  The bad program goes on to its operation. *)
Get(p) ==
    /\ semSet
    /\ Goto(p, "get", IF program = "good" THEN "stat" ELSE "op")
    /\ tries' = [tries EXCEPT ![p] = 0]
    /\ UNCHANGED <<program, semSet, semval, otime, added, creator>>

(* Mutant: goes on without looking at sem_otime. *)
StatIgnored(p) ==
    /\ Goto(p, "stat", "op")
    /\ UNCHANGED <<program, semSet, semval, otime, tries, added, creator>>

(* IPC_STAT: leave the loop when sem_otime is set. *)
Stat(p) ==
    /\ Goto(p, "stat", IF otime THEN "op" ELSE "sleep")
    /\ UNCHANGED <<program, semSet, semval, otime, tries, added, creator>>

(* Mutant: the tries are not counted. *)
SleepUncounted(p) ==
    /\ Goto(p, "sleep", "stat")
    /\ UNCHANGED <<program, semSet, semval, otime, tries, added, creator>>

(* sleep(1), j++; after MAX_TRIES looks the process gives up. *)
Sleep(p) ==
    /\ tries' = [tries EXCEPT ![p] = @ + 1]
    /\ Goto(p, "sleep", IF tries[p] + 1 < MAX_TRIES THEN "stat" ELSE "failed")
    /\ UNCHANGED <<program, semSet, semval, otime, added, creator>>

(* The operation the user asked for; it too sets sem_otime. *)
Op(p) ==
    /\ SemopReady(SemOp[p])
    /\ Goto(p, "op", "done")
    /\ semval' = semval + SemOp[p]
    /\ otime' = TRUE
    /\ added' = added \cup {p}
    /\ UNCHANGED <<program, semSet, tries, creator>>

Running(p) == pc[p] \notin {"done", "failed", "killed"}

Kill(p) ==
    /\ p \in Killable /\ Running(p)
    /\ pc' = [pc EXCEPT ![p] = "killed"]
    /\ UNCHANGED <<program, semSet, semval, otime, tries, added, creator>>

Init ==
    /\ program \in Programs
    /\ semSet = FALSE /\ semval = 0 /\ otime = FALSE
    /\ pc = [p \in Proc |-> "create"]
    /\ tries = [p \in Proc |-> 0]
    /\ added = {} /\ creator = {}

Step(p) == \/ Create(p) \/ CreateExists(p) \/ SetVal(p) \/ NoOp(p) \/ Get(p)
           \/ Stat(p) \/ Sleep(p) \/ Op(p)

Next == \E p \in Proc : Step(p) \/ Kill(p)

(* A process whose call can return goes on. *)
Fairness == \A p \in Proc : WF_vars(Step(p))

Spec == Init /\ [][Next]_vars /\ Fairness

-----------------------------------------------------------------------------
TypeOK ==
    /\ program \in Programs
    /\ semSet \in BOOLEAN /\ semval \in Int /\ otime \in BOOLEAN
    /\ pc \in [Proc -> PC]
    /\ tries \in [Proc -> 0 .. MAX_TRIES]
    /\ added \subseteq Proc /\ creator \subseteq Proc

(* No operation is lost: the value is the sum of the operations done, so   *)
(* the creator's SETVAL cannot wipe out what another process has added.    *)
NoLostOp == program = "good" => semval = MapThenSumSet(LAMBDA p : SemOp[p], added)

(* The creator's no-op semop(), which waits for 0, finds 0: no other       *)
(* process can slip an operation between SETVAL and sem_otime and leave    *)
(* everybody waiting.                                                      *)
NoOpNeverBlocks == \A p \in Proc : pc[p] = "noop" => SemopReady(0)

(* "wait and retry": a process that gives up with "Existing semaphore not  *)
(* initialized" does so while that is true.                                *)
FatalMeansUninitialised ==
    [][\A p \in Proc : pc[p] # "failed" /\ pc'[p] = "failed" => ~otime]_vars

(* The retry loop ends: every process comes to its own operation, gives up *)
(* or is killed.                                                           *)
Settles == \A p \in Proc : <>(pc[p] \in {"op", "done", "failed", "killed"})

(* The bad program: the creator's SETVAL may wipe out operations that came *)
(* before it, but never one that came after it: the value is the sum of    *)
(* some of the operations done, the creator's own among them.              *)
BadLosesOnlyEarlyOps ==
    program = "bad" =>
        \E kept \in SUBSET added :
            /\ semval = MapThenSumSet(LAMBDA p : SemOp[p], kept)
            /\ creator \cap added \subseteq kept

=============================================================================
