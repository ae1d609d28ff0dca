-------------------------------- MODULE MCIpc --------------------------------
(***************************************************************************)
(* The programs that synchronise through System V IPC and FIFOs, one of    *)
(* which is run (prog); the others stay in their initial state.  Three     *)
(* different bytes go through a segment of two, so that there are full,    *)
(* short and final empty blocks; three processes add 1, 2 and -1 to a      *)
(* semaphore; three clients ask for one, two and three sequence numbers.   *)
(***************************************************************************)
EXTENDS ShmXfr, IpcParams, TLC

CONSTANTS p1, p2, p3, c1, c2, c3

VARIABLES prog,
    program, keySet, semval, otime, pc, tries, added, creator,
    svFifo, requests, spc, life, seqNum, req, clFifo, cpc, answered, resp, result

SI == INSTANCE SemInit WITH semSet <- keySet
FS == INSTANCE FifoSeqnum

MCInput == <<1, 2, 3>>
MCProc == {p1, p2, p3}
MCSemOp == (p1 :> 1) @@ (p2 :> 2) @@ (p3 :> -1)
MCSeqLen == (c1 :> 1) @@ (c2 :> 2) @@ (c3 :> 3)

siVars == <<program, keySet, semval, otime, pc, tries, added, creator>>
fsVars == <<svFifo, requests, spc, life, seqNum, req, clFifo, cpc, answered, resp, result>>
sysVars == <<prog, siVars, fsVars, vars>>

SysInit ==
    /\ Init /\ SI!Init /\ FS!Init
    /\ prog \in {"svshm_xfr", "svsem_init", "fifo_seqnum"}
    /\ prog # "svshm_xfr" => ~lateReader
    /\ prog # "svsem_init" => program = "good"

Writes == prog = "svshm_xfr" /\ WriterNext /\ UNCHANGED <<prog, siVars, fsVars>>
Reads == prog = "svshm_xfr" /\ ReaderNext /\ UNCHANGED <<prog, siVars, fsVars>>
SemStep(p) == prog = "svsem_init" /\ SI!Step(p) /\ UNCHANGED <<prog, vars, fsVars>>
SemKill(p) == prog = "svsem_init" /\ SI!Kill(p) /\ UNCHANGED <<prog, vars, fsVars>>

FifoFrame == prog = "fifo_seqnum" /\ UNCHANGED <<prog, vars, siVars>>
FifoServer == FifoFrame /\ FS!ServerStep
FifoClient(c) == FifoFrame /\ FS!ClientStep(c)
FifoFault == FifoFrame /\ (FS!SKill \/ FS!SStart \/ \E c \in Client : FS!COpenFails(c) \/ FS!CKill(c))

SysNext ==
    \/ Writes \/ Reads
    \/ \E p \in Proc : SemStep(p) \/ SemKill(p)
    \/ FifoServer \/ FifoFault \/ \E c \in Client : FifoClient(c)

(* The fairness of the three modules *)
SysSpec ==
    /\ SysInit /\ [][SysNext]_sysVars
    /\ WF_sysVars(Writes \/ FifoServer) /\ WF_sysVars(Reads)
    /\ \A p \in Proc : WF_sysVars(SemStep(p))
    /\ \A c \in Client : WF_sysVars(FifoClient(c))

(* svsem_good_init: the value is the sum of the operations done.           *)
(* svsem_bad_init: it is the sum of some of them, the creator's own among  *)
(* them: only operations before the creator's SETVAL are wiped out.        *)
OpsAccounted == SI!NoLostOp /\ SI!BadLosesOnlyEarlyOps

(* svsem_good_init: the creator's no-op semop(), which waits for 0, finds  *)
(* 0, whatever the other processes do.                                     *)
NoOpNeverBlocks == SI!NoOpNeverBlocks

(* svsem_good_init: a process gives up ("Existing semaphore not            *)
(* initialized", svsem_good_init.c:78) only while the set is not           *)
(* initialised.                                                            *)
FatalMeansUninitialised == SI!FatalMeansUninitialised

(* fifo_seqnum: no number is handed out twice by one server, whoever was   *)
(* killed when.                                                            *)
RangesDisjoint == FS!RangesDisjoint

(* fifo_seqnum: the server finds no FIFO only for a client that gave up.   *)
FifoBeforeRequest == FS!FifoBeforeRequest

(* fifo_seqnum: only a client killed between its request and its own       *)
(* open() can hold the server up.                                          *)
HeldUpOnlyByKilled == FS!HeldUpOnlyByKilled

(* fifo_seqnum: a client that has reached the server's FIFO gets its       *)
(* numbers, as long as nobody is killed and its own open() succeeds.       *)
Served == FS!Served

(* The transfer finishes unless a call failed, and so does the retry loop  *)
(* of every process that waits for the initialisation.                     *)
Finishes ==
    /\ prog = "svshm_xfr" ~> \/ wpc = Done /\ rpc = Done
                             \/ wpc = Failed
                             \/ rpc = Failed
    /\ \A p \in Proc :
         prog = "svsem_init" ~> pc[p] \in {"op", "done", "failed", "killed"}
=============================================================================
