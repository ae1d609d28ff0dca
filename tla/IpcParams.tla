----------------------------- MODULE IpcParams -----------------------------
(* What the programs with semaphores and with FIFOs are run with. *)
EXTENDS Integers, Sequences, FiniteSets

CONSTANTS
    Proc,       \* svsem_good_init: the processes
    SemOp,      \* SemOp[p]: the number p adds to the semaphore
    Programs,   \* the programs that may be run: "good", "bad"
    MAX_TRIES,  \* how often a process looks at sem_otime
    Killable,   \* the processes that may be killed
    Client,     \* fifo_seqnum: the clients, named by their process IDs
    SeqLen,     \* SeqLen[c]: how many numbers c asks for
    Mortal,     \* the clients that may be killed
    MaxLives,   \* how many times the server is started
    NoClient    \* the server has read no request yet

ASSUME ProcAssumption == IsFiniteSet(Proc) /\ SemOp \in [Proc -> Int] /\ Killable \subseteq Proc
ASSUME ProgramAssumption == Programs \subseteq {"good", "bad"}
ASSUME TriesAssumption == MAX_TRIES \in Nat \ {0}
ASSUME ClientAssumption == IsFiniteSet(Client) /\ Mortal \subseteq Client /\ NoClient \notin Client
ASSUME LenAssumption == SeqLen \in [Client -> Nat \ {0}]   \* GN_GT_0
ASSUME LivesAssumption == MaxLives \in Nat \ {0}
=============================================================================
