---------------------------- MODULE ThreadParams ----------------------------
(* The arguments of the thread programs. *)
EXTENDS Naturals, Sequences

CONSTANTS
    Counts,       \* prod_condvar: Counts[i] is the number of units of producer i
    Programs,     \* which of its two variants may be run: "condvar", "poll"
    NumThreads,   \* thread_multijoin: argc - 1
    Loops,        \* thread_incr: num-loops
    NumBarriers,  \* pthread_barrier_demo: num-barriers
    BarrierSize   \* and num-threads

(* With nothing to produce, main() never leaves its loop: done is only set *)
(* when a unit is consumed.                                                *)
ASSUME CountsAssumption == Counts \in Seq(Nat) /\ \E i \in 1 .. Len(Counts) : Counts[i] > 0
ASSUME ProgramAssumption == Programs \subseteq {"condvar", "poll"}
ASSUME NumThreadsAssumption == NumThreads \in Nat \ {0}
ASSUME LoopsAssumption == Loops \in Nat \ {0}
ASSUME BarrierAssumption == NumBarriers \in Nat /\ BarrierSize \in Nat \ {0}
=============================================================================
