---------------------------- MODULE ProdCondvar ----------------------------
(***************************************************************************)
(* prod_condvar: producer threads add units to avail, the main thread      *)
(* consumes them.  A mutex protects avail; a condition variable saves the  *)
(* main thread from polling (prod_no_condvar polls).                       *)
(*                                                                         *)
(* pthread_cond_signal() wakes a thread that waits at that moment and is   *)
(* lost otherwise; pthread_cond_wait() gives up the mutex and starts to    *)
(* wait in one step, may return without a signal, and takes the mutex      *)
(* again before it returns.  main() creates the producers one by one while *)
(* the first ones already run.                                             *)
(***************************************************************************)
EXTENDS Integers, FiniteSetsExt, ThreadParams

N == Len(Counts)
Producer == 1 .. N
Main == 0
Free == N + 1

VARIABLES
    program,      \* which of the two is run
    avail,        \* units produced and not yet consumed
    mtx,          \* who holds the mutex, or Free
    ppc,          \* where each producer is
    made,         \* its loop counter j
    loc,          \* the value of avail it has read
    mpc,          \* where main() is
    created,      \* the producers created so far
    totRequired,
    numConsumed,
    done

vars == <<program, avail, mtx, ppc, made, loc, mpc, created, totRequired, numConsumed, done>>
main == <<mpc, created, totRequired, numConsumed, done>>

-----------------------------------------------------------------------------
(* producer() *)

PGoto(p, from, to) == ppc[p] = from /\ ppc' = [ppc EXCEPT ![p] = to]

PLoop(p) ==
    /\ PGoto(p, "loop", IF made[p] < Counts[p] THEN "lock" ELSE "end")
    /\ UNCHANGED <<program, avail, mtx, made, loc, main>>

(* Mutant: does not wait for the mutex. *)
PLockIgnored(p) ==
    /\ PGoto(p, "lock", "load")
    /\ UNCHANGED <<program, avail, mtx, made, loc, main>>

PLock(p) ==
    /\ mtx = Free /\ mtx' = p
    /\ PGoto(p, "lock", "load")
    /\ UNCHANGED <<program, avail, made, loc, main>>

(* avail++ reads avail and writes it. *)
PLoad(p) ==
    /\ PGoto(p, "load", "store")
    /\ loc' = [loc EXCEPT ![p] = avail]
    /\ UNCHANGED <<program, avail, mtx, made, main>>

PStore(p) ==
    /\ PGoto(p, "store", "unlock")
    /\ avail' = loc[p] + 1
    /\ UNCHANGED <<program, mtx, made, loc, main>>

PUnlock(p) ==
    /\ mtx' = Free
    /\ PGoto(p, "unlock", IF program = "condvar" THEN "signal" ELSE "loop")
    /\ made' = IF program = "condvar" THEN made ELSE [made EXCEPT ![p] = @ + 1]
    /\ UNCHANGED <<program, avail, loc, main>>

(* Mutant: signals only if there is one unit, to save signals. *)
PSignalIfFirst(p) ==
    /\ PGoto(p, "signal", "loop")
    /\ made' = [made EXCEPT ![p] = @ + 1]
    /\ mpc' = IF mpc = "waiting" /\ avail = 1 THEN "relock" ELSE mpc
    /\ UNCHANGED <<program, avail, mtx, loc, created, totRequired, numConsumed, done>>

(* The signal is sent after the mutex was released. *)
PSignal(p) ==
    /\ PGoto(p, "signal", "loop")
    /\ made' = [made EXCEPT ![p] = @ + 1]
    /\ mpc' = IF mpc = "waiting" THEN "relock" ELSE mpc
    /\ UNCHANGED <<program, avail, mtx, loc, created, totRequired, numConsumed, done>>

-----------------------------------------------------------------------------
(* main() *)

MGoto(from, to) == mpc = from /\ mpc' = to

(* Mutant: the total is that of the last argument. *)
MCreateAssigns ==
    /\ mpc = "create" /\ created < N
    /\ created' = created + 1
    /\ totRequired' = Counts[created + 1]
    /\ ppc' = [ppc EXCEPT ![created + 1] = "loop"]
    /\ UNCHANGED <<program, avail, mtx, made, loc, mpc, numConsumed, done>>

MCreate ==
    /\ mpc = "create" /\ created < N
    /\ created' = created + 1
    /\ totRequired' = totRequired + Counts[created + 1]
    /\ ppc' = [ppc EXCEPT ![created + 1] = "loop"]
    /\ UNCHANGED <<program, avail, mtx, made, loc, mpc, numConsumed, done>>

MCreated ==
    /\ MGoto("create", "lock") /\ created = N
    /\ UNCHANGED <<program, avail, mtx, ppc, made, loc, created, totRequired, numConsumed, done>>

MLock ==
    /\ MGoto("lock", IF program = "condvar" THEN "test" ELSE "consume")
    /\ mtx = Free /\ mtx' = Main
    /\ UNCHANGED <<program, avail, ppc, made, loc, created, totRequired, numConsumed, done>>

(* while (avail == 0) pthread_cond_wait() *)
MTest ==
    /\ mpc = "test"
    /\ mpc' = IF avail = 0 THEN "waiting" ELSE "consume"
    /\ mtx' = IF avail = 0 THEN Free ELSE mtx
    /\ UNCHANGED <<program, avail, ppc, made, loc, created, totRequired, numConsumed, done>>

MSpurious ==
    /\ MGoto("waiting", "relock")
    /\ UNCHANGED <<program, avail, mtx, ppc, made, loc, created, totRequired, numConsumed, done>>

MRelock ==
    /\ MGoto("relock", "test")
    /\ mtx = Free /\ mtx' = Main
    /\ UNCHANGED <<program, avail, ppc, made, loc, created, totRequired, numConsumed, done>>

(* while (avail > 0): one unit. *)
MConsume ==
    /\ mpc = "consume" /\ avail > 0
    /\ numConsumed' = numConsumed + 1
    /\ avail' = avail - 1
    /\ done' = (numConsumed' >= totRequired)
    /\ UNCHANGED <<program, mtx, ppc, made, loc, mpc, created, totRequired>>

MUnlock ==
    /\ MGoto("consume", IF done THEN "exit" ELSE "lock")
    /\ avail = 0
    /\ mtx' = Free
    /\ UNCHANGED <<program, avail, ppc, made, loc, created, totRequired, numConsumed, done>>

-----------------------------------------------------------------------------
Init ==
    /\ program \in Programs
    /\ avail = 0 /\ mtx = Free
    /\ ppc = [p \in Producer |-> "none"] /\ made = [p \in Producer |-> 0]
    /\ loc = [p \in Producer |-> 0]
    /\ mpc = "create" /\ created = 0 /\ totRequired = 0
    /\ numConsumed = 0 /\ done = FALSE

(* exit() ends every thread. *)
ProducerStep(p) == mpc # "exit" /\ (PLoop(p) \/ PLock(p) \/ PLoad(p) \/ PStore(p)
                                    \/ PUnlock(p) \/ PSignal(p))
MainStep == MCreate \/ MCreated \/ MLock \/ MTest \/ MRelock \/ MConsume \/ MUnlock

Next == MainStep \/ MSpurious \/ \E p \in Producer : ProducerStep(p)

(* Threads run when they can; one that waits for the mutex gets it in the  *)
(* end, although others take it meanwhile.  Spurious wakeups are not owed. *)
Fairness == SF_vars(MainStep) /\ \A p \in Producer : SF_vars(ProducerStep(p))

Spec == Init /\ [][Next]_vars /\ Fairness

-----------------------------------------------------------------------------
PPC == {"none", "loop", "lock", "load", "store", "unlock", "signal", "end"}
MPC == {"create", "lock", "test", "waiting", "relock", "consume", "exit"}

TypeOK ==
    /\ program \in Programs
    /\ avail \in Nat /\ mtx \in 0 .. N + 1
    /\ ppc \in [Producer -> PPC] /\ made \in [Producer -> Nat]
    /\ loc \in [Producer -> Nat]
    /\ mpc \in MPC /\ created \in 0 .. N
    /\ totRequired \in Nat /\ numConsumed \in Nat /\ done \in BOOLEAN

(* Units the producers have added; one is counted in made after its signal. *)
Added == [p \in Producer |-> made[p] + (IF ppc[p] \in {"unlock", "signal"} THEN 1 ELSE 0)]
Produced == MapThenSumSet(LAMBDA p : Added[p], Producer)

(* No unit is lost or counted twice in avail and numConsumed, whatever the *)
(* order in which the threads change them.                                 *)
UnitsConserved == avail + numConsumed = Produced

(* main() exits only when every thread has produced all its units, and it  *)
(* has consumed them all.                                                  *)
ExitMeansAllConsumed ==
    mpc = "exit" => /\ avail = 0
                    /\ numConsumed = MapThenSumSet(LAMBDA p : Counts[p], Producer)

(* main() never sleeps on the condition variable while there are units and *)
(* no signal is on its way: no wakeup is lost.                             *)
NoLostWakeup ==
    (mpc = "waiting" /\ avail > 0) => \E p \in Producer : ppc[p] \in {"unlock", "signal"}

(* Everything is consumed in the end, and main() exits. *)
Finishes == <>(mpc = "exit")

=============================================================================
