----------------------------- MODULE MultiJoin -----------------------------
(***************************************************************************)
(* thread_multijoin: main() joins its threads in the order in which they   *)
(* end.  A thread that is about to end counts itself in numUnjoined and    *)
(* signals; main() waits on the condition variable, scans the table of     *)
(* threads and joins the ones that are marked, all with the mutex held.    *)
(* The mutex and the condition variable behave as in ProdCondvar.          *)
(***************************************************************************)
EXTENDS Integers, FiniteSets, ThreadParams

Thread == 0 .. NumThreads - 1
Main == NumThreads
Free == NumThreads + 1

VARIABLES
    mtx,            \* who holds threadMutex, or Free
    tpc,            \* where each thread is
    loc,            \* the value of numUnjoined it has read
    state,          \* thread[idx].state
    numUnjoined,
    numLive,
    totThreads,
    mpc,            \* where main() is
    idx             \* its loop variable

vars == <<mtx, tpc, loc, state, numUnjoined, numLive, totThreads, mpc, idx>>

-----------------------------------------------------------------------------
(* threadFunc() *)

TGoto(t, from, to) == tpc[t] = from /\ tpc' = [tpc EXCEPT ![t] = to]

(* Mutant: does not wait for the mutex. *)
TLockIgnored(t) ==
    /\ TGoto(t, "lock", "load")
    /\ UNCHANGED <<mtx, loc, state, numUnjoined, numLive, totThreads, mpc, idx>>

TLock(t) ==
    /\ TGoto(t, "lock", "load")
    /\ mtx = Free /\ mtx' = t
    /\ UNCHANGED <<loc, state, numUnjoined, numLive, totThreads, mpc, idx>>

(* numUnjoined++ reads numUnjoined and writes it. *)
TLoad(t) ==
    /\ TGoto(t, "load", "store")
    /\ loc' = [loc EXCEPT ![t] = numUnjoined]
    /\ UNCHANGED <<mtx, state, numUnjoined, numLive, totThreads, mpc, idx>>

TStore(t) ==
    /\ TGoto(t, "store", "mark")
    /\ numUnjoined' = loc[t] + 1
    /\ UNCHANGED <<mtx, loc, state, numLive, totThreads, mpc, idx>>

TMark(t) ==
    /\ TGoto(t, "mark", "unlock")
    /\ state' = [state EXCEPT ![t] = "TERMINATED"]
    /\ UNCHANGED <<mtx, loc, numUnjoined, numLive, totThreads, mpc, idx>>

TUnlock(t) ==
    /\ TGoto(t, "unlock", "signal")
    /\ mtx' = Free
    /\ UNCHANGED <<loc, state, numUnjoined, numLive, totThreads, mpc, idx>>

(* Mutant: takes the mutex again to signal. *)
TSignalLocked(t) ==
    /\ mtx = Free
    /\ TGoto(t, "signal", "ended")
    /\ mpc' = IF mpc = "waiting" THEN "relock" ELSE mpc
    /\ UNCHANGED <<mtx, loc, state, numUnjoined, numLive, totThreads, idx>>

(* pthread_cond_signal(), after the mutex was released, and return *)
TSignal(t) ==
    /\ TGoto(t, "signal", "ended")
    /\ mpc' = IF mpc = "waiting" THEN "relock" ELSE mpc
    /\ UNCHANGED <<mtx, loc, state, numUnjoined, numLive, totThreads, idx>>

-----------------------------------------------------------------------------
(* main() *)

MGoto(from, to) == mpc = from /\ mpc' = to

(* A thread runs as soon as it is created; its first step is a sleep. *)
MCreate ==
    /\ mpc = "create" /\ idx < NumThreads
    /\ idx' = idx + 1
    /\ state' = [state EXCEPT ![idx] = "ALIVE"]
    /\ tpc' = [tpc EXCEPT ![idx] = "lock"]
    /\ UNCHANGED <<mtx, loc, numUnjoined, numLive, totThreads, mpc>>

(* The counters are set without the mutex, when threads may have ended. *)
MCount ==
    /\ MGoto("create", "while") /\ idx = NumThreads
    /\ totThreads' = NumThreads
    /\ numLive' = totThreads'
    /\ UNCHANGED <<mtx, tpc, loc, state, numUnjoined, idx>>

MWhile ==
    /\ MGoto("while", IF numLive > 0 THEN "lock" ELSE "exit")
    /\ UNCHANGED <<mtx, tpc, loc, state, numUnjoined, numLive, totThreads, idx>>

MLock ==
    /\ MGoto("lock", "test")
    /\ mtx = Free /\ mtx' = Main
    /\ UNCHANGED <<tpc, loc, state, numUnjoined, numLive, totThreads, idx>>

(* while (numUnjoined == 0) pthread_cond_wait(): gives up the mutex and    *)
(* waits in one step.                                                      *)
MTest ==
    /\ MGoto("test", IF numUnjoined = 0 THEN "waiting" ELSE "scan")
    /\ mtx' = IF numUnjoined = 0 THEN Free ELSE mtx
    /\ idx' = 0
    /\ UNCHANGED <<tpc, loc, state, numUnjoined, numLive, totThreads>>

MSpurious ==
    /\ MGoto("waiting", "relock")
    /\ UNCHANGED <<mtx, tpc, loc, state, numUnjoined, numLive, totThreads, idx>>

MRelock ==
    /\ MGoto("relock", "test")
    /\ mtx = Free /\ mtx' = Main
    /\ UNCHANGED <<tpc, loc, state, numUnjoined, numLive, totThreads, idx>>

MSkip ==
    /\ mpc = "scan" /\ idx < totThreads /\ state[idx] # "TERMINATED"
    /\ idx' = idx + 1
    /\ UNCHANGED <<mtx, tpc, loc, state, numUnjoined, numLive, totThreads, mpc>>

(* Mutant: does not count the thread it joins out of numUnjoined. *)
MJoinUncounted ==
    /\ mpc = "scan" /\ idx < totThreads /\ state[idx] = "TERMINATED"
    /\ tpc[idx] = "ended"
    /\ state' = [state EXCEPT ![idx] = "JOINED"]
    /\ numLive' = numLive - 1
    /\ idx' = idx + 1
    /\ UNCHANGED <<mtx, tpc, loc, numUnjoined, totThreads, mpc>>

(* pthread_join() blocks until the thread has ended, with the mutex held. *)
MJoin ==
    /\ mpc = "scan" /\ idx < totThreads /\ state[idx] = "TERMINATED"
    /\ tpc[idx] = "ended"
    /\ state' = [state EXCEPT ![idx] = "JOINED"]
    /\ numLive' = numLive - 1
    /\ numUnjoined' = numUnjoined - 1
    /\ idx' = idx + 1
    /\ UNCHANGED <<mtx, tpc, loc, totThreads, mpc>>

MUnlock ==
    /\ MGoto("scan", "while") /\ idx = totThreads
    /\ mtx' = Free
    /\ UNCHANGED <<tpc, loc, state, numUnjoined, numLive, totThreads, idx>>

-----------------------------------------------------------------------------
(* calloc() leaves the table at TS_ALIVE, which is 0. *)
Init ==
    /\ mtx = Free
    /\ tpc = [t \in Thread |-> "none"] /\ loc = [t \in Thread |-> 0]
    /\ state = [t \in Thread |-> "ALIVE"]
    /\ numUnjoined = 0 /\ numLive = 0 /\ totThreads = 0
    /\ mpc = "create" /\ idx = 0

ThreadStep(t) ==
    /\ mpc # "exit"
    /\ TLock(t) \/ TLoad(t) \/ TStore(t) \/ TMark(t) \/ TUnlock(t) \/ TSignal(t)

MainStep ==
    \/ MCreate \/ MCount \/ MWhile \/ MLock \/ MTest \/ MRelock
    \/ MSkip \/ MJoin \/ MUnlock

Next == MainStep \/ MSpurious \/ \E t \in Thread : ThreadStep(t)

(* A thread that waits for the mutex gets it in the end, although others   *)
(* take it meanwhile.  Spurious wakeups are not owed.                      *)
Fairness == SF_vars(MainStep) /\ \A t \in Thread : SF_vars(ThreadStep(t))

Spec == Init /\ [][Next]_vars /\ Fairness

-----------------------------------------------------------------------------
TPC == {"none", "lock", "load", "store", "mark", "unlock", "signal", "ended"}
MPC == {"create", "while", "lock", "test", "waiting", "relock", "scan", "exit"}

TypeOK ==
    /\ mtx \in 0 .. NumThreads + 1
    /\ tpc \in [Thread -> TPC] /\ loc \in [Thread -> Int]
    /\ state \in [Thread -> {"ALIVE", "TERMINATED", "JOINED"}]
    /\ numUnjoined \in 0 .. NumThreads /\ numLive \in 0 .. NumThreads
    /\ totThreads \in 0 .. NumThreads
    /\ mpc \in MPC /\ idx \in 0 .. NumThreads

InState(s) == {t \in Thread : state[t] = s}

(* Whenever the mutex is free, numUnjoined is the number of threads marked *)
(* TS_TERMINATED in the table: main() is not sent to scan for nothing and  *)
(* does not sleep on a thread it could join.                               *)
UnjoinedAgrees == mtx = Free => numUnjoined = Cardinality(InState("TERMINATED"))

(* main() exits only when each thread has ended and was joined, once. *)
ExitMeansAllJoined ==
    mpc = "exit" => \A t \in Thread : tpc[t] = "ended" /\ state[t] = "JOINED"

(* main() never sleeps on threadDied while a thread it could join has      *)
(* nothing left to signal.                                                 *)
NoLostWakeup ==
    (mpc = "waiting" /\ numUnjoined > 0) =>
        \E t \in Thread : tpc[t] \in {"mark", "unlock", "signal"}

(* All threads are joined in the end, although main() joins with the mutex *)
(* held.                                                                   *)
Finishes == <>(mpc = "exit")

=============================================================================
