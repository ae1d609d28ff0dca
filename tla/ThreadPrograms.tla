--------------------------- MODULE ThreadPrograms ---------------------------
(***************************************************************************)
(* The small thread programs: main() creates threads that                  *)
(*   - add to a global, without a lock or under a mutex, read-write lock,  *)
(*     spin lock or semaphore (thread_incr and its variants);              *)
(*   - call one_time_init() twice (one_time_init);                         *)
(*   - meet at a barrier (pthread_barrier_demo);                           *)
(*   - are cancelled, with a cleanup handler (thread_cleanup), or signalled *)
(*     on a condition variable, or without one (thread_cancel);            *)
(* and joins them.  The sleeps of the programs order nothing: a thread may *)
(* be arbitrarily late.                                                    *)
(***************************************************************************)
EXTENDS Naturals, FiniteSets, ThreadParams

Locked == {"thread_incr_mutex", "thread_incr_rwlock", "thread_incr_spinlock", "thread_incr_psem"}
Cancelling == {"thread_cancel", "thread_cleanup"}
ThreadProgram == Locked \cup Cancelling
                   \cup {"thread_incr", "one_time_init", "barrier", "thread_cleanup sig"}

VARIABLES
    program,
    mpc,          \* where main() is
    idx,          \* the threads it has created, then joined
    tpc,          \* where each thread is
    j,            \* its loop counter
    loc,          \* the value of the global it has read
    mtx,          \* who holds the lock, or Free
    glob,         \* the global; once.called of one_time_init
    waiting,      \* the threads blocked in pthread_barrier_wait()
    cancelled,    \* pthread_cancel() was called
    calls         \* history: calls of init_func(), serial returns of the barrier,
                  \* blocks not freed
tvars == <<program, mpc, idx, tpc, j, loc, mtx, glob, waiting, cancelled, calls>>
main == <<mpc, idx, cancelled>>

NumOf(p) == CASE p = "barrier" -> BarrierSize
              [] p \in Cancelling \cup {"thread_cleanup sig"} -> 1
              [] OTHER -> 2
Size == NumOf(program)
Thr == 0 .. Size - 1
Free == BarrierSize + 2

TGoto(t, from, to) == tpc[t] = from /\ tpc' = [tpc EXCEPT ![t] = to]

-----------------------------------------------------------------------------
(* threadFunc() of thread_incr and its variants *)

TLoop(t) ==
    /\ TGoto(t, "start", IF j[t] = Loops THEN "end"
                         ELSE IF program = "thread_incr" THEN "load" ELSE "lock")
    /\ UNCHANGED <<program, main, j, loc, mtx, glob, waiting, calls>>

(* pthread_mutex_lock(), pthread_rwlock_wrlock(), pthread_spin_lock(),     *)
(* sem_wait(): one thread at a time.                                       *)
TLock(t) ==
    /\ TGoto(t, "lock", "load")
    /\ mtx = Free /\ mtx' = t
    /\ UNCHANGED <<program, main, j, loc, glob, waiting, calls>>

TLoad(t) ==
    /\ TGoto(t, "load", "store")
    /\ loc' = [loc EXCEPT ![t] = glob]
    /\ UNCHANGED <<program, main, j, mtx, glob, waiting, calls>>

(* Mutant: releases the lock before it stores. *)
TStoreUnlocked(t) ==
    /\ tpc[t] \in {"store", "stored"}
    /\ tpc' = [tpc EXCEPT ![t] = IF tpc[t] = "store" /\ program # "thread_incr" THEN "stored"
                                 ELSE "start"]
    /\ mtx' = IF program = "thread_incr" THEN mtx ELSE Free
    /\ glob' = IF tpc[t] = "stored" \/ program = "thread_incr" THEN loc[t] + 1 ELSE glob
    /\ j' = IF tpc'[t] = "start" THEN [j EXCEPT ![t] = @ + 1] ELSE j
    /\ UNCHANGED <<program, main, loc, waiting, calls>>

TStore(t) ==
    /\ TGoto(t, "store", IF program = "thread_incr" THEN "start" ELSE "unlock")
    /\ glob' = loc[t] + 1
    /\ j' = IF program = "thread_incr" THEN [j EXCEPT ![t] = @ + 1] ELSE j
    /\ UNCHANGED <<program, main, loc, mtx, waiting, calls>>

TUnlock(t) ==
    /\ TGoto(t, "unlock", "start")
    /\ mtx' = Free
    /\ j' = [j EXCEPT ![t] = @ + 1]
    /\ UNCHANGED <<program, main, loc, glob, waiting, calls>>

Increment(t) == TLoop(t) \/ TLock(t) \/ TLoad(t) \/ TStore(t) \/ TUnlock(t)

thread_incr(t) == program = "thread_incr" /\ Increment(t)
thread_incr_mutex(t) == program = "thread_incr_mutex" /\ Increment(t)
thread_incr_rwlock(t) == program = "thread_incr_rwlock" /\ Increment(t)
thread_incr_spinlock(t) == program = "thread_incr_spinlock" /\ Increment(t)
thread_incr_psem(t) == program = "thread_incr_psem" /\ Increment(t)

-----------------------------------------------------------------------------
(* one_time_init(), called twice by each thread; glob is once.called *)

OLock(t) ==
    /\ TGoto(t, "start", "test")
    /\ mtx = Free /\ mtx' = t
    /\ UNCHANGED <<program, main, j, loc, glob, waiting, calls>>

(* init_func() is called with the mutex held, before called is set. *)
OTest(t) ==
    /\ TGoto(t, "test", IF glob = 0 THEN "called" ELSE "unlock")
    /\ calls' = IF glob = 0 THEN calls + 1 ELSE calls
    /\ UNCHANGED <<program, main, j, loc, mtx, glob, waiting>>

OCalled(t) ==
    /\ TGoto(t, "called", "unlock")
    /\ glob' = 1
    /\ UNCHANGED <<program, main, j, loc, mtx, waiting, calls>>

OUnlock(t) ==
    /\ TGoto(t, "unlock", IF j[t] = 1 THEN "end" ELSE "start")
    /\ mtx' = Free
    /\ j' = [j EXCEPT ![t] = @ + 1]
    /\ UNCHANGED <<program, main, loc, glob, waiting, calls>>

(* Mutant: tests called before it takes the mutex. *)
one_time_init_late(t) ==
    /\ program = "one_time_init"
    /\ \/ /\ TGoto(t, "start", IF glob = 0 THEN "lock" ELSE "unlock")
          /\ UNCHANGED <<program, main, j, loc, mtx, glob, waiting, calls>>
       \/ /\ TGoto(t, "lock", "called")
          /\ mtx = Free /\ mtx' = t
          /\ calls' = calls + 1
          /\ UNCHANGED <<program, main, j, loc, glob, waiting>>
       \/ OCalled(t) \/ OUnlock(t)

one_time_init(t) == program = "one_time_init" /\ (OLock(t) \/ OTest(t) \/ OCalled(t) \/ OUnlock(t))

-----------------------------------------------------------------------------
(* threadFunc() of pthread_barrier_demo *)

(* pthread_barrier_wait(): the last to arrive lets all of them go on and   *)
(* resets the barrier; one of them, any one, gets the serial return value, *)
(* which calls counts.                                                     *)
BArrive(t, need) ==
    /\ tpc[t] = "start" /\ j[t] < NumBarriers
    /\ IF Cardinality(waiting) + 1 < need
       THEN /\ waiting' = waiting \cup {t}
            /\ tpc' = [tpc EXCEPT ![t] = "blocked"]
            /\ UNCHANGED calls
       ELSE /\ waiting' = {}
            /\ tpc' = [u \in DOMAIN tpc |-> IF u \in waiting \cup {t} THEN "passed" ELSE tpc[u]]
            /\ calls' = calls + 1
    /\ UNCHANGED <<program, main, j, loc, mtx, glob>>

BPassed(t) ==
    /\ TGoto(t, "passed", "start")
    /\ j' = [j EXCEPT ![t] = @ + 1]
    /\ UNCHANGED <<program, main, loc, mtx, glob, waiting, calls>>

BEnd(t) ==
    /\ TGoto(t, "start", "end") /\ j[t] = NumBarriers
    /\ UNCHANGED <<program, main, j, loc, mtx, glob, waiting, calls>>

(* Mutant: the barrier is initialised for one thread less. *)
barrier_short(t) == program = "barrier" /\ (BArrive(t, BarrierSize - 1) \/ BPassed(t) \/ BEnd(t))

barrier(t) == program = "barrier" /\ (BArrive(t, BarrierSize) \/ BPassed(t) \/ BEnd(t))

-----------------------------------------------------------------------------
(* threadFunc() of thread_cleanup; calls counts the block it has allocated *)

CMalloc(t) ==
    /\ TGoto(t, "start", "printf")
    /\ calls' = calls + 1
    /\ UNCHANGED <<program, main, j, loc, mtx, glob, waiting>>

(* printf() may be a cancellation point, and the handler is not pushed yet. *)
CPrintf(t) ==
    /\ \/ TGoto(t, "printf", "lock")
       \/ cancelled /\ TGoto(t, "printf", "leaked")
    /\ UNCHANGED <<program, main, j, loc, mtx, glob, waiting, calls>>

CLock(t) ==
    /\ \/ TGoto(t, "lock", "test")
       \/ TGoto(t, "relock", "test")
       \/ TGoto(t, "relock to cancel", "cancel")
    /\ mtx = Free /\ mtx' = t
    /\ UNCHANGED <<program, main, j, loc, glob, waiting, calls>>

(* while (glob == 0): main() sets glob without the mutex, so it can change *)
(* between this test and the wait.                                         *)
CTest(t) ==
    /\ TGoto(t, "test", IF glob = 0 THEN "wait" ELSE "pop")
    /\ UNCHANGED <<program, main, j, loc, mtx, glob, waiting, calls>>

(* pthread_cond_wait(), a cancellation point *)
CWait(t) ==
    /\ TGoto(t, "wait", IF cancelled THEN "cancel" ELSE "waiting")
    /\ mtx' = IF cancelled THEN mtx ELSE Free
    /\ UNCHANGED <<program, main, j, loc, glob, waiting, calls>>

CCancelled(t) ==
    /\ cancelled /\ TGoto(t, "waiting", "relock to cancel")
    /\ UNCHANGED <<program, main, j, loc, mtx, glob, waiting, calls>>

CSpurious(t) ==
    /\ TGoto(t, "waiting", "relock")
    /\ UNCHANGED <<program, main, j, loc, mtx, glob, waiting, calls>>

(* Mutant: frees the block and forgets the mutex. *)
cleanupHandlerKeeps(t) ==
    /\ TGoto(t, "pop", "end") \/ TGoto(t, "cancel", "cancelled")
    /\ calls' = calls - 1
    /\ UNCHANGED <<program, main, j, loc, mtx, glob, waiting>>

(* cleanupHandler(), popped or run by the cancellation *)
cleanupHandler(t) ==
    /\ TGoto(t, "pop", "end") \/ TGoto(t, "cancel", "cancelled")
    /\ calls' = calls - 1
    /\ mtx' = Free
    /\ UNCHANGED <<program, main, j, loc, glob, waiting>>

thread_cleanup(t) ==
    /\ program \in {"thread_cleanup", "thread_cleanup sig"}
    /\ \/ CMalloc(t) \/ CPrintf(t) \/ CLock(t) \/ CTest(t) \/ CWait(t)
       \/ CCancelled(t) \/ cleanupHandler(t)

(* thread_cancel: the thread prints and sleeps for ever, and ends at one   *)
(* of these cancellation points.                                           *)
thread_cancel(t) ==
    /\ program = "thread_cancel" /\ cancelled
    /\ TGoto(t, "start", "cancelled")
    /\ UNCHANGED <<program, main, j, loc, mtx, glob, waiting, calls>>

-----------------------------------------------------------------------------
(* main() *)

MCreate ==
    /\ mpc = "create" /\ idx < Size
    /\ idx' = idx + 1
    /\ tpc' = [tpc EXCEPT ![idx] = "start"]
    /\ UNCHANGED <<program, mpc, j, loc, mtx, glob, waiting, cancelled, calls>>

MCreated ==
    /\ mpc = "create" /\ idx = Size
    /\ mpc' = CASE program \in Cancelling -> "cancel"
                [] program = "thread_cleanup sig" -> "set"
                [] OTHER -> "join"
    /\ idx' = 0
    /\ UNCHANGED <<program, tpc, j, loc, mtx, glob, waiting, cancelled, calls>>

MCancel ==
    /\ mpc = "cancel" /\ mpc' = "join"
    /\ cancelled' = TRUE
    /\ UNCHANGED <<program, idx, tpc, j, loc, mtx, glob, waiting, calls>>

MSet ==
    /\ mpc = "set" /\ mpc' = "signal"
    /\ glob' = 1
    /\ UNCHANGED <<program, idx, tpc, j, loc, mtx, waiting, cancelled, calls>>

MSignal ==
    /\ mpc = "signal" /\ mpc' = "join"
    /\ tpc' = [tpc EXCEPT ![0] = IF @ = "waiting" THEN "relock" ELSE @]
    /\ UNCHANGED <<program, idx, j, loc, mtx, glob, waiting, cancelled, calls>>

Ended(t) == tpc[t] \in {"end", "cancelled", "leaked"}

MJoin ==
    /\ mpc = "join" /\ Ended(idx)
    /\ idx' = idx + 1
    /\ mpc' = IF idx' = Size THEN "exit" ELSE mpc
    /\ UNCHANGED <<program, tpc, j, loc, mtx, glob, waiting, cancelled, calls>>

-----------------------------------------------------------------------------
Init ==
    /\ program \in ThreadProgram
    /\ mpc = "create" /\ idx = 0 /\ cancelled = FALSE
    /\ tpc = [t \in 0 .. Size - 1 |-> "none"]
    /\ j = [t \in 0 .. Size - 1 |-> 0] /\ loc = [t \in 0 .. Size - 1 |-> 0]
    /\ mtx = Free /\ glob = 0 /\ waiting = {} /\ calls = 0

(* exit() ends every thread. *)
ThreadStep(t) ==
    /\ mpc # "exit"
    /\ \/ thread_incr(t) \/ thread_incr_mutex(t) \/ thread_incr_rwlock(t)
       \/ thread_incr_spinlock(t) \/ thread_incr_psem(t)
       \/ one_time_init(t) \/ barrier(t) \/ thread_cleanup(t) \/ thread_cancel(t)
Spurious == mpc # "exit" /\ \E t \in Thr : CSpurious(t)
MainStep == MCreate \/ MCreated \/ MCancel \/ MSet \/ MSignal \/ MJoin

Next == MainStep \/ Spurious \/ \E t \in Thr : ThreadStep(t)

Spec == Init /\ [][Next]_tvars /\ SF_tvars(MainStep) /\ \A t \in 0 .. BarrierSize + 1 : SF_tvars(t \in Thr /\ ThreadStep(t))

-----------------------------------------------------------------------------
(* What main() finds when it has joined the threads.  Under a lock no      *)
(* increment is lost; without one the result lies between two (the first   *)
(* store of one thread can undo all but one of the other's) and all of     *)
(* them.  init_func() was called once; every barrier had one serial        *)
(* thread; the cleanup handler has left no mutex locked and, unless the    *)
(* thread ended before it was pushed, no block allocated; thread_cancel's  *)
(* thread was cancelled.                                                   *)
ExitIsRight ==
    mpc = "exit" =>
        CASE program \in Locked -> glob = 2 * Loops
          [] program = "thread_incr" -> glob \in (IF Loops = 1 THEN 1 ELSE 2) .. 2 * Loops
          [] program = "one_time_init" -> calls = 1
          [] program = "barrier" -> calls = NumBarriers
          [] program = "thread_cancel" -> tpc[0] = "cancelled"
          [] OTHER -> mtx = Free /\ (calls = 0 \/ tpc[0] = "leaked")

(* A thread that has passed a barrier knows that every thread has come to  *)
(* it; one that has returned from one_time_init() knows that init_func()   *)
(* has been called, whoever called it.                                     *)
InStep ==
    /\ program = "barrier" =>
         \A t, u \in Thr : j[t] + (IF tpc[t] = "passed" THEN 1 ELSE 0)
                              <= j[u] + (IF tpc[u] \in {"blocked", "passed"} THEN 1 ELSE 0)
    /\ program = "one_time_init" => \A t \in Thr : j[t] > 0 => calls = 1 /\ glob = 1

(* thread_cleanup's main() sets glob and signals without the mutex: a      *)
(* thread that has tested glob and does not wait yet misses both.          *)
SignalMissed == program = "thread_cleanup sig" /\ mpc = "join" /\ tpc[0] = "waiting" /\ glob = 1

(* main() joins all threads in the end, unless the signal was missed. *)
Finishes == <>(mpc = "exit" \/ SignalMissed)

=============================================================================
