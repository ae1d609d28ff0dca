---------------------------- MODULE TimerThread ----------------------------
(***************************************************************************)
(* ptmr_sigev_thread: each notification of a timer runs threadFunc() in a  *)
(* thread of its own, which adds to expireCnt under the mutex and signals; *)
(* main() waits without a predicate and prints expireCnt when it is woken. *)
(***************************************************************************)
EXTENDS ThreadParams

VARIABLES
    mpc, tpc, mtx,
    expireCnt,
    printed,      \* the last value main() has printed
    unheard       \* history: a signal was sent before main() waited at all
timerVars == <<mpc, tpc, mtx, expireCnt, printed, unheard>>

Notification == 0 .. NumThreads - 1
MainId == NumThreads
Free == NumThreads + 1

(* A timer expires, once or, with an overrun, more often. *)
Expire(t) ==
    /\ tpc[t] = "none" /\ tpc' = [tpc EXCEPT ![t] = "lock"]
    /\ UNCHANGED <<mpc, mtx, expireCnt, printed, unheard>>

TLock(t) ==
    /\ tpc[t] = "lock" /\ tpc' = [tpc EXCEPT ![t] = "count"]
    /\ mtx = Free /\ mtx' = t
    /\ UNCHANGED <<mpc, expireCnt, printed, unheard>>

TCount(t) ==
    /\ tpc[t] = "count" /\ tpc' = [tpc EXCEPT ![t] = "unlock"]
    /\ \E overrun \in {0, 1} : expireCnt' = expireCnt + 1 + overrun
    /\ UNCHANGED <<mpc, mtx, printed, unheard>>

TUnlock(t) ==
    /\ tpc[t] = "unlock" /\ tpc' = [tpc EXCEPT ![t] = "signal"]
    /\ mtx' = Free
    /\ UNCHANGED <<mpc, expireCnt, printed, unheard>>

(* A signal that finds nobody waiting is lost. *)
TSignal(t) ==
    /\ tpc[t] = "signal" /\ tpc' = [tpc EXCEPT ![t] = "ended"]
    /\ mpc' = IF mpc = "waiting" THEN "woken" ELSE mpc
    /\ unheard' = (unheard \/ mpc \in {"start", "first"})
    /\ UNCHANGED <<mtx, expireCnt, printed>>

(* main(), after the timers are set *)
MLock ==
    /\ mpc = "start" /\ mpc' = "first"
    /\ mtx = Free /\ mtx' = MainId
    /\ UNCHANGED <<tpc, expireCnt, printed, unheard>>

(* Mutant: main() prints, and only then waits, without the mutex. *)
MWaitUnlocked ==
    /\ \/ mpc \in {"first", "wait"} /\ mpc' = "asleep"
       \/ mpc = "asleep" /\ mpc' = "waiting"
    /\ mtx' = Free
    /\ UNCHANGED <<tpc, expireCnt, printed, unheard>>

(* pthread_cond_wait() releases the mutex and waits in one step. *)
MWait ==
    /\ mpc \in {"first", "wait"} /\ mpc' = "waiting"
    /\ mtx' = Free
    /\ UNCHANGED <<tpc, expireCnt, printed, unheard>>

MSpurious ==
    /\ mpc = "waiting" /\ mpc' = "woken"
    /\ UNCHANGED <<tpc, mtx, expireCnt, printed, unheard>>

(* The wait returns with the mutex; the count is printed under it. *)
MPrint ==
    /\ mpc = "woken" /\ mpc' = "wait"
    /\ mtx = Free /\ mtx' = MainId
    /\ printed' = expireCnt
    /\ UNCHANGED <<tpc, expireCnt, unheard>>

Init ==
    /\ mpc = "start" /\ tpc = [t \in Notification |-> "none"] /\ mtx = Free
    /\ expireCnt = 0 /\ printed = 0 /\ unheard = FALSE

MainStep == MLock \/ MWait \/ MPrint
ThreadStep(t) == TLock(t) \/ TCount(t) \/ TUnlock(t) \/ TSignal(t)
Environment == MSpurious \/ \E t \in Notification : Expire(t)
Next == MainStep \/ Environment \/ \E t \in Notification : ThreadStep(t)
Spec == /\ Init /\ [][Next]_timerVars /\ SF_timerVars(MainStep)
        /\ \A t \in Notification : SF_timerVars(ThreadStep(t))

(* main() never sleeps on a count it has not printed when no thread is     *)
(* about to signal, except for notifications from before its first wait:   *)
(* it holds the mutex whenever it does not wait, but it has no predicate.  *)
CountIsShown ==
    mpc = "waiting" /\ printed # expireCnt =>
        \/ unheard
        \/ \E t \in Notification : tpc[t] \in {"unlock", "signal"}

(* What the timers count is printed in the end. *)
AllShown == \A k \in 1 .. 2 * NumThreads : expireCnt >= k ~> (printed >= k \/ unheard)
=============================================================================
