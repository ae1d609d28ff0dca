---------------------------- MODULE ThreadSuite -----------------------------
(***************************************************************************)
(* The thread programs, for any arguments: any number of producers,        *)
(* threads, loops, barriers and notifications.                             *)
(*                                                                         *)
(* Each program is followed by its inductive invariant (who is inside the  *)
(* mutex, what a thread between the read and the write of a ++ has read,   *)
(* what the counters add up to) and by the lemmas that it holds at the     *)
(* start, that every step keeps it, and what it implies.                   *)
(*                                                                         *)
(* Then come the system in which one of the programs is run, its           *)
(* properties, and the theorems: the invariants of the programs make one   *)
(* of the system.                                                          *)
(***************************************************************************)
EXTENDS Integers, ThreadParams, Sums

VARIABLES program, mtx, loc, mpc, idx, tpc

-----------------------------------------------------------------------------
(* ThreadPrograms: increments with and without locks, one_time_init, a     *)
(* barrier, pthread_cancel().                                              *)

VARIABLES j, glob, waiting, cancelled, calls

T == INSTANCE ThreadPrograms

RestPC == {"none", "start", "lock", "load", "store", "unlock", "end", "test", "called",
           "blocked", "passed", "printf", "leaked", "relock", "relock to cancel",
           "cancel", "wait", "pop", "waiting", "cancelled"}

RestTyped ==
    /\ program \in T!ThreadProgram
    /\ mpc \in {"create", "cancel", "set", "signal", "join", "exit"}
    /\ idx \in 0 .. T!Size
    /\ tpc \in [T!Thr -> RestPC]
    /\ j \in [T!Thr -> Nat] /\ loc \in [T!Thr -> Nat]
    /\ glob \in Nat /\ calls \in Int

(* Threads are created, and joined, in order. *)
RestMain ==
    /\ \A t \in T!Thr : tpc[t] = "none" <=> mpc = "create" /\ t >= idx
    /\ mpc \in {"cancel", "set", "signal"} => idx = 0
    /\ mpc = "cancel" => program \in T!Cancelling
    /\ mpc \in {"set", "signal"} => program = "thread_cleanup sig"
    /\ mpc = "join" => idx < T!Size /\ \A t \in T!Thr : t < idx => T!Ended(t)
    /\ mpc = "exit" => \A t \in T!Thr : T!Ended(t)

(* Under a lock, what a thread has read is still the value; the global is  *)
(* the number of increments done, one of which j does not count yet.       *)
LockedInv ==
    program \in T!Locked =>
        /\ \A t \in T!Thr : /\ tpc[t] \in {"none", "start", "lock", "load", "store", "unlock", "end"}
                            /\ tpc[t] \in {"load", "store", "unlock"} <=> mtx = t
                            /\ tpc[t] = "store" => loc[t] = glob
                            /\ tpc[t] = "end" => j[t] = Loops
        /\ glob = j[0] + j[1] + (IF tpc[0] = "unlock" THEN 1 ELSE 0)
                              + (IF tpc[1] = "unlock" THEN 1 ELSE 0)

(* Without a lock, what a thread has read is no more than the increments   *)
(* done; and once a thread has stored, nobody reads 0 any more, so that    *)
(* its second increment leaves at least 2.                                 *)
UnlockedInv ==
    program = "thread_incr" =>
        /\ \A t \in T!Thr : /\ tpc[t] \in {"none", "start", "load", "store", "end"}
                            /\ tpc[t] = "store" => /\ loc[t] <= j[0] + j[1]
                                                   /\ j[t] > 0 => loc[t] > 0
                            /\ tpc[t] = "end" => j[t] = Loops
        /\ glob <= j[0] + j[1]
        /\ j[0] + j[1] > 0 => glob > 0
        /\ j[0] > 1 /\ j[1] > 1 => glob > 1

(* init_func() was called if called is set, or is about to be. *)
OnceInv ==
    program = "one_time_init" =>
        /\ \A t \in T!Thr : /\ tpc[t] \in {"none", "start", "test", "called", "unlock", "end"}
                            /\ tpc[t] \in {"test", "called", "unlock"} <=> mtx = t
                            /\ tpc[t] = "called" => glob = 0
                            /\ tpc[t] \in {"unlock", "end"} \/ j[t] > 0 => glob = 1
        /\ glob \in {0, 1}
        /\ calls = IF glob = 1 \/ \E t \in T!Thr : tpc[t] = "called" THEN 1 ELSE 0

(* Every thread has passed as many barriers as had a serial thread. *)
BarrierInv ==
    program = "barrier" =>
        /\ \A t \in T!Thr : /\ tpc[t] \in {"none", "start", "blocked", "passed", "end"}
                            /\ j[t] + (IF tpc[t] = "passed" THEN 1 ELSE 0) = calls
                            /\ tpc[t] = "end" => j[t] = NumBarriers
        /\ waiting = {t \in T!Thr : tpc[t] = "blocked"}

(* The one thread of the programs with pthread_cancel(): when it has the   *)
(* mutex, and when its block.                                              *)
CleanupInv ==
    /\ program = "thread_cancel" => tpc[0] \in {"none", "start", "cancelled"}
    /\ program \in {"thread_cleanup", "thread_cleanup sig"} =>
         /\ tpc[0] \in {"none", "start", "printf", "lock", "relock", "relock to cancel", "test",
                        "wait", "waiting", "cancel", "pop", "end", "cancelled", "leaked"}
         /\ tpc[0] \in {"test", "wait", "cancel", "pop"} \/ mtx = T!Free
         /\ tpc[0] \in {"none", "start", "end", "cancelled"} => calls = 0
         /\ tpc[0] \notin {"none", "start", "end", "cancelled"} => calls = 1

RestInv == /\ RestTyped /\ RestMain /\ LockedInv /\ UnlockedInv /\ OnceInv /\ BarrierInv
           /\ CleanupInv

(* How many threads each program has. *)
LEMMA RestSize ==
  ASSUME program \in T!ThreadProgram
  PROVE  /\ T!Size \in Nat \ {0}
         /\ program = "barrier" => T!Size = BarrierSize
         /\ program \in T!Cancelling \cup {"thread_cleanup sig"} => T!Size = 1 /\ T!Thr = {0}
         /\ program \in T!Locked \cup {"thread_incr", "one_time_init"} => T!Size = 2 /\ T!Thr = {0, 1}
  <1>1. CASE program = "barrier"
    BY <1>1, BarrierAssumption, Zenon DEF T!Size, T!NumOf, T!Locked, T!Cancelling
  <1>2. CASE program \in T!Cancelling \cup {"thread_cleanup sig"}
    <2>1. T!Size = 1
      BY <1>2, Zenon DEF T!Size, T!NumOf, T!Cancelling
    <2>2. T!Thr = {0}
      BY <2>1 DEF T!Thr
    <2>3. program # "barrier" /\ program \notin T!Locked \cup {"thread_incr", "one_time_init"}
      BY <1>2, Zenon DEF T!Locked, T!Cancelling
    <2>4. T!Size \in Nat \ {0}
      BY <2>1
    <2> QED
      BY <2>1, <2>2, <2>3, <2>4, Zenon
  <1>3. CASE program \in T!Locked \cup {"thread_incr", "one_time_init"}
    <2>1. T!Size = 2
      BY <1>3, Zenon DEF T!Size, T!NumOf, T!Locked, T!Cancelling
    <2>2. T!Thr = {0, 1}
      BY <2>1 DEF T!Thr
    <2>3. program # "barrier" /\ program \notin T!Cancelling \cup {"thread_cleanup sig"}
      BY <1>3, Zenon DEF T!Locked, T!Cancelling
    <2>4. T!Size \in Nat \ {0}
      BY <2>1
    <2> QED
      BY <2>1, <2>2, <2>3, <2>4, Zenon
  <1> QED
    BY <1>1, <1>2, <1>3, Zenon DEF T!ThreadProgram

(* No program changes into another one. *)
LEMMA RestSame ==
  ASSUME [T!Next]_(T!tvars)
  PROVE  program' = program /\ T!Size' = T!Size /\ T!Thr' = T!Thr
  <1>1. program' = program
    BY ZenonT(60) DEF T!tvars, T!Next, T!MainStep, T!MCreate, T!MCreated, T!MCancel, T!MSet, T!MSignal, T!MJoin,
           T!Spurious, T!CSpurious, T!ThreadStep, T!thread_incr, T!thread_incr_mutex,
           T!thread_incr_rwlock, T!thread_incr_spinlock, T!thread_incr_psem, T!Increment, T!TLoop,
           T!TLock, T!TLoad, T!TStore, T!TUnlock, T!one_time_init, T!OLock, T!OTest, T!OCalled,
           T!OUnlock, T!barrier, T!BArrive, T!BPassed, T!BEnd, T!thread_cleanup, T!CMalloc,
           T!CPrintf, T!CLock, T!CTest, T!CWait, T!CCancelled, T!cleanupHandler, T!thread_cancel
  <1> QED
    BY <1>1, Zenon DEF T!Thr, T!Size

(* A thread that steps is one that runs, and leaves main() alone. *)
Ended == {"end", "cancelled", "leaked"}
Moves == \A u \in T!Thr : tpc'[u] = tpc[u] \/ (tpc[u] \notin Ended \cup {"none"} /\ tpc'[u] # "none")

(* Initially no thread exists. *)
LEMMA RestInit == T!Init => RestInv
  <1> SUFFICES ASSUME T!Init PROVE RestInv BY Zenon
  <1>1. program \in T!ThreadProgram
    BY Zenon DEF T!Init
  <1>0. T!Size \in Nat \ {0}
    BY <1>1, RestSize, Zenon
  <1>2. /\ \A t \in T!Thr : tpc[t] = "none" /\ j[t] = 0 /\ loc[t] = 0
        /\ tpc = [t \in T!Thr |-> "none"] /\ j = [t \in T!Thr |-> 0] /\ loc = [t \in T!Thr |-> 0]
    BY Zenon DEF T!Init, T!Thr
  <1>3. RestTyped
    <2>1. idx \in 0 .. T!Size /\ mpc = "create" /\ glob \in Nat /\ calls \in Int
      BY <1>0 DEF T!Init
    <2>2. tpc \in [T!Thr -> RestPC] /\ j \in [T!Thr -> Nat] /\ loc \in [T!Thr -> Nat]
      BY <1>2, Zenon DEF RestPC
    <2> QED
      BY <1>1, <2>1, <2>2, Zenon DEF RestTyped
  <1>4. RestMain
    BY <1>0, <1>2 DEF T!Init, RestMain, T!Thr
  <1>5. LockedInv
    <2> SUFFICES ASSUME program \in T!Locked PROVE LockedInv
      BY Zenon DEF LockedInv
    <2>1. T!Thr = {0, 1}
      BY <1>1, RestSize, Zenon
    <2>2. mtx \notin {0, 1} /\ glob = 0
      BY BarrierAssumption DEF T!Init, T!Free
    <2> QED
      BY <1>2, <2>1, <2>2 DEF LockedInv
  <1>6. UnlockedInv
    <2> SUFFICES ASSUME program = "thread_incr" PROVE UnlockedInv
      BY Zenon DEF UnlockedInv
    <2>1. T!Thr = {0, 1} /\ glob = 0
      BY <1>1, RestSize, Zenon DEF T!Init
    <2> QED
      BY <1>2, <2>1 DEF UnlockedInv
  <1>7. OnceInv
    <2> SUFFICES ASSUME program = "one_time_init" PROVE OnceInv
      BY Zenon DEF OnceInv
    <2>1. T!Thr = {0, 1} /\ mtx \notin {0, 1} /\ glob = 0 /\ calls = 0
      BY <1>1, RestSize, BarrierAssumption DEF T!Init, T!Free
    <2> QED
      BY <1>2, <2>1 DEF OnceInv
  <1>8. BarrierInv
    <2>1. waiting = {t \in T!Thr : tpc[t] = "blocked"}
      BY <1>2, Zenon DEF T!Init
    <2>2. calls = 0
      BY Zenon DEF T!Init
    <2> QED
      BY <1>2, <2>1, <2>2 DEF BarrierInv
  <1>9. CleanupInv
    <2>1. program \in T!Cancelling \cup {"thread_cleanup sig"} => tpc[0] = "none"
      BY <1>1, <1>2, RestSize, Zenon
    <2> QED
      BY <2>1, Zenon DEF T!Init, CleanupInv, T!Cancelling
  <1> QED
    BY <1>3, <1>4, <1>5, <1>6, <1>7, <1>8, <1>9, Zenon DEF RestInv

(* Every step keeps the types. *)
LEMMA RestTypedNext == RestInv /\ [T!Next]_(T!tvars) => RestTyped'
  <1> SUFFICES ASSUME RestInv, [T!Next]_(T!tvars) PROVE RestTyped' BY Zenon
  <1> DEFINE Numbers == /\ j \in [T!Thr -> Nat] /\ loc \in [T!Thr -> Nat]
                        /\ glob \in Nat /\ calls \in Int
             Places == tpc \in [T!Thr -> RestPC]
             MainAt == /\ mpc \in {"create", "cancel", "set", "signal", "join", "exit"}
                       /\ idx \in 0 .. T!Size
  <1>0. program' = program /\ T!Size' = T!Size /\ T!Thr' = T!Thr /\ T!Size \in Nat \ {0}
    BY RestSame, RestSize, Zenon DEF RestInv, RestTyped
  <1>1. Numbers /\ Places /\ MainAt
    BY Zenon DEF RestInv, RestTyped
  <1>2. SUFFICES Numbers' /\ Places' /\ MainAt'
    BY <1>0, Zenon DEF RestInv, RestTyped
  <1>3. CASE T!MainStep
    <2>1. CASE T!MCreate
      <3>1. Places' /\ Numbers'
        BY <2>1, <1>0, <1>1, Zenon DEF T!MCreate, RestPC
      <3>2. MainAt'
        BY <2>1, <1>0, <1>1 DEF T!MCreate
      <3> QED
        BY <3>1, <3>2, Zenon
    <2>2. CASE T!MCreated
      <3>1. mpc' \in {"cancel", "set", "join"}
        BY <2>2, Zenon DEF T!MCreated
      <3>2. UNCHANGED <<j, loc, glob, calls, tpc>> /\ idx' = 0
        BY <2>2, Zenon DEF T!MCreated
      <3> QED
        BY <3>1, <3>2, <1>0, <1>1
    <2>3. CASE T!MCancel \/ T!MSet
      <3>1. MainAt' /\ Places'
        BY <2>3, <1>0, <1>1, Zenon DEF T!MCancel, T!MSet
      <3>2. Numbers'
        BY <2>3, <1>0, <1>1 DEF T!MCancel, T!MSet
      <3> QED
        BY <3>1, <3>2, Zenon
    <2>4. CASE T!MSignal
      BY <2>4, <1>0, <1>1, Zenon DEF T!MSignal, RestPC
    <2>5. CASE T!MJoin
      BY <2>5, <1>0, <1>1 DEF T!MJoin, RestMain, RestInv
    <2> QED
      BY <1>3, <2>1, <2>2, <2>3, <2>4, <2>5, Zenon DEF T!MainStep
  <1>4. ASSUME NEW t \in T!Thr, T!Increment(t)
        PROVE  Numbers' /\ Places' /\ MainAt'
    <2>1. Numbers'
      BY <1>0, <1>1, <1>4 DEF T!Increment, T!TLoop, T!TLock, T!TLoad, T!TStore, T!TUnlock
    <2>2. Places'
      BY <1>0, <1>1, <1>4, Zenon DEF T!Increment, T!TLoop, T!TLock, T!TLoad, T!TStore, T!TUnlock, T!TGoto, RestPC
    <2>3. MainAt'
      BY <1>0, <1>1, <1>4 DEF T!Increment, T!TLoop, T!TLock, T!TLoad, T!TStore, T!TUnlock, T!main
    <2> QED
      BY <2>1, <2>2, <2>3, Zenon
  <1>5. ASSUME NEW t \in T!Thr, T!one_time_init(t)
        PROVE  Numbers' /\ Places' /\ MainAt'
    <2>1. Numbers'
      BY <1>0, <1>1, <1>5 DEF T!one_time_init, T!OLock, T!OTest, T!OCalled, T!OUnlock
    <2>2. Places'
      BY <1>0, <1>1, <1>5, Zenon DEF T!one_time_init, T!OLock, T!OTest, T!OCalled, T!OUnlock, T!TGoto, RestPC
    <2>3. MainAt'
      BY <1>0, <1>1, <1>5, Zenon DEF T!one_time_init, T!OLock, T!OTest, T!OCalled, T!OUnlock, T!main
    <2> QED
      BY <2>1, <2>2, <2>3, Zenon
  <1>6. ASSUME NEW t \in T!Thr, T!barrier(t)
        PROVE  Numbers' /\ Places' /\ MainAt'
    <2>1. Numbers'
      BY <1>0, <1>1, <1>6 DEF T!barrier, T!BArrive, T!BPassed, T!BEnd
    <2>2. Places'
      <3>1. CASE T!BArrive(t, BarrierSize)
        BY <1>0, <1>1, <3>1, ZenonT(60) DEF T!BArrive, RestPC
      <3>2. CASE T!BPassed(t) \/ T!BEnd(t)
        BY <1>0, <1>1, <3>2, Zenon DEF T!BPassed, T!BEnd, T!TGoto, RestPC
      <3> QED
        BY <1>6, <3>1, <3>2, Zenon DEF T!barrier
    <2>3. MainAt'
      BY <1>0, <1>1, <1>6, Zenon DEF T!barrier, T!BArrive, T!BPassed, T!BEnd, T!main
    <2> QED
      BY <2>1, <2>2, <2>3, Zenon
  <1>7. ASSUME NEW t \in T!Thr, T!thread_cleanup(t) \/ T!CSpurious(t) \/ T!thread_cancel(t)
        PROVE  Numbers' /\ Places' /\ MainAt'
    <2>1. Numbers'
      <3>1. j' = j /\ loc' = loc /\ glob' = glob /\ calls' \in {calls - 1, calls, calls + 1}
        BY <1>7, Zenon DEF T!thread_cleanup, T!CMalloc, T!CPrintf, T!CLock, T!CTest, T!CWait,
                    T!CCancelled, T!cleanupHandler, T!CSpurious, T!thread_cancel
      <3> QED
        BY <1>0, <1>1, <3>1
    <2>2. Places'
      BY <1>0, <1>1, <1>7, ZenonT(60) DEF T!thread_cleanup, T!CMalloc, T!CPrintf, T!CLock, T!CTest, T!CWait,
                              T!CCancelled, T!cleanupHandler, T!CSpurious, T!thread_cancel, T!TGoto, RestPC
    <2>3. MainAt'
      BY <1>0, <1>1, <1>7, Zenon DEF T!thread_cleanup, T!CMalloc, T!CPrintf, T!CLock, T!CTest, T!CWait,
                              T!CCancelled, T!cleanupHandler, T!CSpurious, T!thread_cancel, T!main
    <2> QED
      BY <2>1, <2>2, <2>3, Zenon
  <1>8. CASE UNCHANGED T!tvars
    BY <1>0, <1>1, <1>8, Zenon DEF T!tvars
  <1> QED
    BY <1>3, <1>4, <1>5, <1>6, <1>7, <1>8, Zenon
       DEF T!Next, T!Spurious, T!ThreadStep, T!thread_incr, T!thread_incr_mutex, T!thread_incr_rwlock,
           T!thread_incr_spinlock, T!thread_incr_psem

(* A step of a thread moves it on, and leaves main() alone. *)
LEMMA RestMoves ==
  ASSUME RestInv, NEW t \in T!Thr, T!ThreadStep(t) \/ T!CSpurious(t)
  PROVE  Moves /\ mpc' = mpc /\ idx' = idx
  <1> USE DEF RestInv, RestTyped, Moves, Ended
  <1>1. CASE T!Increment(t)
    BY <1>1, Zenon DEF T!Increment, T!TLoop, T!TLock, T!TLoad, T!TStore, T!TUnlock, T!TGoto, T!main
  <1>2. CASE T!one_time_init(t)
    BY <1>2, Zenon DEF T!one_time_init, T!OLock, T!OTest, T!OCalled, T!OUnlock, T!TGoto, T!main
  <1>3. CASE T!barrier(t)
    <2>1. CASE T!BArrive(t, BarrierSize)
      <3>1. program = "barrier" /\ tpc[t] = "start" /\ \A u \in waiting : tpc[u] = "blocked"
        BY <1>3, <2>1, Zenon DEF T!barrier, T!BArrive, BarrierInv
      <3>2. /\ mpc' = mpc /\ idx' = idx
            /\ \A u \in T!Thr : tpc'[u] = tpc[u] \/ (u \in waiting \cup {t} /\ tpc'[u] # "none")
        BY <2>1, Zenon DEF T!BArrive, T!main
      <3> QED
        BY <3>1, <3>2, Zenon
    <2>2. CASE T!BPassed(t) \/ T!BEnd(t)
      BY <2>2, Zenon DEF T!BPassed, T!BEnd, T!TGoto, T!main
    <2> QED
      BY <1>3, <2>1, <2>2, Zenon DEF T!barrier
  <1>4. CASE T!thread_cleanup(t) \/ T!CSpurious(t) \/ T!thread_cancel(t)
    BY <1>4, Zenon DEF T!thread_cleanup, T!CMalloc, T!CPrintf, T!CLock, T!CTest, T!CWait, T!CCancelled,
                T!cleanupHandler, T!CSpurious, T!thread_cancel, T!TGoto, T!main
  <1> QED
    BY <1>1, <1>2, <1>3, <1>4, Zenon
       DEF T!ThreadStep, T!thread_incr, T!thread_incr_mutex, T!thread_incr_rwlock,
           T!thread_incr_spinlock, T!thread_incr_psem

(* So threads are created and joined in order. *)
LEMMA RestMainNext == RestInv /\ [T!Next]_(T!tvars) => RestMain'
  <1> SUFFICES ASSUME RestInv, [T!Next]_(T!tvars) PROVE RestMain' BY Zenon
  <1>0. program' = program /\ T!Size' = T!Size /\ T!Thr' = T!Thr /\ T!Size \in Nat \ {0}
    BY RestSame, RestSize, Zenon DEF RestInv, RestTyped
  <1>1. ASSUME NEW t \in T!Thr, T!ThreadStep(t) \/ T!CSpurious(t)
        PROVE  RestMain'
    <2>1. Moves /\ mpc' = mpc /\ idx' = idx
      BY <1>1, RestMoves, Zenon
    <2>2. \A u \in T!Thr : /\ tpc'[u] = "none" <=> tpc[u] = "none"
                           /\ T!Ended(u) => T!Ended(u)'
      BY <2>1, Zenon DEF Moves, Ended, T!Ended
    <2> QED
      BY <1>0, <2>1, <2>2, Zenon DEF RestInv, RestMain
  <1>2. CASE T!MCreate
    BY <1>0, <1>2 DEF T!MCreate, RestInv, RestTyped, RestMain, T!Thr
  <1>3. CASE T!MCreated
    <2>1. /\ mpc' \in {"cancel", "set", "join"}
          /\ mpc' = "cancel" => program \in T!Cancelling
          /\ mpc' = "set" => program = "thread_cleanup sig"
      BY <1>3, Zenon DEF T!MCreated
    <2>2. idx' = 0 /\ tpc' = tpc /\ idx = T!Size /\ mpc = "create"
      BY <1>3, Zenon DEF T!MCreated
    <2>3. \A t \in T!Thr : tpc'[t] # "none"
      BY <1>0, <2>2 DEF RestInv, RestMain, T!Thr
    <2>4. /\ mpc' = "cancel" => (program \in T!Cancelling)'
          /\ mpc' \in {"set", "signal"} => program' = "thread_cleanup sig"
          /\ mpc' \notin {"create", "exit"}
      BY <1>0, <2>1, Zenon DEF T!Cancelling
    <2>5. idx' = 0 /\ 0 < T!Size'
      BY <1>0, <2>2
    <2>6. \A t \in T!Thr' : tpc'[t] # "none" /\ ~ (t < 0)
      BY <1>0, <2>3 DEF T!Thr
    <2> QED
      BY <2>4, <2>5, <2>6, Zenon DEF RestMain
  <1>4. CASE T!MCancel \/ T!MSet
    <2>1. /\ idx' = 0 /\ tpc' = tpc /\ mpc' \in {"join", "signal"} /\ mpc \in {"cancel", "set"}
          /\ mpc' = "signal" => program = "thread_cleanup sig"
      BY <1>4, Zenon DEF T!MCancel, T!MSet, RestInv, RestMain
    <2>2. \A t \in T!Thr : tpc'[t] # "none"
      BY <2>1, Zenon DEF RestInv, RestMain
    <2>3. /\ mpc' \in {"set", "signal"} => program' = "thread_cleanup sig"
          /\ mpc' \notin {"create", "cancel", "exit"}
      BY <1>0, <2>1, Zenon
    <2>4. 0 < T!Size'
      BY <1>0
    <2>5. \A t \in T!Thr' : tpc'[t] # "none" /\ ~ (t < 0)
      BY <1>0, <2>2 DEF T!Thr
    <2> QED
      BY <2>1, <2>3, <2>4, <2>5, Zenon DEF RestMain
  <1>5. CASE T!MSignal
    <2>1. idx' = 0 /\ mpc' = "join" /\ mpc = "signal"
      BY <1>5, Zenon DEF T!MSignal, RestInv, RestMain
    <2>2. \A t \in T!Thr : tpc[t] # "none" /\ tpc'[t] # "none"
      BY <1>5, Zenon DEF T!MSignal, RestInv, RestTyped, RestMain
    <2> QED
      BY <1>0, <2>1, <2>2 DEF RestMain, T!Thr, T!Cancelling
  <1>6. CASE T!MJoin
    BY <1>0, <1>6 DEF T!MJoin, RestInv, RestTyped, RestMain, T!Thr, T!Ended
  <1>7. CASE UNCHANGED T!tvars
    BY <1>0, <1>7, Zenon DEF T!tvars, RestInv, RestMain, T!Ended
  <1> QED
    BY <1>1, <1>2, <1>3, <1>4, <1>5, <1>6, <1>7, Zenon DEF T!Next, T!MainStep, T!Spurious

(* Under a lock. *)
LEMMA LockedNext == RestInv /\ [T!Next]_(T!tvars) => LockedInv'
  <1> SUFFICES ASSUME RestInv, [T!Next]_(T!tvars), program' \in T!Locked PROVE LockedInv'
    BY Zenon DEF LockedInv, T!Locked
  <1>a. program \in T!Locked
    BY RestSame, Zenon
  <1>0. program' = program /\ T!Thr = {0, 1} /\ T!Thr' = {0, 1} /\ T!Size = 2
    BY <1>a, RestSame, RestSize, Zenon DEF RestInv, RestTyped
  <1>1. /\ j \in [{0, 1} -> Nat] /\ loc \in [{0, 1} -> Nat] /\ tpc \in [{0, 1} -> RestPC]
        /\ glob \in Nat /\ idx \in 0 .. 2
    BY <1>0, Zenon DEF RestInv, RestTyped
  <1>2. LockedInv
    BY Zenon DEF RestInv
  <1>3. T!Free \notin {0, 1}
    BY BarrierAssumption DEF T!Free
  <1>4. CASE T!MCreate
    <2>1. tpc[idx] = "none" /\ idx \in {0, 1} /\ tpc' = [tpc EXCEPT ![idx] = "start"]
      BY <1>0, <1>1, <1>4 DEF T!MCreate, RestInv, RestMain
    <2>2. UNCHANGED <<j, loc, glob, mtx>>
      BY <1>4, Zenon DEF T!MCreate
    <2> QED
      BY <1>a, <1>0, <1>1, <1>2, <2>1, <2>2 DEF LockedInv
  <1>5. CASE UNCHANGED <<tpc, j, loc, glob, mtx>>
    BY <1>a, <1>0, <1>2, <1>5 DEF LockedInv
  <1>6. ASSUME NEW t \in T!Thr, T!Increment(t)
        PROVE  LockedInv'
    <2>0. t \in {0, 1} /\ program # "thread_incr"
      BY <1>a, <1>0, Zenon DEF T!Locked
    <2>1. CASE T!TLoop(t)
      BY <1>a, <1>0, <1>1, <1>2, <2>0, <2>1 DEF T!TLoop, T!TGoto, LockedInv
    <2>2. CASE T!TLock(t)
      BY <1>a, <1>0, <1>1, <1>2, <1>3, <2>0, <2>2 DEF T!TLock, T!TGoto, LockedInv
    <2>3. CASE T!TLoad(t)
      BY <1>a, <1>0, <1>1, <1>2, <2>0, <2>3 DEF T!TLoad, T!TGoto, LockedInv
    <2>4. CASE T!TStore(t)
      BY <1>a, <1>0, <1>1, <1>2, <2>0, <2>4 DEF T!TStore, T!TGoto, LockedInv
    <2>5. CASE T!TUnlock(t)
      BY <1>a, <1>0, <1>1, <1>2, <1>3, <2>0, <2>5 DEF T!TUnlock, T!TGoto, LockedInv
    <2> QED
      BY <1>6, <2>1, <2>2, <2>3, <2>4, <2>5, Zenon DEF T!Increment
  <1>7. /\ program \notin T!Cancelling \cup {"one_time_init", "barrier", "thread_cleanup sig"}
        /\ \A t \in T!Thr : ~ T!CSpurious(t)
    BY <1>a, <1>0, <1>2, Zenon DEF T!Locked, T!Cancelling, LockedInv, T!CSpurious, T!TGoto
  <1>8. CASE T!MCreated \/ T!MCancel \/ T!MSet \/ T!MSignal \/ T!MJoin
    <2>1. ~ T!MSet /\ ~ T!MSignal
      BY <1>7, Zenon DEF T!MSet, T!MSignal, RestInv, RestMain
    <2> QED
      BY <1>5, <1>8, <2>1, Zenon DEF T!MCreated, T!MCancel, T!MJoin
  <1>9. CASE UNCHANGED T!tvars
    BY <1>5, <1>9, Zenon DEF T!tvars
  <1> QED
    BY <1>4, <1>6, <1>7, <1>8, <1>9, Zenon
       DEF T!Next, T!MainStep, T!Spurious, T!ThreadStep, T!thread_incr, T!thread_incr_mutex,
           T!thread_incr_rwlock, T!thread_incr_spinlock, T!thread_incr_psem, T!one_time_init, T!barrier,
           T!thread_cleanup, T!thread_cancel, T!Cancelling

(* Without a lock. *)
LEMMA UnlockedNext == RestInv /\ [T!Next]_(T!tvars) => UnlockedInv'
  <1> SUFFICES ASSUME RestInv, [T!Next]_(T!tvars), program' = "thread_incr" PROVE UnlockedInv'
    BY Zenon DEF UnlockedInv
  <1>a. program = "thread_incr"
    BY RestSame, Zenon
  <1>0. program' = program /\ T!Thr = {0, 1} /\ T!Thr' = {0, 1} /\ T!Size = 2
    BY <1>a, RestSame, RestSize, Zenon DEF RestInv, RestTyped
  <1>1. /\ j \in [{0, 1} -> Nat] /\ loc \in [{0, 1} -> Nat] /\ tpc \in [{0, 1} -> RestPC]
        /\ glob \in Nat /\ idx \in 0 .. 2
    BY <1>0, Zenon DEF RestInv, RestTyped
  <1>2. UnlockedInv
    BY Zenon DEF RestInv
  <1>4. CASE T!MCreate
    <2>1. tpc[idx] = "none" /\ idx \in {0, 1} /\ tpc' = [tpc EXCEPT ![idx] = "start"]
      BY <1>0, <1>1, <1>4 DEF T!MCreate, RestInv, RestMain
    <2>2. UNCHANGED <<j, loc, glob>>
      BY <1>4, Zenon DEF T!MCreate
    <2> QED
      BY <1>a, <1>0, <1>1, <1>2, <2>1, <2>2 DEF UnlockedInv
  <1>5. CASE UNCHANGED <<tpc, j, loc, glob>>
    BY <1>a, <1>0, <1>2, <1>5, Zenon DEF UnlockedInv
  <1>6. ASSUME NEW t \in T!Thr, T!Increment(t)
        PROVE  UnlockedInv'
    <2>0. t \in {0, 1}
      BY <1>0, Zenon
    <2>1. CASE T!TLoop(t)
      BY <1>a, <1>0, <1>1, <1>2, <2>0, <2>1 DEF T!TLoop, T!TGoto, UnlockedInv
    <2>2. CASE T!TLock(t) \/ T!TUnlock(t)
      BY <1>a, <1>0, <1>2, <2>0, <2>2, Zenon DEF T!TLock, T!TUnlock, T!TGoto, UnlockedInv
    <2>3. CASE T!TLoad(t)
      BY <1>a, <1>0, <1>1, <1>2, <2>0, <2>3 DEF T!TLoad, T!TGoto, UnlockedInv
    <2>4. CASE T!TStore(t)
      BY <1>a, <1>0, <1>1, <1>2, <2>0, <2>4 DEF T!TStore, T!TGoto, UnlockedInv
    <2> QED
      BY <1>6, <2>1, <2>2, <2>3, <2>4, Zenon DEF T!Increment
  <1>7. \A t \in T!Thr : ~ T!CSpurious(t)
    BY <1>a, <1>0, <1>2, Zenon DEF UnlockedInv, T!CSpurious, T!TGoto
  <1>8. CASE T!MCreated \/ T!MCancel \/ T!MSet \/ T!MSignal \/ T!MJoin
    <2>1. ~ T!MSet /\ ~ T!MSignal
      BY <1>a, Zenon DEF T!MSet, T!MSignal, RestInv, RestMain
    <2> QED
      BY <1>5, <1>8, <2>1, Zenon DEF T!MCreated, T!MCancel, T!MJoin
  <1>9. CASE UNCHANGED T!tvars
    BY <1>5, <1>9, Zenon DEF T!tvars
  <1> QED
    BY <1>a, <1>4, <1>6, <1>7, <1>8, <1>9, Zenon
       DEF T!Next, T!MainStep, T!Spurious, T!ThreadStep, T!thread_incr, T!thread_incr_mutex,
           T!thread_incr_rwlock, T!thread_incr_spinlock, T!thread_incr_psem, T!one_time_init, T!barrier,
           T!thread_cleanup, T!thread_cancel

(* one_time_init. *)
LEMMA OnceNext == RestInv /\ [T!Next]_(T!tvars) => OnceInv'
  <1> SUFFICES ASSUME RestInv, [T!Next]_(T!tvars), program' = "one_time_init" PROVE OnceInv'
    BY Zenon DEF OnceInv
  <1>a. program = "one_time_init"
    BY RestSame, Zenon
  <1>0. program' = program /\ T!Thr = {0, 1} /\ T!Thr' = {0, 1} /\ T!Size = 2
    BY <1>a, RestSame, RestSize, Zenon DEF RestInv, RestTyped
  <1>1. /\ j \in [{0, 1} -> Nat] /\ tpc \in [{0, 1} -> RestPC] /\ idx \in 0 .. 2 /\ calls \in Int
    BY <1>0, Zenon DEF RestInv, RestTyped
  <1>2. OnceInv
    BY Zenon DEF RestInv
  <1>3. T!Free \notin {0, 1}
    BY BarrierAssumption DEF T!Free
  <1>4. CASE T!MCreate
    <2>1. tpc[idx] = "none" /\ idx \in {0, 1} /\ tpc' = [tpc EXCEPT ![idx] = "start"]
      BY <1>0, <1>1, <1>4 DEF T!MCreate, RestInv, RestMain
    <2>2. UNCHANGED <<j, glob, mtx, calls>>
      BY <1>4, Zenon DEF T!MCreate
    <2> QED
      BY <1>a, <1>0, <1>1, <1>2, <2>1, <2>2 DEF OnceInv
  <1>5. CASE UNCHANGED <<tpc, j, glob, mtx, calls>>
    BY <1>a, <1>0, <1>2, <1>5, Zenon DEF OnceInv
  <1>6. ASSUME NEW t \in T!Thr, T!one_time_init(t)
        PROVE  OnceInv'
    <2>0. t \in {0, 1}
      BY <1>0, Zenon
    <2>1. CASE T!OLock(t)
      BY <1>a, <1>0, <1>1, <1>2, <1>3, <2>0, <2>1 DEF T!OLock, T!TGoto, OnceInv
    <2>2. CASE T!OTest(t)
      BY <1>a, <1>0, <1>1, <1>2, <2>0, <2>2 DEF T!OTest, T!TGoto, OnceInv
    <2>3. CASE T!OCalled(t)
      BY <1>a, <1>0, <1>1, <1>2, <2>0, <2>3 DEF T!OCalled, T!TGoto, OnceInv
    <2>4. CASE T!OUnlock(t)
      BY <1>a, <1>0, <1>1, <1>2, <1>3, <2>0, <2>4 DEF T!OUnlock, T!TGoto, OnceInv
    <2> QED
      BY <1>6, <2>1, <2>2, <2>3, <2>4, Zenon DEF T!one_time_init
  <1>7. \A t \in T!Thr : ~ T!CSpurious(t)
    BY <1>a, <1>0, <1>2, Zenon DEF OnceInv, T!CSpurious, T!TGoto
  <1>8. CASE T!MCreated \/ T!MCancel \/ T!MSet \/ T!MSignal \/ T!MJoin
    <2>1. ~ T!MSet /\ ~ T!MSignal
      BY <1>a, Zenon DEF T!MSet, T!MSignal, RestInv, RestMain
    <2> QED
      BY <1>5, <1>8, <2>1, Zenon DEF T!MCreated, T!MCancel, T!MJoin
  <1>9. CASE UNCHANGED T!tvars
    BY <1>5, <1>9, Zenon DEF T!tvars
  <1> QED
    BY <1>a, <1>4, <1>6, <1>7, <1>8, <1>9, Zenon
       DEF T!Next, T!MainStep, T!Spurious, T!ThreadStep, T!thread_incr, T!thread_incr_mutex,
           T!thread_incr_rwlock, T!thread_incr_spinlock, T!thread_incr_psem, T!barrier,
           T!thread_cleanup, T!thread_cancel

(* The threads of a barrier: the last one to arrive finds all the others   *)
(* blocked there.                                                          *)
LEMMA LastArrives ==
  ASSUME RestInv, program = "barrier", NEW t \in T!Thr, tpc[t] = "start",
         ~ (Cardinality(waiting) + 1 < BarrierSize)
  PROVE  waiting \cup {t} = T!Thr
  <1>1. T!Thr = 0 .. BarrierSize - 1 /\ BarrierSize \in Nat \ {0}
    BY RestSize, BarrierAssumption, Zenon DEF RestInv, RestTyped, T!Thr
  <1>2. IsFiniteSet(T!Thr) /\ Cardinality(T!Thr) = BarrierSize
    <2>1. /\ IsFiniteSet(0 .. BarrierSize - 1)
          /\ Cardinality(0 .. BarrierSize - 1) = IF 0 > BarrierSize - 1 THEN 0 ELSE (BarrierSize - 1) - 0 + 1
      BY <1>1, FS_Interval
    <2> QED
      BY <1>1, <2>1
  <1>3. waiting \subseteq T!Thr /\ t \notin waiting
    BY Zenon DEF RestInv, BarrierInv
  <1>4. IsFiniteSet(waiting)
    BY <1>2, <1>3, FS_Subset, Zenon
  <1>5. IsFiniteSet(waiting \cup {t}) /\ Cardinality(waiting \cup {t}) = Cardinality(waiting) + 1
    BY <1>3, <1>4, FS_AddElement, Zenon
  <1>6. Cardinality(waiting \cup {t}) <= Cardinality(T!Thr)
    BY <1>2, <1>3, FS_Subset, Zenon
  <1>7. Cardinality(waiting) \in Nat
    BY <1>4, FS_CardinalityType, Zenon
  <1>8. Cardinality(waiting \cup {t}) = Cardinality(T!Thr)
    BY <1>1, <1>2, <1>5, <1>6, <1>7
  <1> QED
    BY <1>2, <1>3, <1>8, FS_Subset, Zenon

(* pthread_barrier_demo. *)
LEMMA BarrierNext == RestInv /\ [T!Next]_(T!tvars) => BarrierInv'
  <1> SUFFICES ASSUME RestInv, [T!Next]_(T!tvars), program' = "barrier" PROVE BarrierInv'
    BY Zenon DEF BarrierInv
  <1>a. program = "barrier"
    BY RestSame, Zenon
  <1>0. T!Thr' = T!Thr
    BY RestSame, Zenon
  <1>1. j \in [T!Thr -> Nat] /\ tpc \in [T!Thr -> RestPC] /\ calls \in Int
    BY Zenon DEF RestInv, RestTyped
  <1>2. /\ \A t \in T!Thr : /\ tpc[t] \in {"none", "start", "blocked", "passed", "end"}
                            /\ j[t] + (IF tpc[t] = "passed" THEN 1 ELSE 0) = calls
                            /\ tpc[t] = "end" => j[t] = NumBarriers
        /\ waiting = {t \in T!Thr : tpc[t] = "blocked"}
    BY <1>a, Zenon DEF RestInv, BarrierInv
  <1>3. SUFFICES /\ \A u \in T!Thr : /\ tpc'[u] \in {"none", "start", "blocked", "passed", "end"}
                                     /\ j'[u] + (IF tpc'[u] = "passed" THEN 1 ELSE 0) = calls'
                                     /\ tpc'[u] = "end" => j'[u] = NumBarriers
                 /\ waiting' = {u \in T!Thr : tpc'[u] = "blocked"}
    BY <1>0, Zenon DEF BarrierInv
  <1>4. CASE T!MCreate
    <2>1. tpc[idx] = "none" /\ idx \in T!Thr /\ tpc' = [tpc EXCEPT ![idx] = "start"]
      <3>1. T!Size \in Nat /\ idx \in 0 .. T!Size
        BY <1>a, RestSize, Zenon DEF RestInv, RestTyped
      <3>2. idx \in T!Thr
        BY <1>4, <3>1 DEF T!MCreate, T!Thr
      <3> QED
        BY <1>4, <3>1, <3>2 DEF T!MCreate, RestInv, RestMain
    <2>2. UNCHANGED <<j, waiting, calls>>
      BY <1>4, Zenon DEF T!MCreate
    <2> QED
      BY <1>1, <1>2, <2>1, <2>2, Zenon
  <1>5. CASE UNCHANGED <<tpc, j, waiting, calls>>
    BY <1>2, <1>5, Zenon
  <1>6. ASSUME NEW t \in T!Thr, T!BArrive(t, BarrierSize)
        PROVE  /\ \A u \in T!Thr : /\ tpc'[u] \in {"none", "start", "blocked", "passed", "end"}
                                   /\ j'[u] + (IF tpc'[u] = "passed" THEN 1 ELSE 0) = calls'
                                   /\ tpc'[u] = "end" => j'[u] = NumBarriers
               /\ waiting' = {u \in T!Thr : tpc'[u] = "blocked"}
    <2>0. T!Cardinality(waiting) = Cardinality(waiting)
      BY Zenon DEF T!Cardinality, Cardinality
    <2>1. CASE Cardinality(waiting) + 1 < BarrierSize
      <3>1. waiting' = waiting \cup {t} /\ tpc' = [tpc EXCEPT ![t] = "blocked"] /\ j' = j /\ calls' = calls
        BY <1>6, <2>0, <2>1, Zenon DEF T!BArrive
      <3>2. tpc[t] = "start"
        BY <1>6, Zenon DEF T!BArrive
      <3> QED
        BY <1>1, <1>2, <3>1, <3>2, Zenon
    <2>2. CASE ~ (Cardinality(waiting) + 1 < BarrierSize)
      <3>1. tpc[t] = "start"
        BY <1>6, Zenon DEF T!BArrive
      <3>2. waiting \cup {t} = T!Thr
        BY <1>a, <2>2, <3>1, LastArrives, Zenon
      <3>3. waiting' = {} /\ calls' = calls + 1 /\ j' = j /\ \A u \in T!Thr : tpc'[u] = "passed"
        BY <1>1, <1>6, <2>0, <2>2, <3>2, Zenon DEF T!BArrive
      <3>4. \A u \in T!Thr : tpc[u] \in {"start", "blocked"}
        BY <1>2, <3>1, <3>2, Zenon
      <3> QED
        BY <1>1, <1>2, <3>3, <3>4
    <2> QED
      BY <2>1, <2>2, Zenon
  <1>7. ASSUME NEW t \in T!Thr, T!BPassed(t) \/ T!BEnd(t)
        PROVE  /\ \A u \in T!Thr : /\ tpc'[u] \in {"none", "start", "blocked", "passed", "end"}
                                   /\ j'[u] + (IF tpc'[u] = "passed" THEN 1 ELSE 0) = calls'
                                   /\ tpc'[u] = "end" => j'[u] = NumBarriers
               /\ waiting' = {u \in T!Thr : tpc'[u] = "blocked"}
    BY <1>1, <1>2, <1>7 DEF T!BPassed, T!BEnd, T!TGoto
  <1>8. \A t \in T!Thr : ~ T!CSpurious(t)
    BY <1>2, Zenon DEF T!CSpurious, T!TGoto
  <1>9. CASE T!MCreated \/ T!MCancel \/ T!MSet \/ T!MSignal \/ T!MJoin
    <2>1. ~ T!MSet /\ ~ T!MSignal
      BY <1>a, Zenon DEF T!MSet, T!MSignal, RestInv, RestMain
    <2> QED
      BY <1>5, <1>9, <2>1, Zenon DEF T!MCreated, T!MCancel, T!MJoin
  <1>10. CASE UNCHANGED T!tvars
    BY <1>5, <1>10, Zenon DEF T!tvars
  <1> QED
    BY <1>a, <1>4, <1>6, <1>7, <1>8, <1>9, <1>10, Zenon
       DEF T!Next, T!MainStep, T!Spurious, T!ThreadStep, T!thread_incr, T!thread_incr_mutex,
           T!thread_incr_rwlock, T!thread_incr_spinlock, T!thread_incr_psem, T!one_time_init,
           T!barrier, T!thread_cleanup, T!thread_cancel

(* The one thread of thread_cancel and thread_cleanup. *)
LEMMA CleanupNext == RestInv /\ [T!Next]_(T!tvars) => CleanupInv'
  <1> SUFFICES ASSUME RestInv, [T!Next]_(T!tvars) PROVE CleanupInv' BY Zenon
  <1>0. program' = program
    BY RestSame, Zenon
  <1>1. SUFFICES ASSUME program \in T!Cancelling \cup {"thread_cleanup sig"} PROVE CleanupInv'
    BY <1>0, Zenon DEF CleanupInv, T!Cancelling
  <1>2. T!Thr = {0} /\ T!Size = 1 /\ tpc \in [{0} -> RestPC] /\ calls \in Int /\ idx \in 0 .. 1
    BY <1>1, RestSize, Zenon DEF RestInv, RestTyped
  <1>3. CleanupInv
    BY Zenon DEF RestInv
  <1>4. CASE T!MCreate
    <2>1. tpc[0] = "none" /\ tpc' = [tpc EXCEPT ![0] = "start"] /\ UNCHANGED <<mtx, calls>>
      <3>1. idx = 0
        BY <1>2, <1>4 DEF T!MCreate
      <3>2. tpc[0] = "none"
        BY <1>2, <1>4, <3>1 DEF T!MCreate, RestInv, RestMain
      <3> QED
        BY <1>4, <3>1, <3>2, Zenon DEF T!MCreate
    <2> QED
      BY <1>0, <1>2, <1>3, <2>1, Zenon DEF CleanupInv
  <1>5. CASE UNCHANGED <<tpc, mtx, calls>>
    BY <1>0, <1>3, <1>5, Zenon DEF CleanupInv, T!Free
  <1>6. CASE T!MSignal
    <2>2. tpc'[0] = tpc[0] \/ (tpc[0] = "waiting" /\ tpc'[0] = "relock")
      BY <1>2, <1>6, Zenon DEF T!MSignal
    <2>3. UNCHANGED <<mtx, calls>>
      BY <1>6, Zenon DEF T!MSignal
    <2>4. CASE tpc'[0] = tpc[0]
      BY <1>0, <1>3, <2>3, <2>4, Zenon DEF CleanupInv, T!Free
    <2>5. CASE tpc[0] = "waiting" /\ tpc'[0] = "relock"
      BY <1>0, <1>3, <2>3, <2>5, Zenon DEF CleanupInv, T!Free
    <2> QED
      BY <2>2, <2>4, <2>5, Zenon
  <1>7. CASE T!thread_cleanup(0) \/ T!CSpurious(0)
    <2>1. CASE T!CSpurious(0)
      <3>1. tpc[0] = "waiting" /\ tpc'[0] = "relock" /\ UNCHANGED <<mtx, calls>>
        BY <1>2, <2>1, Zenon DEF T!CSpurious, T!TGoto
      <3> QED
        BY <1>0, <1>3, <3>1, Zenon DEF CleanupInv, T!Free
    <2>2. CASE T!thread_cleanup(0) /\ (T!CMalloc(0) \/ T!cleanupHandler(0))
      <3>1. \/ tpc[0] = "start" /\ tpc'[0] = "printf" /\ calls' = calls + 1 /\ mtx' = mtx
            \/ /\ tpc[0] \in {"pop", "cancel"} /\ tpc'[0] \in {"end", "cancelled"}
               /\ calls' = calls - 1 /\ mtx' = T!Free
        BY <1>2, <2>2, Zenon DEF T!CMalloc, T!cleanupHandler, T!TGoto
      <3>2. program \in {"thread_cleanup", "thread_cleanup sig"}
        BY <2>2, Zenon DEF T!thread_cleanup
      <3>3. calls = IF tpc[0] = "start" THEN 0 ELSE 1
        BY <1>3, <3>1, <3>2, Zenon DEF CleanupInv
      <3>4. tpc[0] = "start" => mtx = T!Free
        BY <1>3, <3>2, Zenon DEF CleanupInv
      <3>5. \/ tpc'[0] = "printf" /\ calls' = 1 /\ mtx' = T!Free
            \/ tpc'[0] \in {"end", "cancelled"} /\ calls' = 0 /\ mtx' = T!Free
        BY <3>1, <3>3, <3>4
      <3> QED
        BY <1>0, <3>2, <3>5, Zenon DEF CleanupInv, T!Free
    <2>3. CASE T!thread_cleanup(0) /\ (T!CPrintf(0) \/ T!CCancelled(0))
      <3>1. /\ tpc[0] \in {"printf", "waiting"} /\ tpc'[0] \in {"lock", "leaked", "relock to cancel"}
            /\ UNCHANGED <<mtx, calls>>
        BY <1>2, <2>3, Zenon DEF T!CPrintf, T!CCancelled, T!TGoto
      <3> QED
        BY <1>0, <1>3, <2>3, <3>1, Zenon DEF CleanupInv, T!Free, T!thread_cleanup
    <2>4. CASE T!thread_cleanup(0) /\ T!CLock(0)
      <3>1. /\ tpc[0] \in {"lock", "relock", "relock to cancel"} /\ tpc'[0] \in {"test", "cancel"}
            /\ calls' = calls
        BY <1>2, <2>4, Zenon DEF T!CLock, T!TGoto
      <3> QED
        BY <1>0, <1>3, <2>4, <3>1, Zenon DEF CleanupInv, T!Free, T!thread_cleanup
    <2>5. CASE T!thread_cleanup(0) /\ T!CTest(0)
      <3>1. tpc[0] = "test" /\ tpc'[0] \in {"wait", "pop"} /\ calls' = calls
        BY <1>2, <2>5, Zenon DEF T!CTest, T!TGoto
      <3> QED
        BY <1>0, <1>3, <2>5, <3>1, Zenon DEF CleanupInv, T!Free, T!thread_cleanup
    <2>6. CASE T!thread_cleanup(0) /\ T!CWait(0)
      <3>1. /\ tpc[0] = "wait" /\ calls' = calls
            /\ tpc'[0] = "cancel" \/ (tpc'[0] = "waiting" /\ mtx' = T!Free)
        BY <1>2, <2>6, Zenon DEF T!CWait, T!TGoto
      <3> QED
        BY <1>0, <1>3, <2>6, <3>1, Zenon DEF CleanupInv, T!Free, T!thread_cleanup
    <2> QED
      BY <1>7, <2>1, <2>2, <2>3, <2>4, <2>5, <2>6, Zenon DEF T!thread_cleanup
  <1>8. CASE T!thread_cancel(0)
    <2>1. program = "thread_cancel" /\ tpc'[0] = "cancelled"
      BY <1>2, <1>8, Zenon DEF T!thread_cancel, T!TGoto
    <2> QED
      BY <1>0, <2>1, Zenon DEF CleanupInv
  <1>9. CASE T!MCreated \/ T!MCancel \/ T!MSet \/ T!MJoin
    BY <1>5, <1>9, Zenon DEF T!MCreated, T!MCancel, T!MSet, T!MJoin
  <1>10. CASE UNCHANGED T!tvars
    BY <1>5, <1>10, Zenon DEF T!tvars
  <1> QED
    BY <1>1, <1>2, <1>4, <1>6, <1>7, <1>8, <1>9, <1>10, Zenon
       DEF T!Next, T!MainStep, T!Spurious, T!ThreadStep, T!thread_incr, T!thread_incr_mutex,
           T!thread_incr_rwlock, T!thread_incr_spinlock, T!thread_incr_psem, T!one_time_init,
           T!barrier, T!Cancelling

LEMMA RestNext == RestInv /\ [T!Next]_(T!tvars) => RestInv'
  BY RestTypedNext, RestMainNext, LockedNext, UnlockedNext, OnceNext, BarrierNext, CleanupNext
     DEF RestInv

(* What the programs are left with when main() has joined the threads. *)
LEMMA RestExit == RestInv => T!InStep /\ T!ExitIsRight
  <1> SUFFICES ASSUME RestInv PROVE T!InStep /\ T!ExitIsRight BY Zenon
  <1>0. /\ program \in T!ThreadProgram /\ T!Size \in Nat \ {0}
        /\ j \in [T!Thr -> Nat] /\ glob \in Nat /\ calls \in Int
    BY RestSize, Zenon DEF RestInv, RestTyped
  <1>1. T!InStep
    <2>1. ASSUME program = "barrier", NEW t \in T!Thr, NEW u \in T!Thr
          PROVE  j[t] + (IF tpc[t] = "passed" THEN 1 ELSE 0)
                    <= j[u] + (IF tpc[u] \in {"blocked", "passed"} THEN 1 ELSE 0)
      BY <1>0, <2>1 DEF RestInv, BarrierInv
    <2>2. ASSUME program = "one_time_init", NEW t \in T!Thr, j[t] > 0
          PROVE  calls = 1 /\ glob = 1
      BY <2>2, Zenon DEF RestInv, OnceInv
    <2> QED
      BY <2>1, <2>2, Zenon DEF T!InStep
  <1>2. SUFFICES ASSUME mpc = "exit" PROVE T!ExitIsRight
    BY <1>1, Zenon DEF T!ExitIsRight
  <1>3. \A t \in T!Thr : tpc[t] \in {"end", "cancelled", "leaked"}
    BY <1>2, Zenon DEF RestInv, RestMain, T!Ended
  <1>4. ASSUME program \in T!Locked PROVE glob = 2 * Loops
    <2>1. T!Thr = {0, 1}
      BY <1>0, <1>4, RestSize, Zenon
    <2>2. tpc[0] = "end" /\ tpc[1] = "end"
      BY <1>3, <1>4, <2>1, Zenon DEF RestInv, LockedInv
    <2> QED
      BY <1>4, <2>1, <2>2, LoopsAssumption DEF RestInv, LockedInv
  <1>5. ASSUME program = "thread_incr" PROVE glob \in (IF Loops = 1 THEN 1 ELSE 2) .. 2 * Loops
    <2>1. T!Thr = {0, 1}
      BY <1>0, <1>5, RestSize, Zenon
    <2>2. tpc[0] = "end" /\ tpc[1] = "end"
      BY <1>3, <1>5, <2>1, Zenon DEF RestInv, UnlockedInv
    <2>3. j[0] = Loops /\ j[1] = Loops
      BY <1>5, <2>1, <2>2, Zenon DEF RestInv, UnlockedInv
    <2>4. glob <= 2 * Loops /\ glob > 0 /\ (Loops > 1 => glob > 1)
      BY <1>5, <2>3, LoopsAssumption DEF RestInv, UnlockedInv
    <2> QED
      BY <1>0, <2>4, LoopsAssumption
  <1>6. ASSUME program = "one_time_init" PROVE calls = 1
    <2>1. 0 \in T!Thr
      BY <1>0, <1>6, RestSize, Zenon
    <2>2. tpc[0] = "end"
      BY <1>3, <1>6, <2>1, Zenon DEF RestInv, OnceInv
    <2> QED
      BY <1>6, <2>1, <2>2, Zenon DEF RestInv, OnceInv
  <1>7. ASSUME program = "barrier" PROVE calls = NumBarriers
    <2>1. 0 \in T!Thr
      BY <1>0 DEF T!Thr
    <2>2. tpc[0] = "end"
      BY <1>3, <1>7, <2>1, Zenon DEF RestInv, BarrierInv
    <2> QED
      BY <1>0, <1>7, <2>1, <2>2, BarrierAssumption DEF RestInv, BarrierInv
  <1>8. ASSUME program = "thread_cancel" PROVE tpc[0] = "cancelled"
    <2>1. 0 \in T!Thr
      BY <1>0 DEF T!Thr
    <2> QED
      BY <1>3, <1>8, <2>1, Zenon DEF RestInv, CleanupInv
  <1>9. ASSUME program \in {"thread_cleanup", "thread_cleanup sig"}
        PROVE  mtx = T!Free /\ (calls = 0 \/ tpc[0] = "leaked")
    <2>1. 0 \in T!Thr
      BY <1>0 DEF T!Thr
    <2> QED
      BY <1>3, <1>9, <2>1, Zenon DEF RestInv, CleanupInv
  <1> QED
    BY <1>0, <1>4, <1>5, <1>6, <1>7, <1>8, <1>9, Zenon
       DEF T!ExitIsRight, T!ThreadProgram, T!Cancelling

-----------------------------------------------------------------------------
(* prod_condvar and prod_no_condvar. *)

VARIABLES avail, ppc, made, created, totRequired, numConsumed, done

P == INSTANCE ProdCondvar

(* The mutex is held by who is between lock and unlock. *)
ProdLock ==
    /\ \A p \in P!Producer : ppc[p] \in {"load", "store", "unlock"} <=> mtx = p
    /\ mpc \in {"test", "consume"} <=> mtx = P!Main

(* A producer that has read avail still finds it so, and makes no more     *)
(* units than it was told; main() has created the first ones.              *)
ProdWork ==
    \A p \in P!Producer :
        /\ ppc[p] = "store" => loc[p] = avail
        /\ made[p] <= Counts[p]
        /\ ppc[p] \in {"lock", "load", "store", "unlock", "signal"} => made[p] < Counts[p]
        /\ ppc[p] = "none" <=> p > created

(* main() asks for the units of the producers it has created, and is done  *)
(* when it has them.                                                       *)
ProdMain ==
    /\ mpc # "create" => created = P!N
    /\ totRequired = Sum(Counts, 1 .. created)
    /\ mpc \in {"test", "waiting", "relock"} => program = "condvar"
    /\ done => mpc # "create" /\ numConsumed >= totRequired
    /\ mpc = "exit" => done /\ avail = 0

ProdSum == avail + numConsumed = Sum(P!Added, P!Producer)

ProdInv == P!TypeOK /\ ProdLock /\ ProdWork /\ ProdMain /\ ProdSum /\ P!NoLostWakeup

prodVars == <<program, avail, mtx, ppc, made, loc, mpc, created, totRequired, numConsumed, done>>

(* The producers have natural numbers of units to make. *)
LEMMA ProducerCounts == P!N \in Nat /\ \A p \in P!Producer : Counts[p] \in Nat
  BY CountsAssumption DEF P!Producer, P!N

(* There are finitely many producers. *)
LEMMA ProducerFinite == IsFiniteSet(P!Producer) /\ \A n \in 0 .. P!N : IsFiniteSet(1 .. n)
  <1>1. \A n \in 0 .. P!N : IsFiniteSet(1 .. n)
    BY ProducerCounts, FS_Interval
  <1> QED
    BY <1>1, ProducerCounts DEF P!Producer

(* A sum of what the producers have added, after a step: the producers are *)
(* the same.                                                               *)
LEMMA ProdSumPrimed == ProdSum' <=> avail' + numConsumed' = Sum(P!Added', P!Producer)
  BY Zenon DEF ProdSum, P!Producer, P!N

(* A step that moves units, and makes none, keeps the sum. *)
LEMMA ProdSumKept ==
  ASSUME ProdSum, avail' + numConsumed' = avail + numConsumed,
         \A p \in P!Producer : P!Added'[p] = P!Added[p]
  PROVE  ProdSum'
  <1>1. Sum(P!Added', P!Producer) = Sum(P!Added, P!Producer)
    BY ProducerFinite, SumSame, Zenon
  <1> QED
    BY <1>1, ProdSumPrimed, Zenon DEF ProdSum

(* Initially nothing was made. *)
LEMMA ProdInit == P!Init => ProdInv
  <1> SUFFICES ASSUME P!Init PROVE ProdInv BY Zenon
  <1> USE ProducerCounts
  <1>1. P!TypeOK
    <2>1. /\ program \in Programs /\ avail \in Nat /\ mtx \in 0 .. P!N + 1 /\ mpc \in P!MPC
          /\ created \in 0 .. P!N /\ totRequired \in Nat /\ numConsumed \in Nat
      BY DEF P!Init, P!MPC, P!Free
    <2>3. done \in BOOLEAN
      BY Zenon DEF P!Init
    <2>2. /\ ppc \in [P!Producer -> P!PPC] /\ made \in [P!Producer -> Nat]
          /\ loc \in [P!Producer -> Nat]
      BY Zenon DEF P!Init, P!PPC
    <2> QED
      BY <2>1, <2>2, <2>3, Zenon DEF P!TypeOK
  <1>2. ProdLock /\ ProdWork /\ P!NoLostWakeup
    BY DEF P!Init, ProdLock, ProdWork, P!NoLostWakeup, P!Producer, P!Main, P!Free
  <1>3. ProdMain
    <2>1. 1 .. created = {}
      BY DEF P!Init
    <2>2. Sum(Counts, 1 .. created) = 0
      BY <2>1, SumEmpty, Zenon
    <2> QED
      BY <2>2, Zenon DEF P!Init, ProdMain
  <1>4. ProdSum
    <2>1. \A p \in P!Producer : P!Added[p] = 0
      BY DEF P!Init, P!Added
    <2>2. Sum(P!Added, P!Producer) = 0
      BY <2>1, ProducerFinite, SumZero, Zenon
    <2> QED
      BY <2>2 DEF P!Init, ProdSum
  <1> QED
    BY <1>1, <1>2, <1>3, <1>4 DEF ProdInv

(* Every step of main() and of a producer keeps ProdInv. *)
LEMMA ProdNext == ProdInv /\ [P!Next]_prodVars => ProdInv'
  <1> SUFFICES ASSUME ProdInv, [P!Next]_prodVars PROVE ProdInv' BY Zenon
  <1> USE ProducerCounts
  <1>1. ASSUME NEW p \in P!Producer, P!ProducerStep(p), ~P!PStore(p)
        PROVE  ProdInv'
    <2>1. P!PLoop(p) \/ P!PLock(p) \/ P!PLoad(p) \/ P!PUnlock(p) \/ P!PSignal(p)
      BY <1>1, Zenon DEF P!ProducerStep
    <2>2. /\ mpc # "exit" /\ UNCHANGED <<program, avail, created, totRequired, numConsumed, done>>
          /\ mpc' = mpc \/ (mpc = "waiting" /\ mpc' = "relock")
      BY <1>1, <2>1, Zenon DEF P!ProducerStep, P!PLoop, P!PLock, P!PLoad, P!PUnlock, P!PSignal, P!main
    <2>3. P!TypeOK'
      <3>1. mtx' \in 0 .. P!N + 1 /\ mpc' \in P!MPC
        BY <2>1, <2>2, SMTT(30) DEF P!PLoop, P!PLock, P!PLoad, P!PUnlock, P!PSignal, ProdInv, P!TypeOK, P!MPC,
                          P!Producer, P!Free
      <3>2. ppc' \in [P!Producer -> P!PPC]
        BY <2>1, Zenon DEF P!PLoop, P!PLock, P!PLoad, P!PUnlock, P!PSignal, P!PGoto, ProdInv, P!TypeOK, P!PPC
      <3>3. made' \in [P!Producer -> Nat] /\ loc' \in [P!Producer -> Nat]
        BY <2>1 DEF P!PLoop, P!PLock, P!PLoad, P!PUnlock, P!PSignal, ProdInv, P!TypeOK
      <3> QED
        BY <2>2, <3>1, <3>2, <3>3, Zenon DEF ProdInv, P!TypeOK
    <2>4. ProdLock'
      <3>1. CASE P!PLoop(p) \/ P!PLoad(p) \/ P!PSignal(p)
        <4>1. mtx' = mtx /\ (mpc' \in {"test", "consume"} <=> mpc \in {"test", "consume"})
          BY <2>2, <3>1, Zenon DEF P!PLoop, P!PLoad, P!PSignal
        <4>2. \A q \in P!Producer :
                 ppc'[q] \in {"load", "store", "unlock"} <=> ppc[q] \in {"load", "store", "unlock"}
          BY <3>1, Zenon DEF P!PLoop, P!PLoad, P!PSignal, P!PGoto, ProdInv, P!TypeOK
        <4> QED
          BY <4>1, <4>2, Zenon DEF ProdInv, ProdLock
      <3>2. CASE P!PLock(p)
        <4>1. mtx = P!Free /\ mtx' = p /\ mpc' = mpc /\ ppc' = [ppc EXCEPT ![p] = "load"]
          BY <3>2, Zenon DEF P!PLock, P!PGoto, P!main
        <4> QED
          BY <4>1 DEF ProdInv, P!TypeOK, ProdLock, P!Producer, P!Main, P!Free
      <3>3. CASE P!PUnlock(p)
        <4>1. /\ mtx = p /\ mtx' = P!Free /\ mpc' = mpc
              /\ ppc' = [ppc EXCEPT ![p] = "signal"] \/ ppc' = [ppc EXCEPT ![p] = "loop"]
          BY <3>3, Zenon DEF P!PUnlock, P!PGoto, P!main, ProdInv, ProdLock
        <4> QED
          BY <4>1, SMTT(30) DEF ProdInv, P!TypeOK, ProdLock, P!Producer, P!Main, P!Free
      <3> QED
        BY <2>1, <3>1, <3>2, <3>3, Zenon
    <2>5. ProdWork'
      <3>1. CASE P!PLoop(p) \/ P!PLock(p) \/ P!PLoad(p)
        BY <2>2, <3>1, Zenon DEF P!PLoop, P!PLock, P!PLoad, P!PGoto, P!main, ProdInv, P!TypeOK, ProdWork
      <3>2. CASE P!PUnlock(p) \/ P!PSignal(p)
        BY <2>2, <3>2 DEF P!PUnlock, P!PSignal, P!PGoto, P!main, ProdInv, P!TypeOK, ProdWork
      <3> QED
        BY <2>1, <3>1, <3>2, Zenon
    <2>6. ProdMain'
      <3>1. totRequired' = Sum(Counts, 1 .. created')
        BY <2>2, Zenon DEF ProdInv, ProdMain
      <3> QED
        BY <2>2, <3>1, Zenon DEF ProdInv, ProdMain
    <2>7. ProdSum'
      <3>1. \A q \in P!Producer : P!Added'[q] = P!Added[q]
        <4>1. CASE P!PLoop(p) \/ P!PLock(p) \/ P!PLoad(p)
          BY <4>1, Zenon DEF P!PLoop, P!PLock, P!PLoad, P!PGoto, ProdInv, P!TypeOK, P!Added
        <4>2. CASE P!PUnlock(p)
          BY <4>2 DEF P!PUnlock, P!PGoto, ProdInv, P!TypeOK, P!Added
        <4>3. CASE P!PSignal(p)
          BY <4>3 DEF P!PSignal, P!PGoto, ProdInv, P!TypeOK, P!Added
        <4> QED
          BY <2>1, <4>1, <4>2, <4>3
      <3> QED
        BY <2>2, <3>1, ProdSumKept DEF ProdInv
    <2>8. P!NoLostWakeup'
      <3>1. CASE P!PLoop(p) \/ P!PLock(p) \/ P!PLoad(p)
        BY <2>2, <3>1, Zenon DEF P!PLoop, P!PLock, P!PLoad, P!PGoto, ProdInv, P!TypeOK, P!NoLostWakeup
      <3>2. CASE P!PUnlock(p)
        BY <2>2, <3>2, Zenon DEF P!PUnlock, P!PGoto, ProdInv, P!TypeOK, ProdMain, P!NoLostWakeup
      <3>3. CASE P!PSignal(p)
        BY <3>3, Zenon DEF P!PSignal, P!NoLostWakeup
      <3> QED
        BY <2>1, <3>1, <3>2, <3>3
    <2> QED
      BY <2>3, <2>4, <2>5, <2>6, <2>7, <2>8, Zenon DEF ProdInv
  <1>2. ASSUME NEW p \in P!Producer, P!PStore(p), mpc # "exit"
        PROVE  ProdInv'
    <2>1. /\ ppc[p] = "store" /\ ppc' = [ppc EXCEPT ![p] = "unlock"]
          /\ avail' = avail + 1
          /\ UNCHANGED <<program, mtx, made, loc, mpc, created, totRequired, numConsumed, done>>
      BY <1>2, Zenon DEF P!PStore, P!PGoto, P!main, ProdInv, ProdWork
    <2>2. P!TypeOK' /\ ProdLock'
      BY <2>1 DEF ProdInv, P!TypeOK, ProdLock, P!PPC
    <2>3. ProdWork'
      BY <2>1, Zenon DEF ProdInv, P!TypeOK, ProdLock, ProdWork
    <2>4. ProdMain'
      <3>1. totRequired' = Sum(Counts, 1 .. created')
        BY <2>1, Zenon DEF ProdInv, ProdMain
      <3> QED
        BY <1>2, <2>1, <3>1, Zenon DEF ProdInv, ProdMain
    <2>5. ProdSum'
      <3>1. \A q \in P!Producer : P!Added[q] \in Int /\ P!Added'[q] \in Int
        BY <2>1 DEF ProdInv, P!TypeOK, P!Added
      <3>6. \A q \in P!Producer : q # p => P!Added'[q] = P!Added[q]
        BY <2>1, Zenon DEF ProdInv, P!TypeOK, P!Added
      <3>7. P!Added'[p] = P!Added[p] + 1
        BY <2>1 DEF ProdInv, P!TypeOK, P!Added
      <3>2. Sum(P!Added', P!Producer) = Sum(P!Added, P!Producer) - P!Added[p] + P!Added'[p]
        <4>1. IsFiniteSet(P!Producer)
          BY ProducerFinite, Zenon
        <4> QED
          BY ONLY <3>1, <3>6, <4>1, p \in P!Producer, SumChange
      <3>3. Sum(P!Added, P!Producer) \in Int
        BY <3>1, ProducerFinite, SumType, Zenon
      <3>4. avail \in Nat /\ numConsumed \in Nat /\ avail + numConsumed = Sum(P!Added, P!Producer)
        BY Zenon DEF ProdInv, P!TypeOK, ProdSum
      <3>5. Sum(P!Added', P!Producer) = Sum(P!Added, P!Producer) + 1
        BY <3>1, <3>2, <3>3, <3>7
      <3> QED
        BY <2>1, <3>4, <3>5, ProdSumPrimed
    <2>6. P!NoLostWakeup'
      BY <2>1, Zenon DEF ProdInv, P!TypeOK, P!NoLostWakeup
    <2> QED
      BY <2>2, <2>3, <2>4, <2>5, <2>6 DEF ProdInv
  <1>3. CASE P!MCreate
    <2>1. /\ mpc = "create" /\ created + 1 \in P!Producer /\ created \in 0 .. P!N
          /\ created' = created + 1 /\ totRequired' = totRequired + Counts[created + 1]
          /\ ppc' = [ppc EXCEPT ![created + 1] = "loop"] /\ ppc[created + 1] = "none"
          /\ UNCHANGED <<program, avail, mtx, made, loc, mpc, numConsumed, done>>
      BY <1>3 DEF P!MCreate, ProdInv, P!TypeOK, ProdWork, P!Producer
    <2>2. P!TypeOK'
      <3>1. created' \in 0 .. P!N /\ Counts[created + 1] \in Nat
        BY <2>1 DEF P!Producer
      <3>2. totRequired' \in Nat
        BY <2>1, <3>1 DEF ProdInv, P!TypeOK
      <3>3. ppc' \in [P!Producer -> P!PPC]
        BY <2>1, Zenon DEF ProdInv, P!TypeOK, P!PPC
      <3> QED
        BY <2>1, <3>1, <3>2, <3>3 DEF ProdInv, P!TypeOK
    <2>3. ProdLock' /\ P!NoLostWakeup'
      BY <2>1, Zenon DEF ProdInv, P!TypeOK, ProdLock, P!NoLostWakeup
    <2>4. ProdWork'
      BY <2>1, SMTT(30) DEF ProdInv, P!TypeOK, ProdWork, P!Producer
    <2>5. ProdMain'
      <3>1. /\ IsFiniteSet(1 .. created') /\ created' \in 1 .. created'
            /\ (1 .. created') \ {created'} = 1 .. created
            /\ \A x \in 1 .. created' : Counts[x] \in Int
        BY <2>1, ProducerFinite DEF P!Producer
      <3>2. Sum(Counts, 1 .. created') = Counts[created'] + Sum(Counts, (1 .. created') \ {created'})
        BY <3>1, SumRemove, Zenon
      <3>3. totRequired = Sum(Counts, 1 .. created) /\ totRequired \in Nat
        BY Zenon DEF ProdInv, ProdMain, P!TypeOK
      <3>4. Counts[created'] \in Nat
        BY <2>1, Zenon
      <3>5. Sum(Counts, (1 .. created') \ {created'}) = totRequired
        BY <3>1, <3>3, Zenon
      <3>6. totRequired' = Sum(Counts, 1 .. created')
        BY <2>1, <3>2, <3>3, <3>4, <3>5
      <3> QED
        BY <2>1, <3>6, Zenon DEF ProdInv, ProdMain
    <2>6. ProdSum'
      <3>1. \A q \in P!Producer : P!Added'[q] = P!Added[q]
        BY <2>1, Zenon DEF ProdInv, P!TypeOK, P!Added
      <3> QED
        BY <2>1, <3>1, ProdSumKept, Zenon DEF ProdInv
    <2> QED
      BY <2>2, <2>3, <2>4, <2>5, <2>6 DEF ProdInv
  <1>4. CASE P!MCreated \/ P!MLock \/ P!MTest \/ P!MSpurious \/ P!MRelock \/ P!MUnlock
    <2>1. UNCHANGED <<program, avail, ppc, made, loc, created, totRequired, numConsumed, done>>
      BY <1>4, Zenon DEF P!MCreated, P!MLock, P!MTest, P!MSpurious, P!MRelock, P!MUnlock
    <2>2. P!TypeOK'
      BY <1>4, <2>1 DEF P!MCreated, P!MLock, P!MTest, P!MSpurious, P!MRelock, P!MUnlock, P!MGoto,
                        ProdInv, P!TypeOK, P!MPC, P!Main, P!Free
    <2>3. ProdLock'
      <3>1. CASE P!MCreated \/ P!MTest \/ P!MSpurious
        BY <2>1, <3>1 DEF P!MCreated, P!MTest, P!MSpurious, P!MGoto, ProdInv, P!TypeOK, ProdLock,
                          P!Producer, P!Main, P!Free
      <3>2. CASE P!MLock \/ P!MRelock \/ P!MUnlock
        BY <2>1, <3>2 DEF P!MLock, P!MRelock, P!MUnlock, P!MGoto, ProdInv, P!TypeOK, ProdLock,
                          P!Producer, P!Main, P!Free
      <3> QED
        BY <1>4, <3>1, <3>2, Zenon
    <2>4. ProdWork'
      BY <2>1, Zenon DEF ProdInv, ProdWork
    <2>5. ProdMain'
      <3>1. totRequired' = Sum(Counts, 1 .. created')
        BY <2>1, Zenon DEF ProdInv, ProdMain
      <3> QED
        BY <1>4, <2>1, <3>1, Zenon DEF P!MCreated, P!MLock, P!MTest, P!MSpurious, P!MRelock, P!MUnlock,
                                P!MGoto, ProdInv, P!TypeOK, ProdMain
    <2>6. ProdSum'
      <3>1. \A q \in P!Producer : P!Added'[q] = P!Added[q]
        BY <2>1, Zenon DEF P!Added
      <3> QED
        BY <2>1, <3>1, ProdSumKept, Zenon DEF ProdInv
    <2>7. P!NoLostWakeup'
      BY <1>4, <2>1 DEF P!MCreated, P!MLock, P!MTest, P!MSpurious, P!MRelock, P!MUnlock, P!MGoto,
                        ProdInv, P!NoLostWakeup
    <2> QED
      BY <2>2, <2>3, <2>4, <2>5, <2>6, <2>7 DEF ProdInv
  <1>5. CASE P!MConsume
    <2>1. /\ mpc = "consume" /\ avail > 0 /\ avail' = avail - 1 /\ numConsumed' = numConsumed + 1
          /\ done' = (numConsumed' >= totRequired)
          /\ UNCHANGED <<program, mtx, ppc, made, loc, mpc, created, totRequired>>
      BY <1>5, Zenon DEF P!MConsume
    <2>2. P!TypeOK' /\ ProdLock' /\ P!NoLostWakeup'
      BY <2>1 DEF ProdInv, P!TypeOK, ProdLock, P!NoLostWakeup
    <2>3. ProdWork'
      BY <2>1 DEF ProdInv, P!TypeOK, ProdLock, ProdWork, P!Producer, P!Main
    <2>4. ProdMain'
      <3>1. totRequired' = Sum(Counts, 1 .. created')
        BY <2>1, Zenon DEF ProdInv, ProdMain
      <3> QED
        BY <2>1, <3>1, Zenon DEF ProdInv, ProdMain
    <2>5. ProdSum'
      <3>1. \A q \in P!Producer : P!Added'[q] = P!Added[q]
        BY <2>1, Zenon DEF P!Added
      <3>2. avail' + numConsumed' = avail + numConsumed
        BY <2>1 DEF ProdInv, P!TypeOK
      <3> QED
        BY <3>1, <3>2, ProdSumKept, Zenon DEF ProdInv
    <2> QED
      BY <2>2, <2>3, <2>4, <2>5 DEF ProdInv
  <1>6. CASE UNCHANGED prodVars
    <2>1. P!TypeOK' /\ ProdLock' /\ ProdWork' /\ P!NoLostWakeup'
      BY <1>6, Zenon DEF prodVars, ProdInv, P!TypeOK, ProdLock, ProdWork, P!NoLostWakeup
    <2>2. ProdMain'
      BY <1>6, Zenon DEF prodVars, ProdInv, ProdMain
    <2>3. ProdSum'
      <3>1. \A q \in P!Producer : P!Added'[q] = P!Added[q]
        BY <1>6, Zenon DEF prodVars, P!Added
      <3> QED
        BY <1>6, <3>1, ProdSumKept, Zenon DEF prodVars, ProdInv
    <2> QED
      BY <2>1, <2>2, <2>3, Zenon DEF ProdInv
  <1> QED
    BY <1>1, <1>2, <1>3, <1>4, <1>5, <1>6 DEF P!Next, P!MainStep, P!ProducerStep

(* What ProdInv says of the end: main() has consumed what it asked for,    *)
(* which is at least, and at most, what there is to make.                  *)
LEMMA ProdExit == ProdInv => P!UnitsConserved /\ P!ExitMeansAllConsumed
  <1> SUFFICES ASSUME ProdInv PROVE P!UnitsConserved /\ P!ExitMeansAllConsumed BY Zenon
  <1>1. /\ Sum(P!Added, P!Producer) = P!Produced
        /\ Sum(Counts, P!Producer) = P!MapThenSumSet(LAMBDA p : Counts[p], P!Producer)
    BY Zenon DEF Sum, P!Produced, MapThenSumSet, MapThenFoldSet, P!MapThenSumSet, P!MapThenFoldSet
  <1>2. P!UnitsConserved
    BY <1>1, Zenon DEF ProdInv, ProdSum, P!UnitsConserved
  <1>3. ASSUME mpc = "exit"
        PROVE  avail = 0 /\ numConsumed = Sum(Counts, P!Producer)
    <2>1. avail = 0 /\ numConsumed >= totRequired /\ created = P!N /\ numConsumed \in Nat
      BY <1>3, Zenon DEF ProdInv, ProdMain, P!TypeOK
    <2>2. totRequired = Sum(Counts, P!Producer)
      BY <2>1, Zenon DEF ProdInv, ProdMain, P!Producer
    <2>3. \A p \in P!Producer : P!Added[p] \in Int /\ Counts[p] \in Int /\ P!Added[p] <= Counts[p]
      BY ProducerCounts DEF ProdInv, P!TypeOK, ProdWork, P!Added
    <2>4. Sum(P!Added, P!Producer) <= Sum(Counts, P!Producer)
      BY <2>3, ProducerFinite, SumMonotone, Zenon
    <2>5. Sum(Counts, P!Producer) \in Int
      BY <2>3, ProducerFinite, SumType
    <2>6. numConsumed = Sum(P!Added, P!Producer)
      BY <2>1 DEF ProdInv, ProdSum
    <2> QED
      BY <2>1, <2>2, <2>4, <2>5, <2>6
  <1> QED
    BY <1>1, <1>2, <1>3, Zenon DEF P!ExitMeansAllConsumed

-----------------------------------------------------------------------------
(* thread_multijoin. *)

VARIABLES state, numUnjoined, numLive, totThreads

M == INSTANCE MultiJoin

joinVars == <<mtx, tpc, loc, state, numUnjoined, numLive, totThreads, mpc, idx>>

JoinTyped ==
    /\ mtx \in 0 .. NumThreads + 1 /\ tpc \in [M!Thread -> M!TPC] /\ loc \in [M!Thread -> Int]
    /\ state \in [M!Thread -> {"ALIVE", "TERMINATED", "JOINED"}]
    /\ numUnjoined \in Int /\ numLive \in Int /\ totThreads \in Int
    /\ mpc \in M!MPC /\ idx \in Int

Inside == {"load", "store", "mark", "unlock"}

(* The mutex is held by who is between lock and unlock. *)
JoinLock ==
    /\ \A t \in M!Thread : tpc[t] \in Inside <=> mtx = t
    /\ mpc \in {"test", "scan"} <=> mtx = M!Main

(* Threads are created in order; main() counts them afterwards. *)
CreateInv ==
    /\ mpc = "create" => idx \in 0 .. NumThreads
    /\ \A t \in M!Thread : tpc[t] = "none" <=> (mpc = "create" /\ t >= idx)
    /\ mpc # "create" => totThreads = NumThreads
    /\ mpc = "scan" => idx \in 0 .. NumThreads

(* A thread is marked by its own step and joined after its end. *)
StateInv ==
    \A t \in M!Thread :
        /\ tpc[t] \in {"none", "lock", "load", "store", "mark"} <=> state[t] = "ALIVE"
        /\ state[t] = "JOINED" => tpc[t] = "ended"

Marked == M!InState("TERMINATED")

(* numUnjoined counts the marks, and a thread that is about to set its own. *)
CountInv ==
    /\ \A t \in M!Thread : tpc[t] = "store" => loc[t] = numUnjoined
    /\ \A t \in M!Thread : tpc[t] = "mark" => numUnjoined = Cardinality(Marked) + 1
    /\ (\A t \in M!Thread : tpc[t] # "mark") => numUnjoined = Cardinality(Marked)

(* numLive counts the threads that were not joined. *)
LiveInv ==
    /\ mpc = "create" => M!InState("JOINED") = {}
    /\ mpc # "create" => numLive = NumThreads - Cardinality(M!InState("JOINED"))
    /\ mpc = "exit" => numLive <= 0

JoinInv == JoinTyped /\ JoinLock /\ CreateInv /\ StateInv /\ CountInv /\ LiveInv /\ M!NoLostWakeup

(* There are finitely many threads in any state. *)
LEMMA InStateFinite ==
  ASSUME NEW s
  PROVE  IsFiniteSet(M!InState(s)) /\ Cardinality(M!InState(s)) \in Nat
  <1>1. IsFiniteSet(M!Thread)
    BY NumThreadsAssumption, FS_Interval DEF M!Thread
  <1>2. M!InState(s) \in SUBSET M!Thread
    BY Zenon DEF M!InState
  <1> QED
    BY <1>1, <1>2, FS_Subset, FS_CardinalityType

(* A step that moves nobody in the table keeps both counts. *)
LEMMA TableKept ==
  ASSUME state' = state, NEW s
  PROVE  M!InState(s)' = M!InState(s)
  BY Zenon DEF M!InState

(* Initially no thread exists. *)
LEMMA JoinInit == M!Init => JoinInv
  <1> SUFFICES ASSUME M!Init PROVE JoinInv BY Zenon
  <1> USE NumThreadsAssumption
  <1>1. M!InState("TERMINATED") = {} /\ M!InState("JOINED") = {}
    BY Zenon DEF M!Init, M!InState
  <1>2. JoinTyped
    BY DEF M!Init, JoinTyped, M!TPC, M!MPC, M!Free
  <1>3. JoinLock /\ CreateInv /\ StateInv
    BY DEF M!Init, JoinLock, CreateInv, StateInv, Inside, M!Thread, M!Main, M!Free
  <1>4. CountInv /\ LiveInv /\ M!NoLostWakeup
    BY <1>1, FS_EmptySet DEF M!Init, CountInv, LiveInv, M!NoLostWakeup, Marked
  <1> QED
    BY <1>2, <1>3, <1>4 DEF JoinInv

(* Every step of main() and of a thread keeps JoinInv. *)
LEMMA JoinNext == JoinInv /\ [M!Next]_joinVars => JoinInv'
  <1> SUFFICES ASSUME JoinInv, [M!Next]_joinVars PROVE JoinInv' BY Zenon
  <1> USE NumThreadsAssumption
  <1>1. /\ Cardinality(M!InState("TERMINATED")) \in Nat /\ Cardinality(M!InState("JOINED")) \in Nat
        /\ IsFiniteSet(M!InState("TERMINATED")) /\ IsFiniteSet(M!InState("JOINED"))
    BY InStateFinite, Zenon
  <1>2. ASSUME NEW t \in M!Thread, M!ThreadStep(t), ~M!TMark(t) PROVE JoinInv'
    <2>1. M!TLock(t) \/ M!TLoad(t) \/ M!TStore(t) \/ M!TUnlock(t) \/ M!TSignal(t)
      BY <1>2, Zenon DEF M!ThreadStep
    <2>2. state' = state /\ mpc # "exit"
      BY <2>1, <1>2 DEF M!ThreadStep, M!TLock, M!TLoad, M!TStore, M!TUnlock, M!TSignal
    <2>3. \A s : M!InState(s)' = M!InState(s)
      BY <2>2, TableKept
    <2>4. JoinTyped'
      <3>1. CASE M!TLock(t)
        BY <3>1 DEF M!TLock, M!TGoto, JoinInv, JoinTyped, M!TPC, M!MPC, M!Thread, M!Free
      <3>2. CASE M!TLoad(t)
        BY <3>2, Zenon DEF M!TLoad, M!TGoto, JoinInv, JoinTyped, M!TPC, M!MPC, M!Thread, M!Free
      <3>3. CASE M!TStore(t)
        BY <3>3 DEF M!TStore, M!TGoto, JoinInv, JoinTyped, M!TPC, M!MPC, M!Thread, M!Free
      <3>4. CASE M!TUnlock(t)
        BY <3>4 DEF M!TUnlock, M!TGoto, JoinInv, JoinTyped, M!TPC, M!MPC, M!Thread, M!Free
      <3>5. CASE M!TSignal(t)
        BY <3>5, Zenon DEF M!TSignal, M!TGoto, JoinInv, JoinTyped, M!TPC, M!MPC, M!Thread, M!Free
      <3> QED
        BY <2>1, <3>1, <3>2, <3>3, <3>4, <3>5
    <2>5. JoinLock'
      <3>1. CASE M!TLock(t)
        BY <3>1 DEF M!TLock, M!TGoto, JoinInv, JoinTyped, JoinLock, Inside, M!Thread, M!Main, M!Free
      <3>2. CASE M!TLoad(t)
        BY <3>2 DEF M!TLoad, M!TGoto, JoinInv, JoinTyped, JoinLock, Inside, M!Thread, M!Main, M!Free
      <3>3. CASE M!TStore(t)
        BY <3>3 DEF M!TStore, M!TGoto, JoinInv, JoinTyped, JoinLock, Inside, M!Thread, M!Main, M!Free
      <3>4. CASE M!TUnlock(t)
        BY <3>4 DEF M!TUnlock, M!TGoto, JoinInv, JoinTyped, JoinLock, Inside, M!Thread, M!Main, M!Free
      <3>5. CASE M!TSignal(t)
        BY <3>5, Zenon DEF M!TSignal, M!TGoto, JoinInv, JoinTyped, JoinLock, Inside, M!Thread, M!Main, M!Free
      <3> QED
        BY <2>1, <3>1, <3>2, <3>3, <3>4, <3>5, Zenon
    <2>6. CreateInv'
      BY <2>1, Zenon DEF M!TLock, M!TLoad, M!TStore, M!TUnlock, M!TSignal, M!TGoto, JoinInv, JoinTyped, CreateInv
    <2>7. StateInv'
      BY <2>1 DEF M!TLock, M!TLoad, M!TStore, M!TUnlock, M!TSignal, M!TGoto, JoinInv, JoinTyped, StateInv
    <2>8. CountInv'
      BY <1>1, <2>1, <2>3, ZenonT(60) DEF M!TLock, M!TLoad, M!TStore, M!TUnlock, M!TSignal, M!TGoto, JoinInv, JoinTyped, JoinLock,
                  Inside, CountInv, Marked
    <2>9. LiveInv'
      BY <2>1, <2>2, <2>3, Zenon DEF M!TLock, M!TLoad, M!TStore, M!TUnlock, M!TSignal, JoinInv, LiveInv
    <2>10. M!NoLostWakeup'
      BY <2>1, Zenon DEF M!TLock, M!TLoad, M!TStore, M!TUnlock, M!TSignal, M!TGoto, JoinInv, JoinTyped, M!NoLostWakeup
    <2> QED
      BY <2>4, <2>5, <2>6, <2>7, <2>8, <2>9, <2>10 DEF JoinInv
  <1>3. ASSUME NEW t \in M!Thread, M!TMark(t) PROVE JoinInv'
    <2>1. /\ tpc[t] = "mark" /\ tpc' = [tpc EXCEPT ![t] = "unlock"]
          /\ state' = [state EXCEPT ![t] = "TERMINATED"]
          /\ UNCHANGED <<mtx, loc, numUnjoined, numLive, totThreads, mpc, idx>>
      BY <1>3, Zenon DEF M!TMark, M!TGoto
    <2>2. state[t] = "ALIVE"
      BY <2>1, Zenon DEF JoinInv, StateInv
    <2>3. M!InState("TERMINATED")' = M!InState("TERMINATED") \cup {t} /\ t \notin M!InState("TERMINATED")
      BY <2>1, <2>2, Zenon DEF M!InState, JoinInv, JoinTyped
    <2>4. M!InState("JOINED")' = M!InState("JOINED")
      BY <2>1, <2>2, Zenon DEF M!InState, JoinInv, JoinTyped
    <2>5. Cardinality(M!InState("TERMINATED")') = Cardinality(M!InState("TERMINATED")) + 1
      BY <1>1, <2>3, FS_AddElement
    <2>6. JoinTyped' /\ JoinLock'
      BY <2>1, Zenon DEF JoinInv, JoinTyped, JoinLock, M!TPC, Inside
    <2>7. CreateInv' /\ StateInv'
      BY <2>1, Zenon DEF JoinInv, JoinTyped, CreateInv, StateInv
    <2>8. CountInv'
      BY <1>1, <2>1, <2>5 DEF JoinInv, JoinTyped, JoinLock, Inside, CountInv, Marked
    <2>9. LiveInv' /\ M!NoLostWakeup'
      BY <2>1, <2>4, Zenon DEF JoinInv, JoinTyped, LiveInv, M!NoLostWakeup
    <2> QED
      BY <2>6, <2>7, <2>8, <2>9 DEF JoinInv
  <1>4. CASE M!MCreate
    <2>1. /\ mpc = "create" /\ idx \in M!Thread /\ idx' = idx + 1
          /\ state' = [state EXCEPT ![idx] = "ALIVE"] /\ tpc' = [tpc EXCEPT ![idx] = "lock"]
          /\ UNCHANGED <<mtx, loc, numUnjoined, numLive, totThreads, mpc>>
      BY <1>4 DEF M!MCreate, JoinInv, CreateInv, M!Thread
    <2>2. tpc[idx] = "none" /\ state[idx] = "ALIVE"
      BY <2>1 DEF JoinInv, CreateInv, StateInv, M!Thread
    <2>3. state' = state
      BY <2>1, <2>2, Zenon DEF JoinInv, JoinTyped
    <2>4. \A s : M!InState(s)' = M!InState(s)
      BY <2>3, TableKept, Zenon
    <2>5. JoinTyped' /\ JoinLock' /\ StateInv'
      BY <2>1, <2>2, <2>3 DEF JoinInv, JoinTyped, JoinLock, StateInv, M!TPC, Inside, M!Thread
    <2>6. CreateInv'
      BY <2>1 DEF JoinInv, JoinTyped, CreateInv, M!Thread
    <2>7. CountInv' /\ LiveInv' /\ M!NoLostWakeup'
      BY <2>1, <2>2, <2>4, Zenon DEF JoinInv, JoinTyped, CountInv, LiveInv, M!NoLostWakeup, Marked
    <2> QED
      BY <2>5, <2>6, <2>7 DEF JoinInv
  <1>5. CASE M!MCount
    <2>1. \A s : M!InState(s)' = M!InState(s)
      BY <1>5, TableKept, Zenon DEF M!MCount
    <2>2. Cardinality(M!InState("JOINED")) = 0
      BY <1>5, FS_EmptySet, Zenon DEF M!MCount, M!MGoto, JoinInv, LiveInv
    <2>3. JoinTyped' /\ JoinLock' /\ StateInv' /\ M!NoLostWakeup'
      BY <1>5, Zenon DEF M!MCount, M!MGoto, JoinInv, JoinTyped, JoinLock, StateInv, M!NoLostWakeup, M!MPC
    <2>4. CreateInv'
      BY <1>5 DEF M!MCount, M!MGoto, JoinInv, JoinTyped, CreateInv, M!Thread
    <2>5. CountInv' /\ LiveInv'
      BY <1>5, <2>1, <2>2 DEF M!MCount, M!MGoto, JoinInv, CountInv, LiveInv, Marked
    <2> QED
      BY <2>3, <2>4, <2>5 DEF JoinInv
  <1>6. CASE M!MWhile \/ M!MLock \/ M!MTest \/ M!MSpurious \/ M!MRelock \/ M!MSkip \/ M!MUnlock
    <2>1. state' = state /\ UNCHANGED <<tpc, loc, numUnjoined, numLive, totThreads>>
      BY <1>6, Zenon DEF M!MWhile, M!MLock, M!MTest, M!MSpurious, M!MRelock, M!MSkip, M!MUnlock
    <2>2. \A s : M!InState(s)' = M!InState(s)
      BY <2>1, TableKept, Zenon
    <2>3. JoinTyped'
      BY <1>6 DEF M!MWhile, M!MLock, M!MTest, M!MSpurious, M!MRelock, M!MSkip, M!MUnlock, M!MGoto, JoinInv, JoinTyped, M!MPC,
                  M!Main, M!Free
    <2>4. JoinLock'
      <3>1. CASE M!MWhile \/ M!MTest \/ M!MSpurious \/ M!MSkip
        BY <3>1, SMTT(30) DEF M!MWhile, M!MTest, M!MSpurious, M!MSkip, M!MGoto, JoinInv, JoinTyped,
                    JoinLock, M!Thread, M!Main, M!Free, Inside
      <3>2. CASE M!MLock \/ M!MRelock \/ M!MUnlock
        BY <3>2, SMTT(30) DEF M!MLock, M!MRelock, M!MUnlock, M!MGoto, JoinInv, JoinTyped,
                    JoinLock, M!Thread, M!Main, M!Free, Inside
      <3> QED
        BY <1>6, <3>1, <3>2, Zenon
    <2>5. CreateInv'
      BY <1>6 DEF M!MWhile, M!MLock, M!MTest, M!MSpurious, M!MRelock, M!MSkip, M!MUnlock, M!MGoto, JoinInv, JoinTyped,
                  CreateInv
    <2>6. StateInv' /\ CountInv'
      BY <2>1, <2>2, Zenon DEF JoinInv, StateInv, CountInv, Marked
    <2>7. LiveInv'
      BY <1>6, <2>1, <2>2 DEF M!MWhile, M!MLock, M!MTest, M!MSpurious, M!MRelock, M!MSkip, M!MUnlock, M!MGoto, JoinInv,
                  JoinTyped, LiveInv
    <2>8. M!NoLostWakeup'
      BY <1>6, <2>1 DEF M!MWhile, M!MLock, M!MTest, M!MSpurious, M!MRelock, M!MSkip, M!MUnlock, M!MGoto, JoinInv,
                  M!NoLostWakeup
    <2> QED
      BY <2>3, <2>4, <2>5, <2>6, <2>7, <2>8 DEF JoinInv
  <1>7. CASE M!MJoin
    <2>1. /\ mpc = "scan" /\ idx \in M!Thread /\ state[idx] = "TERMINATED" /\ tpc[idx] = "ended"
          /\ state' = [state EXCEPT ![idx] = "JOINED"]
          /\ numLive' = numLive - 1 /\ numUnjoined' = numUnjoined - 1 /\ idx' = idx + 1
          /\ UNCHANGED <<mtx, tpc, loc, totThreads, mpc>>
      BY <1>7 DEF M!MJoin, JoinInv, CreateInv, M!Thread
    <2>2. M!InState("TERMINATED")' = M!InState("TERMINATED") \ {idx} /\ idx \in M!InState("TERMINATED")
      BY <2>1, Zenon DEF M!InState, JoinInv, JoinTyped
    <2>3. M!InState("JOINED")' = M!InState("JOINED") \cup {idx} /\ idx \notin M!InState("JOINED")
      BY <2>1, Zenon DEF M!InState, JoinInv, JoinTyped
    <2>4. /\ Cardinality(M!InState("TERMINATED")') = Cardinality(M!InState("TERMINATED")) - 1
          /\ Cardinality(M!InState("JOINED")') = Cardinality(M!InState("JOINED")) + 1
      <3>1. Cardinality(M!InState("TERMINATED")') = Cardinality(M!InState("TERMINATED")) - 1
        BY <1>1, <2>2, FS_RemoveElement
      <3>2. Cardinality(M!InState("JOINED")') = Cardinality(M!InState("JOINED")) + 1
        BY <1>1, <2>3, FS_AddElement
      <3> QED
        BY <3>1, <3>2, Zenon
    <2>5. \A t \in M!Thread : tpc[t] \notin Inside
      BY <2>1 DEF JoinInv, JoinLock, M!Thread, M!Main
    <2>6. JoinTyped' /\ JoinLock' /\ StateInv'
      BY <2>1 DEF JoinInv, JoinTyped, JoinLock, StateInv
    <2>7. CreateInv' /\ M!NoLostWakeup'
      BY <2>1 DEF JoinInv, CreateInv, M!NoLostWakeup, M!Thread
    <2>8. CountInv'
      BY <1>1, <2>1, <2>4, <2>5 DEF JoinInv, CountInv, Marked, Inside
    <2>9. LiveInv'
      BY <1>1, <2>1, <2>4 DEF JoinInv, LiveInv
    <2> QED
      BY <2>6, <2>7, <2>8, <2>9 DEF JoinInv
  <1>8. CASE UNCHANGED joinVars
    <2>1. \A s : M!InState(s)' = M!InState(s)
      BY <1>8, TableKept, Zenon DEF joinVars
    <2> QED
      BY <1>8, <2>1, Zenon DEF joinVars, JoinInv, JoinTyped, JoinLock, CreateInv, StateInv, CountInv, LiveInv,
                        M!NoLostWakeup, Marked
  <1> QED
    BY <1>2, <1>3, <1>4, <1>5, <1>6, <1>7, <1>8 DEF M!Next, M!MainStep

(* thread_multijoin's invariant: what it says of the free mutex and of the *)
(* exit of main().                                                         *)
LEMMA JoinExit == JoinInv => M!UnjoinedAgrees /\ M!ExitMeansAllJoined
  <1> SUFFICES ASSUME JoinInv PROVE M!UnjoinedAgrees /\ M!ExitMeansAllJoined BY Zenon
  <1>0. M!Cardinality(M!InState("TERMINATED")) = Cardinality(M!InState("TERMINATED"))
    BY Zenon DEF M!Cardinality, Cardinality
  <1>1. M!UnjoinedAgrees
    BY <1>0, NumThreadsAssumption
       DEF JoinInv, JoinLock, CountInv, M!UnjoinedAgrees, Marked, Inside, M!Thread, M!Free, M!Main
  <1>2. ASSUME mpc = "exit"
        PROVE  \A t \in M!Thread : tpc[t] = "ended" /\ state[t] = "JOINED"
    <2>1. IsFiniteSet(M!Thread) /\ Cardinality(M!Thread) = NumThreads
      BY NumThreadsAssumption, FS_Interval DEF M!Thread
    <2>2. M!InState("JOINED") \in SUBSET M!Thread
      BY Zenon DEF M!InState
    <2>3. Cardinality(M!InState("JOINED")) \in Nat /\ Cardinality(M!InState("JOINED")) <= NumThreads
      BY <2>1, <2>2, InStateFinite, FS_Subset
    <2>4. Cardinality(M!InState("JOINED")) = NumThreads
      BY <1>2, <2>3, NumThreadsAssumption DEF JoinInv, LiveInv
    <2>5. M!InState("JOINED") = M!Thread
      BY <2>1, <2>2, <2>4, FS_Subset
    <2> QED
      BY <2>5, Zenon DEF JoinInv, StateInv, M!InState
  <1> QED
    BY <1>1, <1>2 DEF M!ExitMeansAllJoined

-----------------------------------------------------------------------------
(* ptmr_sigev_thread. *)

VARIABLES expireCnt, printed, unheard

E == INSTANCE TimerThread

TimerTyped ==
    /\ mtx \in 0 .. NumThreads + 1 /\ unheard \in BOOLEAN
    /\ tpc \in [E!Notification -> {"none", "lock", "count", "unlock", "signal", "ended"}]
    /\ mpc \in {"start", "first", "wait", "waiting", "woken"}

TimerLock ==
    /\ \A t \in E!Notification : tpc[t] \in {"count", "unlock"} <=> mtx = t
    /\ mpc \in {"first", "wait"} <=> mtx = E!MainId

(* A count that main() has not printed was signalled too early, or there   *)
(* is a thread that will signal it.                                        *)
TimerShown ==
    /\ mpc = "wait" => printed = expireCnt
    /\ mpc # "woken" /\ printed # expireCnt =>
         unheard \/ \E t \in E!Notification : tpc[t] \in {"unlock", "signal"}

TimerInv == TimerTyped /\ TimerLock /\ TimerShown

(* The timers are set and none has expired. *)
LEMMA TimerInit == E!Init => TimerInv
  <1> SUFFICES ASSUME E!Init PROVE TimerInv BY Zenon
  <1> USE NumThreadsAssumption
  <1>1. mtx \in 0 .. NumThreads + 1 /\ mpc = "start"
    BY DEF E!Init, E!Free
  <1>2. unheard \in BOOLEAN
    BY Zenon DEF E!Init
  <1>3. tpc \in [E!Notification -> {"none", "lock", "count", "unlock", "signal", "ended"}]
    BY Zenon DEF E!Init
  <1>4. TimerLock
    BY DEF E!Init, TimerLock, E!Notification, E!MainId, E!Free
  <1>5. TimerShown
    BY Zenon DEF E!Init, TimerShown
  <1> QED
    BY <1>1, <1>2, <1>3, <1>4, <1>5 DEF TimerInv, TimerTyped

(* Every step of main(), of a timer and of a notification keeps TimerInv.  *)
(* A signal that finds main() neither at the start nor waiting finds it    *)
(* inside the mutex with the count printed, or on its way to print it.     *)
LEMMA TimerNext == TimerInv /\ [E!Next]_(E!timerVars) => TimerInv'
  <1> SUFFICES ASSUME TimerInv, [E!Next]_(E!timerVars) PROVE TimerInv' BY Zenon
  <1> USE NumThreadsAssumption DEF TimerInv
  <1>1. ASSUME NEW t \in E!Notification, E!Expire(t)
        PROVE  TimerInv'
    BY <1>1, Zenon DEF E!Expire, TimerTyped, TimerLock, TimerShown
  <1>2. ASSUME NEW t \in E!Notification, E!TLock(t)
        PROVE  TimerInv'
    BY <1>2 DEF E!TLock, TimerTyped, TimerLock, TimerShown, E!Notification, E!MainId, E!Free
  <1>3. ASSUME NEW t \in E!Notification, E!TCount(t)
        PROVE  TimerInv'
    <2>1. mtx = t /\ mpc # "wait"
      BY <1>3 DEF E!TCount, TimerLock, E!Notification, E!MainId
    <2>2. TimerTyped' /\ TimerLock'
      BY <1>3, Zenon DEF E!TCount, TimerTyped, TimerLock
    <2>3. TimerShown'
      BY <1>3, <2>1 DEF E!TCount, TimerTyped, TimerShown
    <2> QED
      BY <2>2, <2>3, Zenon
  <1>4. ASSUME NEW t \in E!Notification, E!TUnlock(t)
        PROVE  TimerInv'
    <2>1. TimerTyped' /\ TimerLock'
      BY <1>4 DEF E!TUnlock, TimerTyped, TimerLock, E!Notification, E!MainId, E!Free
    <2>2. TimerShown'
      BY <1>4, Zenon DEF E!TUnlock, TimerTyped, TimerShown
    <2> QED
      BY <2>1, <2>2, Zenon
  <1>5. ASSUME NEW t \in E!Notification, E!TSignal(t)
        PROVE  TimerInv'
    <2>1. TimerTyped' /\ TimerLock'
      BY <1>5, Zenon DEF E!TSignal, TimerTyped, TimerLock
    <2>2. TimerShown'
      BY <1>5, Zenon DEF E!TSignal, TimerTyped, TimerShown
    <2> QED
      BY <2>1, <2>2, Zenon
  <1>6. CASE E!MLock \/ E!MWait \/ E!MSpurious \/ E!MPrint
    <2>1. TimerTyped' /\ TimerLock'
      BY <1>6 DEF E!MLock, E!MWait, E!MSpurious, E!MPrint, TimerTyped, TimerLock, E!Notification,
                  E!MainId, E!Free
    <2>2. TimerShown'
      BY <1>6, Zenon DEF E!MLock, E!MWait, E!MSpurious, E!MPrint, TimerShown
    <2> QED
      BY <2>1, <2>2
  <1>7. CASE UNCHANGED E!timerVars
    BY <1>7, Zenon DEF E!timerVars, TimerTyped, TimerLock, TimerShown
  <1> QED
    BY <1>1, <1>2, <1>3, <1>4, <1>5, <1>6, <1>7 DEF E!Next, E!MainStep, E!Environment, E!ThreadStep

-----------------------------------------------------------------------------
(* The system: prod_condvar (or prod_no_condvar), thread_multijoin,        *)
(* ptmr_sigev_thread or one of ThreadPrograms is run; the variables of the *)
(* programs that are not run stay at a fixed value.                        *)

prodOnly == <<avail, ppc, made, created, totRequired, numConsumed, done>>
joinOnly == <<state, numUnjoined, numLive, totThreads>>
restOnly == <<j, glob, waiting, cancelled, calls>>
timerOnly == <<expireCnt, printed, unheard>>
vars == <<program, mtx, loc, mpc, idx, tpc, prodOnly, joinOnly, restOnly, timerOnly>>

IsProd == program \in Programs
IsJoin == program = "multijoin"
IsRest == program \in T!ThreadProgram
IsTimer == program = "ptmr_sigev_thread"

NoProd == /\ avail = 0 /\ ppc = 0 /\ made = 0 /\ created = 0
          /\ totRequired = 0 /\ numConsumed = 0 /\ done = FALSE
NoJoin == state = 0 /\ numUnjoined = 0 /\ numLive = 0 /\ totThreads = 0
NoRest == j = 0 /\ glob = 0 /\ waiting = {} /\ cancelled = FALSE /\ calls = 0
NoTimer == expireCnt = 0 /\ printed = 0 /\ unheard = FALSE

Init ==
    \/ P!Init /\ tpc = 0 /\ idx = 0 /\ NoJoin /\ NoRest /\ NoTimer
    \/ program = "multijoin" /\ M!Init /\ NoProd /\ NoRest /\ NoTimer
    \/ T!Init /\ NoProd /\ NoJoin /\ NoTimer
    \/ program = "ptmr_sigev_thread" /\ E!Init /\ loc = 0 /\ idx = 0 /\ NoProd /\ NoJoin /\ NoRest

(* The others' variables do not change. *)
ProdFrame == IsProd /\ UNCHANGED <<idx, tpc, joinOnly, restOnly, timerOnly>>
JoinFrame == IsJoin /\ UNCHANGED <<program, prodOnly, restOnly, timerOnly>>
RestFrame == IsRest /\ UNCHANGED <<prodOnly, joinOnly, timerOnly>>
TimerFrame == IsTimer /\ UNCHANGED <<program, loc, idx, prodOnly, joinOnly, restOnly>>

MainStep ==
    \/ ProdFrame /\ P!MainStep
    \/ JoinFrame /\ M!MainStep
    \/ RestFrame /\ T!MainStep
    \/ TimerFrame /\ E!MainStep

SpuriousWakeup ==
    \/ ProdFrame /\ P!MSpurious
    \/ JoinFrame /\ M!MSpurious
    \/ RestFrame /\ T!Spurious
    \/ TimerFrame /\ E!MSpurious

Expire == TimerFrame /\ \E t \in E!Notification : E!Expire(t)

(* The producers are counted from 1, the other threads from 0. *)
ThreadStep(t) ==
    \/ ProdFrame /\ t + 1 \in P!Producer /\ P!ProducerStep(t + 1)
    \/ JoinFrame /\ t \in M!Thread /\ M!ThreadStep(t)
    \/ RestFrame /\ t \in T!Thr /\ T!ThreadStep(t)
    \/ TimerFrame /\ t \in E!Notification /\ E!ThreadStep(t)

Slot == {0, 1} \cup {p - 1 : p \in P!Producer} \cup M!Thread \cup 0 .. BarrierSize - 1

Next == MainStep \/ SpuriousWakeup \/ Expire \/ \E t \in Slot : ThreadStep(t)

(* Threads run when they can; one that waits for a lock gets it in the     *)
(* end, although others take it meanwhile.  Spurious wakeups are not owed, *)
(* nor is a timer that expires.                                            *)
Spec == Init /\ [][Next]_vars /\ SF_vars(MainStep) /\ \A t \in Slot : SF_vars(ThreadStep(t))

-----------------------------------------------------------------------------
(* No unit that producers and consumer of prod_condvar add to and take     *)
(* from avail is lost or counted twice.                                    *)
UnitsConserved == IsProd => P!UnitsConserved

(* Whenever thread_multijoin's mutex is free, numUnjoined is the number of *)
(* threads marked TS_TERMINATED in the table.                              *)
UnjoinedAgrees == IsJoin => M!UnjoinedAgrees

(* Nobody is past a barrier, or has returned from one_time_init(), before  *)
(* every thread has come there, or init_func() has been called.            *)
InStep == IsRest => T!InStep

(* A program exits only with its work done: all units consumed, all        *)
(* threads joined, no increment lost under a lock, init_func() called      *)
(* once, the cancelled thread's mutex released.                            *)
ExitMeansDone ==
    /\ IsProd => P!ExitMeansAllConsumed
    /\ IsJoin => M!ExitMeansAllJoined
    /\ IsRest => T!ExitIsRight

(* main() never sleeps on its condition variable when there is something   *)
(* for it to do and no thread is about to signal it.                       *)
NoLostWakeup ==
    /\ IsProd => P!NoLostWakeup
    /\ IsJoin => M!NoLostWakeup
    /\ IsTimer => E!CountIsShown

(* Every program exits in the end; thread_cleanup's, unless its signal,    *)
(* sent without the mutex, was missed.  ptmr_sigev_thread, which does not, *)
(* prints each count, unless it came before main() waited.                 *)
Finishes ==
    /\ <>(mpc = "exit" \/ IsTimer \/ (IsRest /\ T!SignalMissed))
    /\ \A k \in 1 .. 2 * NumThreads : expireCnt >= k ~> (printed >= k \/ unheard)

-----------------------------------------------------------------------------
(* The invariant of the suite. *)
ThreadInv ==
    /\ IsProd => ProdInv
    /\ IsJoin => JoinInv
    /\ IsRest => RestInv
    /\ IsTimer => TimerInv

(* No two programs are the same one. *)
LEMMA OneProgram ==
  /\ IsProd => ~ IsJoin /\ ~ IsRest /\ ~ IsTimer
  /\ IsJoin => ~ IsRest /\ ~ IsTimer
  /\ IsRest => ~ IsTimer
  BY ProgramAssumption, Zenon DEF IsProd, IsJoin, IsRest, IsTimer, T!ThreadProgram, T!Locked, T!Cancelling

(* A step of the suite is one of the program that runs. *)
LEMMA SuiteIsProd == ASSUME IsProd, [Next]_vars PROVE [P!Next]_prodVars
  BY OneProgram, Zenon DEF Next, vars, MainStep, SpuriousWakeup, Expire, ThreadStep, ProdFrame, JoinFrame,
                    RestFrame, TimerFrame, P!Next, prodVars, prodOnly

LEMMA SuiteIsJoin == ASSUME IsJoin, [Next]_vars PROVE [M!Next]_joinVars /\ program' = program
  BY OneProgram, Zenon DEF Next, vars, MainStep, SpuriousWakeup, Expire, ThreadStep, ProdFrame, JoinFrame,
                    RestFrame, TimerFrame, M!Next, joinVars, joinOnly

LEMMA SuiteIsRest == ASSUME IsRest, [Next]_vars PROVE [T!Next]_(T!tvars)
  BY OneProgram, Zenon DEF Next, vars, MainStep, SpuriousWakeup, Expire, ThreadStep, ProdFrame, JoinFrame,
                    RestFrame, TimerFrame, T!Next, T!tvars, restOnly

LEMMA SuiteIsTimer == ASSUME IsTimer, [Next]_vars PROVE [E!Next]_(E!timerVars) /\ program' = program
  BY OneProgram, Zenon DEF Next, vars, MainStep, SpuriousWakeup, Expire, ThreadStep, ProdFrame, JoinFrame,
                    RestFrame, TimerFrame, E!Next, E!Environment, E!timerVars, timerOnly

(* prod_condvar does not turn into another program. *)
LEMMA ProdSame == ASSUME [P!Next]_prodVars PROVE program' = program
  BY Zenon DEF prodVars, P!Next, P!MainStep, P!MSpurious, P!ProducerStep, P!MCreate, P!MCreated, P!MLock,
         P!MTest, P!MRelock, P!MConsume, P!MUnlock, P!PLoop, P!PLock, P!PLoad, P!PStore, P!PUnlock, P!PSignal

LEMMA SuiteInit == Init => ThreadInv
  <1> SUFFICES ASSUME Init PROVE ThreadInv BY Zenon
  <1>1. CASE P!Init
    BY <1>1, ProdInit, OneProgram, Zenon DEF P!Init, IsProd, ThreadInv
  <1>2. CASE program = "multijoin" /\ M!Init
    BY <1>2, JoinInit, OneProgram, Zenon DEF IsJoin, ThreadInv
  <1>3. CASE T!Init
    BY <1>3, RestInit, OneProgram, Zenon DEF T!Init, IsRest, ThreadInv
  <1>4. CASE program = "ptmr_sigev_thread" /\ E!Init
    BY <1>4, TimerInit, OneProgram, Zenon DEF IsTimer, ThreadInv
  <1> QED
    BY <1>1, <1>2, <1>3, <1>4, Zenon DEF Init

LEMMA SuiteNext == ThreadInv /\ [Next]_vars => ThreadInv'
  <1> SUFFICES ASSUME ThreadInv, [Next]_vars PROVE ThreadInv' BY Zenon
  <1>0. IsProd \/ IsJoin \/ IsRest \/ IsTimer \/ UNCHANGED vars
    BY Zenon DEF Next, MainStep, SpuriousWakeup, Expire, ThreadStep, ProdFrame, JoinFrame, RestFrame, TimerFrame
  <1>1. CASE IsProd
    <2>1. ProdInv' /\ program' = program
      BY <1>1, SuiteIsProd, ProdSame, ProdNext, Zenon DEF ThreadInv
    <2> QED
      BY <1>1, <2>1, OneProgram, Zenon DEF ThreadInv, IsProd, IsJoin, IsRest, IsTimer, T!ThreadProgram,
                                    T!Locked, T!Cancelling
  <1>2. CASE IsJoin
    <2>1. JoinInv' /\ program' = program
      BY <1>2, SuiteIsJoin, JoinNext, Zenon DEF ThreadInv
    <2> QED
      BY <1>2, <2>1, OneProgram, Zenon DEF ThreadInv, IsProd, IsJoin, IsRest, IsTimer, T!ThreadProgram,
                                    T!Locked, T!Cancelling
  <1>3. CASE IsRest
    <2>1. RestInv' /\ program' = program
      BY <1>3, SuiteIsRest, RestSame, RestNext, Zenon DEF ThreadInv
    <2> QED
      BY <1>3, <2>1, OneProgram, Zenon DEF ThreadInv, IsProd, IsJoin, IsRest, IsTimer, T!ThreadProgram,
                                    T!Locked, T!Cancelling
  <1>4. CASE IsTimer
    <2>1. TimerInv' /\ program' = program
      BY <1>4, SuiteIsTimer, TimerNext, Zenon DEF ThreadInv
    <2> QED
      BY <1>4, <2>1, OneProgram, Zenon DEF ThreadInv, IsProd, IsJoin, IsRest, IsTimer, T!ThreadProgram,
                                    T!Locked, T!Cancelling
  <1>5. CASE ~ IsProd /\ ~ IsJoin /\ ~ IsRest /\ ~ IsTimer
    <2>1. program' = program
      BY <1>0, <1>5, Zenon DEF vars
    <2> QED
      BY <1>5, <2>1, Zenon DEF ThreadInv, IsProd, IsJoin, IsRest, IsTimer, T!ThreadProgram, T!Locked,
                        T!Cancelling
  <1> QED
    BY <1>1, <1>2, <1>3, <1>4, <1>5, Zenon

LEMMA SuiteInv == Spec => []ThreadInv
  BY SuiteInit, SuiteNext, PTL DEF Spec

-----------------------------------------------------------------------------
(* prod_condvar: whatever the producers are and however their steps mix    *)
(* with the consumer's, avail and numConsumed together are the units made. *)
THEOREM NoUnitLost == Spec => []UnitsConserved
  <1>1. ThreadInv => UnitsConserved
    BY ProdExit, Zenon DEF ThreadInv, UnitsConserved
  <1> QED
    BY <1>1, SuiteInv, PTL

(* thread_multijoin: whenever its mutex is free, numUnjoined is the number *)
(* of threads marked TS_TERMINATED, for every number of threads.           *)
THEOREM UnjoinedCounted == Spec => []UnjoinedAgrees
  <1>1. ThreadInv => UnjoinedAgrees
    BY JoinExit, Zenon DEF ThreadInv, UnjoinedAgrees
  <1> QED
    BY <1>1, SuiteInv, PTL

(* No thread is past a barrier before each has come to it, for every       *)
(* number of threads and of barriers; none has returned from               *)
(* one_time_init() before init_func() was called.                          *)
THEOREM ThreadsInStep == Spec => []InStep
  <1>1. ThreadInv => InStep
    BY RestExit, Zenon DEF ThreadInv, InStep
  <1> QED
    BY <1>1, SuiteInv, PTL

(* A program exits with its work done: all units consumed, all threads     *)
(* joined, 2 * Loops increments under a lock and at least 2 without,       *)
(* init_func() called once, one serial thread for each barrier, the        *)
(* mutex of a cancelled thread released.                                   *)
THEOREM ExitIsDone == Spec => []ExitMeansDone
  <1>1. ThreadInv => ExitMeansDone
    BY ProdExit, JoinExit, RestExit, Zenon DEF ThreadInv, ExitMeansDone
  <1> QED
    BY <1>1, SuiteInv, PTL

(* main() never sleeps on its condition variable when there is something   *)
(* for it to do and no thread is about to signal it, in prod_condvar, in   *)
(* thread_multijoin and, once it waits, in ptmr_sigev_thread.              *)
THEOREM WakeupNotLost == Spec => []NoLostWakeup
  <1>1. ThreadInv => NoLostWakeup
    <2>1. TimerInv => E!CountIsShown
      BY Zenon DEF TimerInv, TimerShown, E!CountIsShown
    <2>2. (ProdInv => P!NoLostWakeup) /\ (JoinInv => M!NoLostWakeup)
      BY Zenon DEF ProdInv, JoinInv
    <2> QED
      BY <2>1, <2>2, Zenon DEF ThreadInv, NoLostWakeup
  <1> QED
    BY <1>1, SuiteInv, PTL
=============================================================================
