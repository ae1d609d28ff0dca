------------------------------- MODULE ShmXfr -------------------------------
(***************************************************************************)
(* svshm_xfr_writer and svshm_xfr_reader: two processes that move standard *)
(* input to standard output through a System V shared memory segment. Two  *)
(* binary semaphores (binary_sems.c) hand the segment back and forth:      *)
(* WRITE_SEM is the writer's turn, READ_SEM the reader's.                  *)
(*                                                                         *)
(* The segment is the record shmseg of svshm_xfr.h, a count and a buffer.  *)
(* read() fills the buffer before its result is stored in the count, so    *)
(* the two are separate steps.  A byte of the input is a value of Byte.    *)
(*                                                                         *)
(* The model covers the error paths that can be taken: a failing read() or *)
(* write(), and a reader started before the objects exist.  A semop() that *)
(* a signal handler interrupts is retried by reserveSem() (bsRetryOnEintr  *)
(* is TRUE here), which is a stuttering step.  No step stands for a semop()*)
(* on a removed set: SetOutlivesUse shows that no process comes to one.    *)
(***************************************************************************)
EXTENDS Integers, Sequences

CONSTANTS
    Byte,        \* the values a byte of the input may take
    NUL,         \* the byte a new segment is filled with
    Input,       \* what standard input delivers before end of file
    BUF_SIZE     \* size of the buffer in the segment

ASSUME InputAssumption == NUL \in Byte /\ Input \in Seq(Byte)
ASSUME BufAssumption == BUF_SIZE \in Nat \ {0}

WRITE_SEM == 0
READ_SEM == 1

VARIABLES
    semSet,   \* the semaphore set SEM_KEY exists
    sem,      \* its two values
    shmSet,   \* the segment SHM_KEY exists
    cnt,      \* shmp->cnt
    buf,      \* shmp->buf
    pos,      \* bytes the writer has taken from standard input
    got,      \* result of the writer's last read()
    wpc,      \* where the writer is
    wBytes,   \* its local variable bytes
    rpc,      \* where the reader is
    rBytes,   \* its local variable bytes
    out,      \* what the reader has written to standard output
    lateReader  \* the reader is started after the writer's set-up

ipc == <<semSet, sem, shmSet>>
seg == <<cnt, buf>>
writer == <<pos, got, wpc, wBytes>>
reader == <<rpc, rBytes, out, lateReader>>
vars == <<semSet, sem, shmSet, cnt, buf, pos, got, wpc, wBytes, rpc, rBytes, out,
          lateReader>>

Done == "done"
Failed == "failed"

WriterPC == {"semget", "initWrite", "initRead", "shmget", "reserve", "read", "setCnt",
             "release", "test", "count", "lastReserve", "rmSem", "rmShm", Done, Failed}
ReaderPC == {"semget", "shmget", "shmat", "reserve", "test", "write", "release",
             "lastRelease", Done, Failed}

-----------------------------------------------------------------------------
(* binary_sems.c. *)

(* semctl(SETVAL). *)
SetVal(s, v) == semSet /\ sem' = [sem EXCEPT ![s] = v]

initSemAvailable(s) == SetVal(s, 1)

(* Mutant: an existing set is taken as initialised. *)
initSemInUseSkipped(s) == semSet /\ UNCHANGED sem

initSemInUse(s) == SetVal(s, 0)

(* Mutant: waits for a positive value but does not take it. *)
reserveSemKeeps(s) == semSet /\ sem[s] > 0 /\ UNCHANGED sem

(* semop() with -1 blocks until the value is positive. *)
reserveSem(s) == semSet /\ sem[s] > 0 /\ sem' = [sem EXCEPT ![s] = @ - 1]

releaseSem(s) == semSet /\ sem' = [sem EXCEPT ![s] = @ + 1]

-----------------------------------------------------------------------------
(* The writer. *)

WGoto(from, to) == wpc = from /\ wpc' = to

(* semget(IPC_CREAT): a new set has the values 0, an old one its own. *)
WSemget ==
    /\ WGoto("semget", "initWrite")
    /\ semSet' = TRUE
    /\ sem' = IF semSet THEN sem ELSE [s \in {WRITE_SEM, READ_SEM} |-> 0]
    /\ UNCHANGED <<shmSet, seg, pos, got, wBytes, reader>>

WInitWrite ==
    /\ WGoto("initWrite", "initRead")
    /\ initSemAvailable(WRITE_SEM)
    /\ UNCHANGED <<semSet, shmSet, seg, pos, got, wBytes, reader>>

WInitRead ==
    /\ WGoto("initRead", "shmget")
    /\ initSemInUse(READ_SEM)
    /\ UNCHANGED <<semSet, shmSet, seg, pos, got, wBytes, reader>>

(* shmget(IPC_CREAT) and shmat(): a new segment is filled with zeros, an   *)
(* old one keeps its contents.                                             *)
WShmget ==
    /\ WGoto("shmget", "reserve")
    /\ shmSet' = TRUE
    /\ cnt' = IF shmSet THEN cnt ELSE 0
    /\ buf' = IF shmSet THEN buf ELSE [i \in 1 .. BUF_SIZE |-> NUL]
    /\ UNCHANGED <<semSet, sem, pos, got, wBytes, reader>>

WReserve ==
    /\ WGoto("reserve", "read")
    /\ reserveSem(WRITE_SEM)
    /\ UNCHANGED <<semSet, shmSet, seg, pos, got, wBytes, reader>>

(* read() stores up to BUF_SIZE bytes in the buffer; it may return fewer   *)
(* than that and less than what is left, and it returns 0 only at the end. *)
WRead ==
    /\ WGoto("read", "setCnt")
    /\ \E n \in 0 .. BUF_SIZE :
         /\ pos + n <= Len(Input)
         /\ n = 0 => pos = Len(Input)
         /\ got' = n
         /\ buf' = [i \in 1 .. BUF_SIZE |-> IF i <= n THEN Input[pos + i] ELSE buf[i]]
         /\ pos' = pos + n
    /\ UNCHANGED <<ipc, cnt, wBytes, reader>>

(* read() fails: -1 goes to shmp->cnt and the writer exits, leaving the    *)
(* objects behind with WRITE_SEM taken.                                    *)
WReadFails ==
    /\ WGoto("read", Failed)
    /\ cnt' = -1
    /\ UNCHANGED <<ipc, buf, pos, got, wBytes, reader>>

(* Mutant: announces a full buffer after a short read. *)
WSetCntFull ==
    /\ WGoto("setCnt", "release")
    /\ cnt' = BUF_SIZE
    /\ UNCHANGED <<ipc, buf, pos, got, wBytes, reader>>

WSetCnt ==
    /\ WGoto("setCnt", "release")
    /\ cnt' = got
    /\ UNCHANGED <<ipc, buf, pos, got, wBytes, reader>>

WRelease ==
    /\ WGoto("release", "test")
    /\ releaseSem(READ_SEM)
    /\ UNCHANGED <<semSet, shmSet, seg, pos, got, wBytes, reader>>

(* Mutant: takes a short block for the end of file. *)
WTestShort ==
    /\ wpc = "test"
    /\ wpc' = IF cnt < BUF_SIZE THEN "lastReserve" ELSE "count"
    /\ UNCHANGED <<ipc, seg, pos, got, wBytes, reader>>

(* The end-of-file test reads shmp->cnt when it is the reader's turn. *)
WTest ==
    /\ wpc = "test"
    /\ wpc' = IF cnt = 0 THEN "lastReserve" ELSE "count"
    /\ UNCHANGED <<ipc, seg, pos, got, wBytes, reader>>

(* bytes += shmp->cnt in the head of the loop, again outside its turn. *)
WCount ==
    /\ WGoto("count", "reserve")
    /\ wBytes' = wBytes + cnt
    /\ UNCHANGED <<ipc, seg, pos, got, reader>>

(* Mutant: removes the objects without waiting for the reader. *)
WLastReserveSkipped ==
    /\ WGoto("lastReserve", "rmSem")
    /\ UNCHANGED <<ipc, seg, pos, got, wBytes, reader>>

WLastReserve ==
    /\ WGoto("lastReserve", "rmSem")
    /\ reserveSem(WRITE_SEM)
    /\ UNCHANGED <<semSet, shmSet, seg, pos, got, wBytes, reader>>

WRmSem ==
    /\ WGoto("rmSem", "rmShm")
    /\ semSet' = FALSE
    /\ UNCHANGED <<sem, shmSet, seg, pos, got, wBytes, reader>>

WRmShm ==
    /\ WGoto("rmShm", Done)
    /\ shmSet' = FALSE
    /\ UNCHANGED <<semSet, sem, seg, pos, got, wBytes, reader>>

-----------------------------------------------------------------------------
(* The reader. *)

RGoto(from, to) == rpc = from /\ rpc' = to

WriterSettingUp == wpc \in {"semget", "initWrite", "initRead", "shmget"}

(* semget() without IPC_CREAT; the first step of a started reader. *)
RSemget ==
    /\ lateReader => ~WriterSettingUp
    /\ semSet
    /\ RGoto("semget", "shmget")
    /\ UNCHANGED <<ipc, seg, writer, lateReader, rBytes, out>>

(* shmget() without IPC_CREAT, and shmat(). *)
RShmget ==
    /\ shmSet
    /\ RGoto("shmget", "reserve")
    /\ UNCHANGED <<ipc, seg, writer, lateReader, rBytes, out>>

(* The object is not there: errExit(). *)
RGetFails ==
    /\ lateReader => ~WriterSettingUp
    /\ rpc \in {"semget", "shmget"}
    /\ ~(IF rpc = "semget" THEN semSet ELSE shmSet)
    /\ rpc' = Failed
    /\ UNCHANGED <<ipc, seg, writer, lateReader, rBytes, out>>

RReserve ==
    /\ RGoto("reserve", "test")
    /\ reserveSem(READ_SEM)
    /\ UNCHANGED <<semSet, shmSet, seg, writer, lateReader, rBytes, out>>

(* A count of 0 is end of file: shmdt(); any other is added to bytes. *)
RTest ==
    /\ rpc = "test"
    /\ rpc' = IF cnt = 0 THEN "lastRelease" ELSE "write"
    /\ rBytes' = rBytes + cnt
    /\ UNCHANGED <<ipc, seg, writer, lateReader, out>>

RWrite ==
    /\ RGoto("write", "release")
    /\ out' = out \o SubSeq(buf, 1, cnt)
    /\ UNCHANGED <<ipc, seg, writer, lateReader, rBytes>>

(* write() fails, or takes only some of the bytes: fatal(). *)
RWriteFails ==
    /\ RGoto("write", Failed)
    /\ \E n \in 0 .. BUF_SIZE : n < cnt /\ out' = out \o SubSeq(buf, 1, n)
    /\ UNCHANGED <<ipc, seg, writer, lateReader, rBytes>>

RRelease ==
    /\ RGoto("release", "reserve")
    /\ releaseSem(WRITE_SEM)
    /\ UNCHANGED <<semSet, shmSet, seg, writer, lateReader, rBytes, out>>

(* Mutant: the reader exits without giving the writer its last turn. *)
RLastReleaseSkipped ==
    /\ RGoto("lastRelease", Done)
    /\ UNCHANGED <<ipc, seg, writer, lateReader, rBytes, out>>

RLastRelease ==
    /\ RGoto("lastRelease", Done)
    /\ releaseSem(WRITE_SEM)
    /\ UNCHANGED <<semSet, shmSet, seg, writer, lateReader, rBytes, out>>

-----------------------------------------------------------------------------
(* Each object may be there already, with whatever a pair that died left   *)
(* in it.  A reader uses what it finds as it is, so after such a crash the *)
(* operator has to start the writer first; on a clean system the two are   *)
(* started in any order.                                                   *)
Init ==
    /\ lateReader \in BOOLEAN
    /\ semSet \in BOOLEAN /\ (semSet => lateReader)
    /\ shmSet \in BOOLEAN /\ (shmSet => lateReader)
    /\ sem \in [{WRITE_SEM, READ_SEM} -> IF semSet THEN {0, 1} ELSE {0}]
    /\ cnt \in IF shmSet THEN -1 .. BUF_SIZE ELSE {0}
    /\ buf \in [1 .. BUF_SIZE -> IF shmSet THEN Byte ELSE {NUL}]
    /\ pos = 0 /\ got = 0 /\ wpc = "semget" /\ wBytes = 0
    /\ rpc = "semget" /\ rBytes = 0 /\ out = <<>>

WriterNext ==
    \/ WSemget \/ WInitWrite \/ WInitRead \/ WShmget
    \/ WReserve \/ WRead \/ WReadFails \/ WSetCnt \/ WRelease \/ WTest \/ WCount
    \/ WLastReserve \/ WRmSem \/ WRmShm

ReaderNext ==
    \/ RSemget \/ RShmget \/ RGetFails
    \/ RReserve \/ RTest \/ RWrite \/ RWriteFails \/ RRelease \/ RLastRelease

Next == WriterNext \/ ReaderNext

(* Each process goes on whenever its next call can return.                 *)
Fairness == WF_vars(WriterNext) /\ WF_vars(ReaderNext)

Spec == Init /\ [][Next]_vars /\ Fairness

-----------------------------------------------------------------------------
TypeOK ==
    /\ semSet \in BOOLEAN
    /\ sem \in [{WRITE_SEM, READ_SEM} -> {0, 1}]
    /\ shmSet \in BOOLEAN
    /\ cnt \in -1 .. BUF_SIZE
    /\ buf \in [1 .. BUF_SIZE -> Byte]
    /\ pos \in 0 .. Len(Input)
    /\ got \in 0 .. BUF_SIZE
    /\ wpc \in WriterPC
    /\ wBytes \in Nat
    /\ rpc \in ReaderPC
    /\ rBytes \in Nat
    /\ out \in Seq(Byte)
    /\ lateReader \in BOOLEAN

(* The writer changes the segment only while no reader looks at it.  Each  *)
(* process has its turn between reserveSem() and releaseSem().             *)
WriterTurn == wpc \in {"read", "setCnt", "release"}
ReaderTurn == rpc \in {"test", "write", "release", "lastRelease"}
OneTurn == ~(WriterTurn /\ ReaderTurn)

(* The reader's output is a prefix of the writer's input at every moment:  *)
(* no block is lost, repeated, torn or taken from a stale buffer.          *)
OutputIsPrefix == Len(out) <= Len(Input) /\ out = SubSeq(Input, 1, Len(out))

(* "Wait until reader has let us have one more turn. We then know reader   *)
(* has finished": no process can come to a semop() on a set that is gone.  *)
SetOutlivesUse ==
    /\ rpc \in {"shmget", "reserve", "test", "write", "release", "lastRelease"} => semSet
    /\ wpc \in {"initWrite", "initRead", "reserve", "release", "lastReserve"} => semSet

(* Once both programs report success everything was transferred, both      *)
(* report the same number of bytes, and neither IPC object is left.        *)
SuccessIsComplete ==
    (wpc = Done) => /\ rpc = Done
                    /\ out = Input
                    /\ wBytes = Len(Input) /\ rBytes = Len(Input)
                    /\ ~semSet /\ ~shmSet

(* The two programs finish unless a call of one of them failed.            *)
Completion == <>(\/ wpc = Done /\ rpc = Done
                 \/ wpc = Failed
                 \/ rpc = Failed)

(* The writer, which ends last, reports success; a failure of either       *)
(* process is the failure of the transfer.                                 *)
Outcome == IF wpc = Failed \/ rpc = Failed THEN "failed"
           ELSE IF wpc = Done THEN "complete" ELSE "running"

T == INSTANCE Transfer WITH delivered <- out, outcome <- Outcome

(* Writer, reader, semaphores and segment together are a transfer: what    *)
(* the reader writes only grows, along the input; the writer's success     *)
(* comes after all of it, and nothing is written after a failure.          *)
ImplementsTransfer == T!Safety

=============================================================================
