----------------------------- MODULE IpcProofs -----------------------------
(***************************************************************************)
(* Proofs about the programs of MCIpc, for any input, buffer size,         *)
(* processes, operations, clients, lengths, kills and restarts.            *)
(*                                                                         *)
(* svshm_xfr.  The inductive invariant IInv says where the single token is *)
(* (in one of the two semaphores or with a process that has its turn) and  *)
(* what is in the segment while a block is on its way.                     *)
(*                                                                         *)
(* svsem_init.  That the semaphore is 0 at the creator's no-op is kept by  *)
(* nothing the creator does: it holds because nobody comes to an operation *)
(* before sem_otime is set, and sem_otime is set only after the creator    *)
(* has passed.  For the same reason SETVAL finds nothing to wipe out, and  *)
(* the value remains the sum of the operations that were done.             *)
(*                                                                         *)
(* fifo_seqnum.  RangesDisjoint needs only that no range is of a later     *)
(* server.  For FifoBeforeRequest one has to know that a client has at     *)
(* most one request under way: only then can no request outlive the        *)
(* success of its client.                                                  *)
(***************************************************************************)
EXTENDS MCIpc, Sums

-----------------------------------------------------------------------------
(* svshm_xfr_writer and svshm_xfr_reader. *)

WriterHolds == wpc \in {"read", "setCnt", "release", "rmSem", "rmShm", Done, Failed}

(* Before the writer's set-up is over no reader has come past shmget(). *)
SetupInv ==
    WriterSettingUp =>
        /\ rpc \in {"semget", "shmget", Failed}
        /\ lateReader => rpc = "semget"
        /\ ~lateReader => ~shmSet
        /\ wpc \in {"initRead", "shmget"} => sem[WRITE_SEM] = 1
        /\ wpc = "shmget" => sem[READ_SEM] = 0
        /\ out = <<>> /\ rBytes = 0 /\ pos = 0 /\ wBytes = 0

(* Afterwards there is at most one token. *)
TokenInv ==
    ~WriterSettingUp =>
        /\ sem[WRITE_SEM] = 1 => sem[READ_SEM] = 0 /\ ~WriterHolds /\ ~ReaderTurn
        /\ sem[READ_SEM] = 1 => ~WriterHolds /\ ~ReaderTurn
        /\ ~(WriterHolds /\ ReaderTurn)

(* A block is in the segment, or about to be announced in its count. *)
InFlight ==
    /\ ~WriterSettingUp
    /\ \/ wpc \in {"setCnt", "release"}
       \/ sem[READ_SEM] = 1
       \/ rpc \in {"test", "write"}

(* The block in flight is what follows the output in the input. *)
BlockInv ==
    InFlight => /\ pos = Len(out) + got
                /\ \A i \in 1 .. got : buf[i] = Input[Len(out) + i]

(* A reader whose write() failed has taken the token with it. *)
TokenLost ==
    /\ rpc = Failed
    /\ sem[WRITE_SEM] = 0 /\ sem[READ_SEM] = 0
    /\ wpc \in {"test", "count", "reserve", "lastReserve"}

(* The output is what the writer has taken, but for the block in flight. *)
OutInv ==
    /\ Len(out) <= pos
    /\ \A i \in 1 .. Len(out) : out[i] = Input[i]
    /\ InFlight \/ TokenLost \/ Len(out) = pos

(* shmp->cnt is the size of the last block wherever a process reads it. *)
CntInv ==
    /\ wpc \in {"release", "test", "count", "lastReserve", "rmSem", "rmShm", Done} => cnt = got
    /\ (~WriterSettingUp /\ (sem[READ_SEM] = 1 \/ ReaderTurn)) => cnt = got
    /\ wpc \in {"setCnt", "release", "test"} => (got = 0 => pos = Len(Input))
    /\ wpc = "count" => got > 0
    /\ wpc \in {"lastReserve", "rmSem", "rmShm", Done} => got = 0 /\ pos = Len(Input)
    /\ (wpc = "reserve" /\ (sem[READ_SEM] = 1 \/ ReaderTurn)) => got > 0
    /\ rpc \in {"write", "release"} => got > 0

(* A reader that has seen end of file, and the writer after it, are done   *)
(* with the segment.                                                       *)
EndInv ==
    /\ rpc \in {"lastRelease", Done} =>
           got = 0 /\ wpc \in {"test", "lastReserve", "rmSem", "rmShm", Done}
    /\ (wpc \in {"test", "lastReserve"} /\ got = 0 /\ sem[WRITE_SEM] = 1) => rpc = Done
    /\ wpc \in {"rmSem", "rmShm", Done} => rpc = Done
    /\ wpc \notin {"semget", "rmShm", Done} => semSet
    /\ wpc \in {"rmShm", Done} => ~semSet
    /\ wpc = Done => ~shmSet

(* The two counters of bytes. *)
BytesInv ==
    /\ wpc \in {"setCnt", "release", "test", "count"} => wBytes = pos - got
    /\ wpc \in {"reserve", "read", "lastReserve", "rmSem", "rmShm", Done} => wBytes = pos
    /\ rpc \notin {"write", Failed} => rBytes = Len(out)
    /\ rpc = "write" => rBytes = Len(out) + cnt

IInv == /\ TypeOK /\ SetupInv /\ TokenInv /\ BlockInv /\ OutInv
        /\ CntInv /\ EndInv /\ BytesInv /\ SetOutlivesUse

-----------------------------------------------------------------------------
(* Initially nothing has been set up. *)
LEMMA InitIInv == Init => IInv
  <1> SUFFICES ASSUME Init PROVE IInv OBVIOUS
  <1> USE InputAssumption, BufAssumption
  <1>1. TypeOK
    BY DEF Init, TypeOK, WriterPC, ReaderPC, WRITE_SEM, READ_SEM
  <1> QED
    BY <1>1 DEF Init, IInv, SetupInv, TokenInv, BlockInv, OutInv, CntInv, EndInv, BytesInv,
        SetOutlivesUse, WriterSettingUp, InFlight, TokenLost, WriterHolds, ReaderTurn, Done, Failed,
        WRITE_SEM, READ_SEM

(* Every step of either process keeps the invariant. *)
LEMMA NextIInv == IInv /\ [Next]_vars => IInv'
  <1> SUFFICES ASSUME IInv, [Next]_vars PROVE IInv' OBVIOUS
  <1> USE InputAssumption, BufAssumption
  <1> USE DEF IInv, TypeOK, SetupInv, TokenInv, BlockInv, OutInv, CntInv, EndInv, BytesInv,
              SetOutlivesUse, WriterSettingUp, InFlight, TokenLost, WriterHolds, ReaderTurn,
              WriterPC, ReaderPC, Done, Failed, WRITE_SEM, READ_SEM,
              ipc, seg, writer, reader, WGoto, RGoto
  <1>1. CASE WSemget
    BY <1>1 DEF WSemget
  <1>2. CASE WInitWrite
    BY <1>2 DEF WInitWrite, initSemAvailable, SetVal
  <1>3. CASE WInitRead
    BY <1>3 DEF WInitRead, initSemInUse, SetVal
  <1>4. CASE WShmget
    BY <1>4 DEF WShmget
  <1>5. CASE WReserve
    BY <1>5 DEF WReserve, reserveSem
  <1>6. CASE WRead
    <2> PICK n \in 0 .. BUF_SIZE :
             /\ pos + n <= Len(Input)
             /\ n = 0 => pos = Len(Input)
             /\ got' = n
             /\ buf' = [i \in 1 .. BUF_SIZE |-> IF i <= n THEN Input[pos + i] ELSE buf[i]]
             /\ pos' = pos + n
      BY <1>6 DEF WRead
    <2>1. TypeOK'
      <3> \A i \in 1 .. n : Input[pos + i] \in Byte
        OBVIOUS
      <3> QED
        BY <1>6 DEF WRead
    <2>2. Len(out) = pos
      BY <1>6 DEF WRead
    <2>3. BlockInv'
      <3> \A i \in 1 .. n : buf'[i] = Input[pos + i]
        OBVIOUS
      <3> QED
        BY <1>6, <2>2 DEF WRead
    <2>4. OutInv'
      BY <1>6, <2>2 DEF WRead
    <2>5. SetupInv' /\ TokenInv' /\ SetOutlivesUse'
      BY <1>6 DEF WRead
    <2>6. EndInv' /\ BytesInv'
      BY <1>6 DEF WRead
    <2>7. CntInv'
      BY <1>6 DEF WRead
    <2> QED
      BY <2>1, <2>3, <2>4, <2>5, <2>6, <2>7, Zenon
  <1>7. CASE WReadFails
    BY <1>7 DEF WReadFails
  <1>8. CASE WSetCnt
    BY <1>8 DEF WSetCnt
  <1>9. CASE WRelease
    BY <1>9 DEF WRelease, releaseSem
  <1>10. CASE WTest
    BY <1>10 DEF WTest
  <1>11. CASE WCount
    BY <1>11 DEF WCount
  <1>12. CASE WLastReserve
    BY <1>12 DEF WLastReserve, reserveSem
  <1>13. CASE WRmSem
    BY <1>13, Zenon DEF WRmSem
  <1>14. CASE WRmShm
    BY <1>14, Zenon DEF WRmShm
  <1>15. CASE RSemget
    BY <1>15 DEF RSemget
  <1>16. CASE RShmget
    BY <1>16 DEF RShmget
  <1>17. CASE RGetFails
    BY <1>17 DEF RGetFails
  <1>18. CASE RReserve
    BY <1>18 DEF RReserve, reserveSem
  <1>19. CASE RTest
    <2>1. cnt = got /\ rBytes = Len(out)
      BY <1>19 DEF RTest
    <2>2. TypeOK'
      BY <1>19, <2>1 DEF RTest
    <2>3. CntInv'
      BY <1>19, <2>1 DEF RTest
    <2>4. BytesInv'
      BY <1>19, <2>1 DEF RTest
    <2>5. SetupInv' /\ TokenInv' /\ EndInv' /\ SetOutlivesUse'
      BY <1>19 DEF RTest
    <2>6. BlockInv' /\ OutInv'
      BY <1>19 DEF RTest
    <2> QED
      BY <2>2, <2>3, <2>4, <2>5, <2>6, Zenon
  <1>20. CASE RWrite
    BY <1>20 DEF RWrite
  <1>21. CASE RWriteFails
    BY <1>21 DEF RWriteFails
  <1>22. CASE RRelease
    BY <1>22 DEF RRelease, releaseSem
  <1>23. CASE RLastRelease
    BY <1>23 DEF RLastRelease, releaseSem
  <1>24. CASE UNCHANGED vars
    BY <1>24 DEF vars
  <1> QED
    BY <1>1, <1>2, <1>3, <1>4, <1>5, <1>6, <1>7, <1>8, <1>9, <1>10, <1>11, <1>12,
       <1>13, <1>14, <1>15, <1>16, <1>17, <1>18, <1>19, <1>20, <1>21, <1>22, <1>23, <1>24, Zenon
       DEF Next, WriterNext, ReaderNext

-----------------------------------------------------------------------------
(* The facts of the last lemmas, combined. *)
LEMMA SpecIInv == Spec => []IInv
  BY InitIInv, NextIInv, PTL DEF Spec

(* svshm_xfr: the variables keep their types; above all, neither semaphore *)
(* ever exceeds 1, so reserveSem() and releaseSem() really are binary.     *)
THEOREM TypeCorrect == Spec => []TypeOK
  <1> IInv => TypeOK
    BY DEF IInv
  <1> QED
    BY SpecIInv, PTL

(* svshm_xfr: writer and reader are never both between their reserveSem()  *)
(* and releaseSem(), whatever the order in which they were started.        *)
THEOREM MutualExclusion == Spec => []OneTurn
  <1> IInv => OneTurn
    BY DEF IInv, TokenInv, SetupInv, OneTurn, WriterTurn, WriterHolds, ReaderTurn,
           WriterSettingUp, Failed, Done
  <1> QED
    BY SpecIInv, PTL

(* The output is the beginning of the input: OutInv as an equation. *)
LEMMA PrefixIInv == IInv => OutputIsPrefix
  <1> SUFFICES ASSUME IInv PROVE OutputIsPrefix OBVIOUS
  <1> USE InputAssumption
  <1>1. /\ out \in Seq(Byte) /\ Len(out) <= Len(Input)
        /\ \A i \in 1 .. Len(out) : out[i] = Input[i]
    BY DEF IInv, TypeOK, OutInv
  <1>2. /\ SubSeq(Input, 1, Len(out)) \in Seq(Byte)
        /\ Len(SubSeq(Input, 1, Len(out))) = Len(out)
        /\ \A i \in 1 .. Len(out) : SubSeq(Input, 1, Len(out))[i] = Input[i]
    BY <1>1
  <1> QED
    BY <1>1, <1>2 DEF OutputIsPrefix

(* svshm_xfr: what the reader has written is a prefix of what the writer   *)
(* was given, for every input and every buffer size.                       *)
THEOREM PrefixTransferred == Spec => []OutputIsPrefix
  BY PrefixIInv, SpecIInv, PTL

(* svshm_xfr: no process ever calls semop() on a semaphore set that does   *)
(* not exist, so the writer may remove it after its extra turn.            *)
THEOREM SetAvailable == Spec => []SetOutlivesUse
  <1> IInv => SetOutlivesUse
    BY DEF IInv
  <1> QED
    BY SpecIInv, PTL

(* A writer that is done has seen the reader's last turn. *)
LEMMA CompleteIInv == IInv => SuccessIsComplete
  <1> SUFFICES ASSUME IInv, wpc = Done PROVE SuccessIsComplete
    BY DEF SuccessIsComplete
  <1> USE InputAssumption
  <1>1. rpc = Done /\ pos = Len(Input) /\ wBytes = pos /\ rBytes = Len(out)
        /\ ~semSet /\ ~shmSet
    BY DEF IInv, CntInv, EndInv, BytesInv, Done, Failed
  <1>2. Len(out) = Len(Input) /\ \A i \in 1 .. Len(Input) : out[i] = Input[i]
    BY <1>1 DEF IInv, TypeOK, OutInv, InFlight, TokenLost, TokenInv, WriterHolds,
                WriterSettingUp, Done, Failed, READ_SEM, WRITE_SEM
  <1>3. out = Input
    BY <1>2 DEF IInv, TypeOK
  <1> QED
    BY <1>1, <1>2, <1>3 DEF SuccessIsComplete

(* svshm_xfr: a writer that exits successfully leaves a reader that has    *)
(* written the whole input, equal byte counts, and no IPC object.          *)
THEOREM CompleteOnSuccess == Spec => []SuccessIsComplete
  BY CompleteIInv, SpecIInv, PTL

-----------------------------------------------------------------------------
(* Every step of the two programs is a step of the transfer or invisible   *)
(* in it: blocks arrive when the reader writes them, the writer's last     *)
(* step completes the transfer, and a failing call ends it.                *)
LEMMA StepTransfers == IInv /\ IInv' /\ [Next]_vars => [T!Next]_<<out, Outcome>>
  <1> SUFFICES ASSUME IInv, IInv', [Next]_vars PROVE [T!Next]_<<out, Outcome>> OBVIOUS
  <1> USE InputAssumption, BufAssumption
  <1>1. OutputIsPrefix /\ OutputIsPrefix' /\ SuccessIsComplete'
    BY PrefixIInv, CompleteIInv, PTL
  <1>2. /\ Len(out) \in Nat /\ Len(out') \in Nat /\ Len(Input) \in Nat
        /\ Len(out) <= Len(Input) /\ Len(out') <= Len(Input)
    BY <1>1 DEF IInv, TypeOK, OutputIsPrefix
  <1>3. ASSUME Len(out) <= Len(out') PROVE T!Extend
    <2>1. out' = SubSeq(Input, 1, Len(out'))
      BY <1>1 DEF OutputIsPrefix
    <2>2. Len(out') \in Len(out) .. Len(Input)
      BY <1>2, <1>3
    <2> QED
      BY <2>1, <2>2, Zenon DEF T!Extend
  <1>4. CASE RWrite \/ RWriteFails
    <2>1. rpc = "write" /\ wpc # Failed /\ wpc # Done /\ wpc' = wpc
      BY <1>4 DEF RWrite, RWriteFails, RGoto, writer, IInv, SetupInv, TokenInv, WriterHolds,
                  ReaderTurn, WriterSettingUp, Done, Failed
    <2>2. Outcome = "running" /\ Outcome' \in {"running", "failed"}
      BY <2>1 DEF Outcome, Done, Failed
    <2>3. Len(out) <= Len(out')
      <3>1. PICK n \in 0 .. BUF_SIZE : out' = out \o SubSeq(buf, 1, n)
        BY <1>4, Zenon DEF RWrite, RWriteFails, RGoto, IInv, TypeOK, CntInv, ReaderTurn,
                    SetupInv, WriterSettingUp, Failed
      <3>2. buf \in Seq(Byte) /\ Len(buf) = BUF_SIZE /\ out \in Seq(Byte)
        BY DEF IInv, TypeOK
      <3> QED
        BY <3>1, <3>2
    <2> QED
      BY <1>3, <2>2, <2>3 DEF T!Next, T!Deliver, T!Fail
  <1>5. CASE WReadFails \/ RGetFails
    <2>1. out' = out /\ Outcome' = "failed"
      BY <1>5 DEF WReadFails, RGetFails, WGoto, reader, Outcome
    <2>2. wpc # Done
      BY <1>5 DEF WReadFails, RGetFails, WGoto, IInv, EndInv, Done
    <2>3. Outcome \in {"running", "failed"}
      BY <2>2 DEF Outcome
    <2> QED
      BY <1>2, <1>3, <2>1, <2>3 DEF T!Next, T!Fail
  <1>6. CASE WRmShm
    <2>1. out' = out /\ rpc' = rpc /\ wpc = "rmShm" /\ wpc' = Done
      BY <1>6 DEF WRmShm, WGoto, reader
    <2>2. rpc = Done /\ out = Input
      BY <1>1, <2>1 DEF SuccessIsComplete
    <2>3. Outcome = "running" /\ Outcome' = "complete"
      BY <2>1, <2>2 DEF Outcome, Done, Failed
    <2> QED
      BY <2>1, <2>2, <2>3 DEF T!Next, T!Complete
  <1>7. ASSUME out' = out, (wpc' = Failed) = (wpc = Failed), (wpc' = Done) = (wpc = Done),
               (rpc' = Failed) = (rpc = Failed)
        PROVE  UNCHANGED <<out, Outcome>>
    BY <1>7 DEF Outcome
  <1>8. CASE WSemget \/ WInitWrite \/ WInitRead \/ WShmget
    BY <1>7, <1>8 DEF WSemget, WInitWrite, WInitRead, WShmget, WGoto, reader, Done, Failed
  <1>9. CASE WReserve \/ WRead \/ WSetCnt \/ WRelease
    BY <1>7, <1>9 DEF WReserve, WRead, WSetCnt, WRelease, WGoto, reader, Done, Failed
  <1>10. CASE WTest \/ WCount \/ WLastReserve \/ WRmSem
    BY <1>7, <1>10 DEF WTest, WCount, WLastReserve, WRmSem, WGoto, reader, Done, Failed
  <1>11. CASE RSemget \/ RShmget \/ RReserve
    BY <1>7, <1>11 DEF RSemget, RShmget, RReserve, RGoto, writer, Done, Failed
  <1>12. CASE RTest \/ RRelease \/ RLastRelease
    BY <1>7, <1>12 DEF RTest, RRelease, RLastRelease, RGoto, writer, Done, Failed
  <1>13. CASE UNCHANGED vars
    BY <1>7, <1>13 DEF vars
  <1> QED
    BY <1>4, <1>5, <1>6, <1>8, <1>9, <1>10, <1>11, <1>12, <1>13 DEF Next, WriterNext, ReaderNext

(* svshm_xfr: writer, reader, semaphores and segment implement a transfer: *)
(* the output only grows along the input, the writer succeeds after all of *)
(* it, and nothing is written once either process has failed.              *)
THEOREM XfrImplementsTransfer == Spec => ImplementsTransfer
  <1>1. Init => T!Init
    BY DEF Init, T!Init, Outcome, Done, Failed
  <1> QED
    BY <1>1, SpecIInv, StepTransfers, PTL DEF Spec, ImplementsTransfer, T!Safety

-----------------------------------------------------------------------------
(* svsem_good_init and svsem_bad_init. *)

Initialising(p) == pc[p] \in {"setval", "noop"}

(* Before the set exists nobody has got anywhere; then one process, the    *)
(* one that created it, initialises it.                                    *)
OneCreator == \A p \in Proc : /\ ~keySet => pc[p] \in {"create", "killed"}
                              /\ Initialising(p) => creator = {p}

(* The good program: until the creator has passed, sem_otime is 0 and      *)
(* nobody is past the test of it.                                          *)
Protocol ==
    \A p \in Proc :
        /\ pc[p] = "noop" => program = "good" /\ semval = 0
        /\ program = "good" /\ Initialising(p) => ~otime
        /\ program = "good" /\ pc[p] \in {"op", "done"} => otime

(* The operations done are those of the processes that are done. *)
DoneAdded == added \subseteq Proc /\ \A p \in added : pc[p] = "done"

SemTyped == program \in {"good", "bad"} /\ semval \in Int /\ pc \in [Proc -> SI!PC]

SemInv == SemTyped /\ OneCreator /\ Protocol /\ DoneAdded

(* Each step of each process keeps SemInv. *)
LEMMA SemNext == SemInv /\ [SI!Next]_siVars => SemInv'
  <1> SUFFICES ASSUME SemInv, [SI!Next]_siVars PROVE SemInv' BY Zenon
  <1> USE ProcAssumption, ProgramAssumption DEF SemInv, SemTyped, OneCreator, Protocol, DoneAdded,
         Initialising, SI!PC
  <1>1. ASSUME NEW p \in Proc, SI!Create(p) PROVE SemInv'
    BY <1>1 DEF SI!Create, SI!Goto
  <1>2. ASSUME NEW p \in Proc, SI!CreateExists(p) PROVE SemInv'
    BY <1>2, Zenon DEF SI!CreateExists, SI!Goto
  <1>3. ASSUME NEW p \in Proc, SI!SetVal(p) PROVE SemInv'
    BY <1>3 DEF SI!SetVal, SI!Goto
  <1>4. ASSUME NEW p \in Proc, SI!NoOp(p) PROVE SemInv'
    BY <1>4, Zenon DEF SI!NoOp, SI!Goto
  <1>5. ASSUME NEW p \in Proc, SI!Get(p) PROVE SemInv'
    BY <1>5, Zenon DEF SI!Get, SI!Goto
  <1>6. ASSUME NEW p \in Proc, SI!Stat(p) PROVE SemInv'
    BY <1>6, Zenon DEF SI!Stat, SI!Goto
  <1>7. ASSUME NEW p \in Proc, SI!Sleep(p) PROVE SemInv'
    BY <1>7, Zenon DEF SI!Sleep, SI!Goto
  <1>8. ASSUME NEW p \in Proc, SI!Op(p) PROVE SemInv'
    BY <1>8 DEF SI!Op, SI!Goto
  <1>9. ASSUME NEW p \in Proc, SI!Kill(p) PROVE SemInv'
    BY <1>9, Zenon DEF SI!Kill, SI!Running
  <1>10. CASE UNCHANGED siVars
    BY <1>10, Zenon DEF siVars
  <1> QED
    BY <1>1, <1>2, <1>3, <1>4, <1>5, <1>6, <1>7, <1>8, <1>9, <1>10, Zenon DEF SI!Next, SI!Step


(* Nobody has done anything initially. *)
LEMMA SemInit0 == SI!Init => SemInv
  <1> SUFFICES ASSUME SI!Init PROVE SemInv BY Zenon
  <1>1. SemTyped
    BY ProgramAssumption DEF SI!Init, SemTyped, SI!PC
  <1>2. (\A p \in Proc : pc[p] = "create") /\ added = {}
    BY Zenon DEF SI!Init
  <1> QED
    BY <1>1, <1>2, Zenon DEF SemInv, OneCreator, Protocol, DoneAdded, Initialising

(* The value as the sum of the operations of the processes kept. *)
Holds(kept) == semval = Sum(SemOp, kept)

(* OpsAccounted, with the sums as the lemmas have them. *)
Accounted ==
    /\ program = "good" => Holds(added)
    /\ program = "bad" => \E kept \in SUBSET added : Holds(kept) /\ creator \cap added \subseteq kept

(* The two ways to write the sum are one. *)
LEMMA AccountedSame == Accounted <=> OpsAccounted
  <1>1. \A kept : Sum(SemOp, kept) = SI!MapThenSumSet(LAMBDA p : SemOp[p], kept)
    BY Zenon DEF Sum, MapThenSumSet, MapThenFoldSet, SI!MapThenSumSet, SI!MapThenFoldSet
  <1> QED
    BY <1>1, Zenon DEF Accounted, Holds, OpsAccounted, SI!NoLostOp, SI!BadLosesOnlyEarlyOps

(* Each step of each process keeps the account.  SETVAL finds nothing to   *)
(* wipe out in the good program; in the bad one it starts the account      *)
(* afresh, without an operation of the creator.                            *)
LEMMA AccountNext == SemInv /\ Accounted /\ [SI!Next]_siVars => Accounted'
  <1> SUFFICES ASSUME SemInv, Accounted, [SI!Next]_siVars
               PROVE  Accounted'
    BY Zenon
  <1> USE ProcAssumption
  <1>0. program \in {"good", "bad"} /\ program' = program
    BY Zenon DEF SemInv, SemTyped, siVars, SI!Next, SI!Step, SI!Create, SI!CreateExists, SI!SetVal, SI!NoOp,
           SI!Get, SI!Stat, SI!Sleep, SI!Op, SI!Kill
  <1>1. ASSUME UNCHANGED <<semval, added, creator>>
        PROVE  Accounted'
    BY <1>0, <1>1, Zenon DEF Accounted, Holds
  <1>2. ASSUME NEW p \in Proc, SI!Create(p)
        PROVE  Accounted'
    <2>1. added = {}
      BY <1>2, Zenon DEF SI!Create, SemInv, OneCreator, DoneAdded
    <2>2. semval' = 0 /\ added' = {}
      BY <1>2, <2>1, Zenon DEF SI!Create
    <2>3. Sum(SemOp, {}) = 0
      BY SumEmpty, Zenon
    <2> QED
      BY <2>2, <2>3, Zenon DEF Accounted, Holds
  <1>3. ASSUME NEW p \in Proc, SI!SetVal(p)
        PROVE  Accounted'
    <2>1. semval' = 0 /\ added' = added /\ creator' = creator /\ pc[p] = "setval"
      BY <1>3, Zenon DEF SI!SetVal, SI!Goto
    <2>2. Sum(SemOp, {}) = 0
      BY SumEmpty, Zenon
    <2>3. CASE program = "good"
      <3>1. added = {}
        BY <2>1, <2>3, Zenon DEF SemInv, Protocol, DoneAdded, Initialising
      <3> QED
        BY <1>0, <2>1, <2>2, <2>3, <3>1, Zenon DEF Accounted, Holds
    <2>4. CASE program = "bad"
      <3>1. creator \cap added = {}
        BY <2>1, Zenon DEF SemInv, OneCreator, DoneAdded, Initialising
      <3>2. {} \in SUBSET added
        BY Zenon
      <3> QED
        BY <1>0, <2>1, <2>2, <2>4, <3>1, <3>2 DEF Accounted, Holds
    <2> QED
      BY <1>0, <2>3, <2>4, Zenon
  <1>4. ASSUME NEW p \in Proc, SI!Op(p)
        PROVE  Accounted'
    <2>1. /\ semval' = semval + SemOp[p] /\ added' = added \cup {p} /\ creator' = creator
          /\ p \notin added
      BY <1>4, Zenon DEF SI!Op, SI!Goto, SemInv, DoneAdded
    <2>2. ASSUME NEW kept \in SUBSET added, Holds(kept)
          PROVE  semval' = Sum(SemOp, kept \cup {p})
      <3>1. IsFiniteSet(kept \cup {p}) /\ kept \cup {p} \subseteq Proc
        BY FS_Subset, Zenon DEF SemInv, DoneAdded
      <3>2. (kept \cup {p}) \ {p} = kept
        BY <2>1, Zenon
      <3>3. Sum(SemOp, kept \cup {p}) = SemOp[p] + Sum(SemOp, (kept \cup {p}) \ {p})
        BY <3>1, SumRemove, Zenon
      <3>4. semval \in Int /\ SemOp[p] \in Int
        BY Zenon DEF SemInv, SemTyped
      <3>5. Sum(SemOp, (kept \cup {p}) \ {p}) = semval
        BY <2>2, <3>2, Zenon DEF Holds
      <3> QED
        BY <2>1, <3>3, <3>4, <3>5
    <2>3. CASE program = "good"
      <3>1. Holds(added)
        BY <2>3, Zenon DEF Accounted
      <3>2. semval' = Sum(SemOp, added \cup {p})
        BY <2>2, <3>1, Zenon
      <3> QED
        BY <1>0, <2>1, <2>3, <3>2, Zenon DEF Accounted, Holds
    <2>4. CASE program = "bad"
      <3>1. PICK kept \in SUBSET added : Holds(kept) /\ creator \cap added \subseteq kept
        BY <2>4, Zenon DEF Accounted
      <3>2. semval' = Sum(SemOp, kept \cup {p})
        BY <2>2, <3>1, Zenon
      <3>3. kept \cup {p} \in SUBSET added' /\ creator' \cap added' \subseteq kept \cup {p}
        BY <2>1, <3>1, Zenon
      <3> QED
        BY <1>0, <2>4, <3>2, <3>3 DEF Accounted, Holds
    <2> QED
      BY <1>0, <2>3, <2>4, Zenon
  <1> QED
    BY <1>1, <1>2, <1>3, <1>4 DEF SI!Next, SI!Step, SI!CreateExists, SI!NoOp, SI!Get, SI!Stat,
                                  SI!Sleep, SI!Kill, siVars

-----------------------------------------------------------------------------
(* fifo_seqnum. *)

(* Ranges come from this server or an earlier one. *)
PastLives == \A c \in Client : \A r \in FS!Given(c) : r[1] <= life

(* A client whose request nobody has taken up has sent one and was not     *)
(* answered; its FIFO is there unless it has failed.                       *)
Waits(c) == /\ cpc[c] \in {"open", "failed", "killed"} /\ c \notin answered
            /\ cpc[c] # "failed" => c \in clFifo

(* No two requests are of the same client, the one the server holds        *)
(* included.                                                               *)
OneRequest ==
    /\ \A i \in 1 .. Len(requests) : Waits(requests[i])
    /\ \A i, k \in 1 .. Len(requests) : requests[i] = requests[k] => i = k
    /\ spc = "openClient" => /\ Waits(req)
                             /\ \A i \in 1 .. Len(requests) : requests[i] # req

(* A client has its FIFO from mkfifo() to its end, and is not answered     *)
(* before it has asked.                                                    *)
OwnFifo ==
    \A c \in Client :
        /\ cpc[c] \in {"openServer", "request", "open", "read"} => c \in clFifo
        /\ cpc[c] \in {"mkfifo", "openServer", "request"} => c \notin answered

(* Only a server that may be started again is ever killed. *)
LivesLeft == spc = "killed" => life < MaxLives

FifoInv == FS!TypeOK /\ LivesLeft /\ PastLives /\ FS!RangesDisjoint /\ OneRequest /\ OwnFifo

-----------------------------------------------------------------------------
(* Initially nobody has asked for anything. *)
LEMMA FifoInit == FS!Init => FifoInv
  <1> SUFFICES ASSUME FS!Init PROVE FifoInv BY Zenon
  <1> USE ClientAssumption, LivesAssumption
  <1>1. /\ resp \in [Client -> SUBSET ((1 .. MaxLives) \X Nat)]
        /\ result \in [Client -> SUBSET ((1 .. MaxLives) \X Nat)]
    <2> {} \in SUBSET ((1 .. MaxLives) \X Nat)
      BY Zenon
    <2> QED
      BY Zenon DEF FS!Init
  <1>4. FS!TypeOK /\ LivesLeft
    <2>1. requests \in Seq(Client) /\ life \in 1 .. MaxLives /\ seqNum \in Nat
      BY DEF FS!Init
    <2>2. cpc \in [Client -> FS!ClientPC]
      BY Zenon DEF FS!Init, FS!ClientPC
    <2> QED
      BY <1>1, <2>1, <2>2, Zenon DEF FS!Init, FS!TypeOK, LivesLeft, FS!ServerPC
  <1>2. PastLives /\ FS!RangesDisjoint
    BY Zenon DEF FS!Init, PastLives, FS!RangesDisjoint, FS!Given
  <1>3. OneRequest /\ OwnFifo
    BY DEF FS!Init, OneRequest, OwnFifo, Waits
  <1> QED
    BY <1>2, <1>3, <1>4 DEF FifoInv

(* A step that gives out no range, and leaves the server as it is, keeps   *)
(* what is said of the ranges.                                             *)
LEMMA RangesKept ==
  ASSUME FifoInv, UNCHANGED <<life, seqNum>>, \A c \in Client : FS!Given(c)' \subseteq FS!Given(c)
  PROVE  (PastLives /\ FS!RangesDisjoint)'
  BY Zenon DEF FifoInv, PastLives, FS!RangesDisjoint

(* The same, for a step that leaves the responses alone. *)
LEMMA RangesUnchanged ==
  ASSUME FifoInv, UNCHANGED <<life, seqNum, resp, result>>
  PROVE  (PastLives /\ FS!RangesDisjoint)'
  BY RangesKept, Zenon DEF FS!Given

(* A client's step that asks for nothing keeps what is said of requests.   *)
LEMMA RequestsKept ==
  ASSUME FifoInv, UNCHANGED <<spc, req>>, requests' = requests \/ requests' = <<>>,
         \A c \in Client : Waits(c) => Waits(c)'
  PROVE  OneRequest'
  <1>1. /\ \A i \in 1 .. Len(requests) : requests[i] \in Client
        /\ spc = "openClient" => req \in Client
    BY DEF FifoInv, FS!TypeOK
  <1>2. CASE requests' = requests
    BY <1>1, <1>2 DEF FifoInv, OneRequest
  <1>3. CASE requests' = <<>>
    BY <1>1, <1>3 DEF FifoInv, OneRequest
  <1> QED
    BY <1>2, <1>3, Zenon

(* Every step of the server, of a client and of a fault keeps FifoInv.     *)
LEMMA FifoNext == FifoInv /\ [FS!Next]_fsVars => FifoInv'
  <1> SUFFICES ASSUME FifoInv, [FS!Next]_fsVars PROVE FifoInv' BY Zenon
  <1> USE ClientAssumption, LenAssumption, LivesAssumption
  <1>1. CASE FS!SMkfifo \/ FS!SCallOpen \/ FS!SOpenRead \/ FS!SOpenDummy
    <2>1. (PastLives /\ FS!RangesDisjoint)'
      BY <1>1, RangesUnchanged, Zenon DEF FS!SMkfifo, FS!SCallOpen, FS!SOpenRead, FS!SOpenDummy,
                                   FS!fifos
    <2>2. (FS!TypeOK /\ LivesLeft /\ OneRequest /\ OwnFifo)'
      BY <1>1, Zenon DEF FS!SMkfifo, FS!SCallOpen, FS!SOpenRead, FS!SOpenDummy, FS!fifos, FS!SGoto,
                  FifoInv, FS!TypeOK, LivesLeft, OneRequest, OwnFifo, Waits, FS!ServerPC
    <2> QED
      BY <2>1, <2>2, Zenon DEF FifoInv
  <1>2. CASE FS!SRead
    <2>1. (PastLives /\ FS!RangesDisjoint)'
      BY <1>2, RangesUnchanged, Zenon DEF FS!SRead
    <2>2. /\ requests \in Seq(Client) /\ requests # <<>>
          /\ req' = requests[1] /\ req' \in Client
          /\ requests' \in Seq(Client) /\ Len(requests') = Len(requests) - 1
          /\ \A i \in 1 .. Len(requests') : requests'[i] = requests[i + 1]
      BY <1>2 DEF FS!SRead, FifoInv, FS!TypeOK
    <2>3. (FS!TypeOK /\ LivesLeft /\ OwnFifo)'
      BY <1>2, <2>2, Zenon DEF FS!SRead, FS!SGoto, FifoInv, FS!TypeOK, LivesLeft, OwnFifo, FS!ServerPC
    <2>4. OneRequest'
      <3>1. \A c : Waits(c)' <=> Waits(c)
        BY <1>2, Zenon DEF FS!SRead, Waits
      <3>2. /\ \A i \in 1 .. Len(requests) : Waits(requests[i])
            /\ \A i, k \in 1 .. Len(requests) : requests[i] = requests[k] => i = k
        BY Zenon DEF FifoInv, OneRequest
      <3>3. Len(requests) \in Nat \ {0}
        BY <2>2
      <3>4. \A i \in 1 .. Len(requests') : i + 1 \in 1 .. Len(requests) /\ i + 1 # 1
        BY <2>2, <3>3
      <3>5. ASSUME NEW i \in 1 .. Len(requests')
            PROVE  Waits(requests'[i]) /\ requests'[i] # req'
        <4>1. requests'[i] = requests[i + 1] /\ req' = requests[1] /\ i \in Int
          BY <2>2
        <4>2. i + 1 \in 1 .. Len(requests) /\ 1 \in 1 .. Len(requests) /\ i + 1 # 1
          BY <3>3, <3>4
        <4> QED
          BY <3>2, <4>1, <4>2, Zenon
      <3>6. ASSUME NEW i \in 1 .. Len(requests'), NEW k \in 1 .. Len(requests'),
                   requests'[i] = requests'[k]
            PROVE  i = k
        <4>1. requests[i + 1] = requests[k + 1] /\ i \in Int /\ k \in Int
          BY <2>2, <3>6
        <4>2. i + 1 = k + 1
          BY <3>2, <3>4, <4>1, Zenon
        <4> QED
          BY <4>1, <4>2
      <3>7. Waits(req')
        BY <2>2, <3>2, <3>3
      <3> QED
        BY <3>1, <3>5, <3>6, <3>7, Zenon DEF OneRequest, Waits
    <2> QED
      BY <2>1, <2>3, <2>4, Zenon DEF FifoInv
  <1>3. CASE FS!SOpenClient
    <2>1. (PastLives /\ FS!RangesDisjoint)'
      BY <1>3, RangesUnchanged, Zenon DEF FS!SOpenClient
    <2>2. (FS!TypeOK /\ LivesLeft /\ OneRequest /\ OwnFifo)'
      BY <1>3, Zenon DEF FS!SOpenClient, FS!SGoto, FifoInv, FS!TypeOK, LivesLeft, OneRequest, OwnFifo,
                  Waits, FS!ServerPC
    <2> QED
      BY <2>1, <2>2, Zenon DEF FifoInv
  <1>4. CASE FS!SOpenClientFails
    <2>1. (PastLives /\ FS!RangesDisjoint)'
      BY <1>4, RangesUnchanged, Zenon DEF FS!SOpenClientFails, FS!fifos
    <2>2. (FS!TypeOK /\ LivesLeft /\ OneRequest /\ OwnFifo)'
      BY <1>4, Zenon DEF FS!SOpenClientFails, FS!fifos, FS!SGoto, FifoInv, FS!TypeOK, LivesLeft,
                  OneRequest, OwnFifo, Waits, FS!ServerPC
    <2> QED
      BY <2>1, <2>2, Zenon DEF FifoInv
  <1>5. CASE FS!SWrite
    <2>1. req \in Client /\ seqNum \in Nat /\ SeqLen[req] \in Nat /\ seqNum' = seqNum + SeqLen[req]
          /\ life' = life /\ life \in 1 .. MaxLives
      BY <1>5, Zenon DEF FS!SWrite, FS!SGoto, FifoInv, FS!TypeOK
    <2>2. \A c \in Client : /\ FS!Given(c)' \subseteq FS!Given(c) \cup {<<life, seqNum>>}
                            /\ c # req => FS!Given(c)' \subseteq FS!Given(c)
      BY <1>5, <2>1, Zenon DEF FS!SWrite, FS!Given, FifoInv, FS!TypeOK
    <2>3. \A c \in Client : \A r \in FS!Given(c) :
             r[1] \in 1 .. MaxLives /\ r[2] \in Nat /\ SeqLen[c] \in Nat
      BY DEF FS!Given, FifoInv, FS!TypeOK
    <2>4. PastLives'
      BY <2>1, <2>2 DEF PastLives, FifoInv
    <2>5. FS!RangesDisjoint'
      <3>1. ASSUME NEW c \in Client, NEW r \in FS!Given(c)', r[1] = life'
            PROVE  r[2] + SeqLen[c] <= seqNum'
        BY <2>1, <2>2, <2>3, <3>1 DEF FifoInv, FS!RangesDisjoint
      <3>2. ASSUME NEW c \in Client, NEW r \in FS!Given(c)', NEW d \in Client \ {c},
                   NEW t \in FS!Given(d)', r[1] = t[1]
            PROVE  r[2] + SeqLen[c] <= t[2] \/ t[2] + SeqLen[d] <= r[2]
        <4>1. CASE r \in FS!Given(c) /\ t \in FS!Given(d)
          BY <3>2, <4>1 DEF FifoInv, FS!RangesDisjoint
        <4>2. CASE r \notin FS!Given(c)
          BY <2>1, <2>2, <2>3, <3>2, <4>2 DEF FifoInv, FS!RangesDisjoint
        <4>3. CASE t \notin FS!Given(d)
          BY <2>1, <2>2, <2>3, <3>2, <4>3 DEF FifoInv, FS!RangesDisjoint
        <4> QED
          BY <4>1, <4>2, <4>3
      <3> QED
        BY <3>1, <3>2, Zenon DEF FS!RangesDisjoint
    <2>6. FS!TypeOK'
      <3>1. resp' = resp \/ resp' = [resp EXCEPT ![req] = {<<life, seqNum>>}]
        BY <1>5, Zenon DEF FS!SWrite
      <3>2. {<<life, seqNum>>} \in SUBSET ((1 .. MaxLives) \X Nat)
        BY <2>1
      <3>3. resp' \in [Client -> SUBSET ((1 .. MaxLives) \X Nat)]
        BY <3>1, <3>2, Zenon DEF FifoInv, FS!TypeOK
      <3> QED
        BY <1>5, <2>1, <3>3 DEF FS!SWrite, FS!SGoto, FifoInv, FS!TypeOK, FS!ServerPC
    <2>7. (LivesLeft /\ OneRequest /\ OwnFifo)'
      BY <1>5, Zenon DEF FS!SWrite, FS!SGoto, FifoInv, FS!TypeOK, LivesLeft, OneRequest, OwnFifo, Waits
    <2> QED
      BY <2>4, <2>5, <2>6, <2>7, Zenon DEF FifoInv
  <1>6. CASE FS!SKill
    <2>1. (PastLives /\ FS!RangesDisjoint)'
      BY <1>6, RangesUnchanged, Zenon DEF FS!SKill
    <2>2. (FS!TypeOK /\ LivesLeft /\ OneRequest /\ OwnFifo)'
      BY <1>6, SMTT(30) DEF FS!SKill, FifoInv, FS!TypeOK, LivesLeft, OneRequest, OwnFifo, Waits,
                  FS!ServerPC
    <2> QED
      BY <2>1, <2>2, Zenon DEF FifoInv
  <1>7. CASE FS!SStart
    <2>1. life < MaxLives /\ life' = life + 1 /\ life \in 1 .. MaxLives
          /\ UNCHANGED <<resp, result>>
      BY <1>7, Zenon DEF FS!SStart, FS!SGoto, FS!fifos, FifoInv, FS!TypeOK, LivesLeft
    <2>2. \A c \in Client : FS!Given(c)' = FS!Given(c)
      BY <2>1, Zenon DEF FS!Given
    <2>3. \A c \in Client : \A r \in FS!Given(c) : r[1] \in 1 .. MaxLives /\ r[1] <= life
      BY DEF FS!Given, FifoInv, FS!TypeOK, PastLives
    <2>4. PastLives' /\ FS!RangesDisjoint'
      BY <2>1, <2>2, <2>3 DEF FifoInv, PastLives, FS!RangesDisjoint
    <2>5. (FS!TypeOK /\ LivesLeft)'
      BY <1>7, <2>1 DEF FS!SStart, FS!SGoto, FS!fifos, FifoInv, FS!TypeOK, LivesLeft, FS!ServerPC
    <2>6. (OneRequest /\ OwnFifo)'
      BY <1>7, Zenon DEF FS!SStart, FS!SGoto, FS!fifos, FifoInv, FS!TypeOK, OneRequest, OwnFifo, Waits
    <2> QED
      BY <2>4, <2>5, <2>6, Zenon DEF FifoInv
  <1>8. ASSUME NEW c \in Client, FS!CMkfifo(c) \/ FS!COpenServer(c) \/ FS!COpenServerFails(c)
        PROVE  FifoInv'
    <2>1. (PastLives /\ FS!RangesDisjoint)'
      BY <1>8, RangesUnchanged, Zenon DEF FS!CMkfifo, FS!COpenServer, FS!COpenServerFails, FS!fifos,
                                   FS!server
    <2>2. (FS!TypeOK /\ LivesLeft /\ OwnFifo)'
      BY <1>8, Zenon DEF FS!CMkfifo, FS!COpenServer, FS!COpenServerFails, FS!removeFifo, FS!CGoto,
                  FS!fifos, FS!server, FifoInv, FS!TypeOK, LivesLeft, OwnFifo, FS!ClientPC
    <2>3. \A d \in Client : Waits(d) => Waits(d)'
      BY <1>8, Zenon DEF FS!CMkfifo, FS!COpenServer, FS!COpenServerFails, FS!removeFifo, FS!CGoto,
                  FS!fifos, FifoInv, FS!TypeOK, Waits
    <2>4. OneRequest'
      BY <1>8, <2>3, RequestsKept DEF FS!CMkfifo, FS!COpenServer, FS!COpenServerFails, FS!fifos,
                                      FS!server
    <2> QED
      BY <2>1, <2>2, <2>4, Zenon DEF FifoInv
  <1>9. ASSUME NEW c \in Client, FS!CRequest(c)
        PROVE  FifoInv'
    <2>1. (PastLives /\ FS!RangesDisjoint)'
      BY <1>9, RangesUnchanged, Zenon DEF FS!CRequest, FS!server
    <2>2. /\ requests \in Seq(Client) /\ requests' \in Seq(Client)
          /\ Len(requests') = Len(requests) + 1 /\ requests'[Len(requests) + 1] = c
          /\ \A i \in 1 .. Len(requests) : requests'[i] = requests[i]
      <3>1. requests \in Seq(Client) /\ requests' = Append(requests, c)
        BY <1>9, Zenon DEF FS!CRequest, FifoInv, FS!TypeOK
      <3> QED
        BY ONLY c \in Client, <3>1
    <2>3. cpc[c] = "request" /\ cpc' = [cpc EXCEPT ![c] = "open"]
      BY <1>9, Zenon DEF FS!CRequest, FS!CGoto
    <2>4. \A i \in 1 .. Len(requests) : requests[i] # c
      BY <2>3, Zenon DEF FifoInv, OneRequest, Waits
    <2>5. spc = "openClient" => req # c
      BY <2>3, Zenon DEF FifoInv, OneRequest, Waits
    <2>6. (FS!TypeOK /\ LivesLeft /\ OwnFifo)'
      BY <1>9, <2>2, <2>3 DEF FS!CRequest, FS!server, FifoInv, FS!TypeOK, LivesLeft, OwnFifo,
                              FS!ClientPC
    <2>7. Waits(c)'
      BY <1>9, <2>3, Zenon DEF FS!CRequest, FifoInv, FS!TypeOK, OwnFifo, Waits
    <2>8. ASSUME NEW d \in Client, d # c, Waits(d) PROVE Waits(d)'
      BY <1>9, <2>3, <2>8, Zenon DEF FS!CRequest, FifoInv, FS!TypeOK, Waits
    <2>9. OneRequest'
      <3>1. \A i \in 1 .. Len(requests) : requests[i] \in Client /\ Waits(requests[i])
        <4>1. \A i \in 1 .. Len(requests) : requests[i] \in Client
          <5>1. requests \in Seq(Client)
            BY <2>2, Zenon
          <5> QED
            BY ONLY <5>1
        <4>2. \A i \in 1 .. Len(requests) : Waits(requests[i])
          <5>1. OneRequest
            BY Zenon DEF FifoInv
          <5> QED
            BY <5>1, Zenon DEF OneRequest
        <4> QED
          BY <4>1, <4>2, Zenon
      <3>2. \A i \in 1 .. Len(requests') : Waits(requests[i])'
        <4> SUFFICES ASSUME NEW i \in 1 .. Len(requests') PROVE Waits(requests[i])' BY Zenon
        <4>1. CASE i = Len(requests) + 1
          BY <2>2, <2>7, <4>1, Zenon DEF Waits
        <4>2. CASE i # Len(requests) + 1
          <5>1. i \in 1 .. Len(requests) /\ requests'[i] = requests[i]
            BY <2>2, <4>2
          <5> QED
            BY <2>4, <2>8, <3>1, <5>1, Zenon DEF Waits
        <4> QED
          BY <4>1, <4>2, Zenon
      <3>3. \A i, k \in 1 .. Len(requests') : requests'[i] = requests'[k] => i = k
        <4> SUFFICES ASSUME NEW i \in 1 .. Len(requests'), NEW k \in 1 .. Len(requests'),
                            requests'[i] = requests'[k]
                     PROVE  i = k
          BY Zenon
        <4> \A m \in 1 .. Len(requests') : m \in 1 .. Len(requests) \/ m = Len(requests) + 1
          BY <2>2
        <4>1. CASE i = Len(requests) + 1 \/ k = Len(requests) + 1
          <5>1. ASSUME NEW m \in 1 .. Len(requests) PROVE requests'[m] # c
            BY <2>2, <2>4, Zenon
          <5> QED
            BY <2>2, <4>1, <5>1, Zenon
        <4>2. CASE i \in 1 .. Len(requests) /\ k \in 1 .. Len(requests)
          <5>1. requests[i] = requests[k]
            BY <2>2, <4>2, Zenon
          <5> QED
            BY <4>2, <5>1, Zenon DEF FifoInv, OneRequest
        <4> QED
          BY <2>2, <4>1, <4>2, Zenon
      <3>4. (spc = "openClient")' => Waits(req)' /\ \A i \in 1 .. Len(requests') : requests'[i] # req'
        BY <1>9, <2>2, <2>5, <2>8 DEF FS!CRequest, FS!server, FifoInv, FS!TypeOK, OneRequest
      <3> QED
        BY <3>2, <3>3, <3>4, Zenon DEF OneRequest
    <2> QED
      BY <2>1, <2>6, <2>9, Zenon DEF FifoInv
  <1>10. ASSUME NEW c \in Client, FS!CRequestFails(c) \/ FS!COpen(c) \/ FS!COpenFails(c)
         PROVE  FifoInv'
    <2>1. (PastLives /\ FS!RangesDisjoint)'
      BY <1>10, RangesUnchanged, Zenon DEF FS!CRequestFails, FS!COpen, FS!COpenFails, FS!fifos,
                                    FS!server
    <2>2. requests' = requests \/ requests' = <<>>
      BY <1>10, Zenon DEF FS!CRequestFails, FS!COpen, FS!COpenFails, FS!LeaveServerFifo, FS!fifos
    <2>6. requests' \in Seq(Client)
      <3>1. <<>> \in Seq(Client) /\ requests \in Seq(Client)
        BY DEF FifoInv, FS!TypeOK
      <3> QED
        BY <2>2, <3>1, Zenon
    <2>7. (FS!TypeOK /\ LivesLeft)'
      BY <1>10, <2>6, Zenon DEF FS!CRequestFails, FS!COpen, FS!COpenFails, FS!removeFifo, FS!CGoto,
                         FS!fifos, FS!server, FifoInv, FS!TypeOK, LivesLeft, FS!ClientPC
    <2>3. OwnFifo'
      BY <1>10, Zenon DEF FS!CRequestFails, FS!COpen, FS!COpenFails, FS!removeFifo, FS!CGoto, FS!fifos,
                   FifoInv, FS!TypeOK, OwnFifo
    <2>4. \A d \in Client : Waits(d) => Waits(d)'
      BY <1>10, Zenon DEF FS!CRequestFails, FS!COpen, FS!COpenFails, FS!removeFifo, FS!CGoto, FS!fifos,
                   FifoInv, FS!TypeOK, Waits
    <2>5. OneRequest'
      BY <1>10, <2>2, <2>4, RequestsKept DEF FS!CRequestFails, FS!COpen, FS!COpenFails,
                                             FS!fifos, FS!server
    <2> QED
      BY <2>1, <2>3, <2>5, <2>7, Zenon DEF FifoInv
  <1>11. ASSUME NEW c \in Client, FS!CRead(c) \/ FS!CReadFails(c) \/ FS!CKill(c)
         PROVE  FifoInv'
    <2>1. /\ requests' = requests \/ requests' = <<>>
          /\ UNCHANGED <<FS!server, svFifo, answered>>
      BY <1>11, Zenon DEF FS!CRead, FS!CReadFails, FS!CKill, FS!LeaveServerFifo
    <2>2. /\ resp' = resp \/ resp' = [resp EXCEPT ![c] = {}]
          /\ result' = result \/ result' = [result EXCEPT ![c] = resp[c]]
      BY <1>11, Zenon DEF FS!CRead, FS!CReadFails, FS!CKill
    <2>3. \A d \in Client : FS!Given(d)' \subseteq FS!Given(d)
      BY <2>2 DEF FS!Given, FifoInv, FS!TypeOK
    <2>4. (PastLives /\ FS!RangesDisjoint)'
      BY <2>1, <2>3, RangesKept, Zenon DEF FS!server
    <2>5. /\ resp' \in [Client -> SUBSET ((1 .. MaxLives) \X Nat)]
          /\ result' \in [Client -> SUBSET ((1 .. MaxLives) \X Nat)]
      BY <2>2, Zenon DEF FifoInv, FS!TypeOK
    <2>9. requests' \in Seq(Client)
      <3>1. <<>> \in Seq(Client) /\ requests \in Seq(Client)
        BY DEF FifoInv, FS!TypeOK
      <3> QED
        BY <2>1, <3>1, Zenon
    <2>6. (FS!TypeOK /\ LivesLeft)'
      BY <1>11, <2>1, <2>5, <2>9, Zenon DEF FS!CRead, FS!CReadFails, FS!CKill, FS!removeFifo, FS!CGoto,
                                     FS!server, FifoInv, FS!TypeOK, LivesLeft, FS!ClientPC
    <2>10. OwnFifo'
      BY <1>11 DEF FS!CRead, FS!CReadFails, FS!CKill, FS!removeFifo, FS!CGoto, FifoInv,
                   FS!TypeOK, OwnFifo
    <2>7. \A d \in Client : Waits(d) => Waits(d)'
      BY <1>11, Zenon DEF FS!CRead, FS!CReadFails, FS!CKill, FS!removeFifo, FS!CGoto, FifoInv,
                   FS!TypeOK, Waits
    <2>8. OneRequest'
      BY <2>1, <2>7, RequestsKept, Zenon DEF FS!server
    <2> QED
      BY <2>4, <2>6, <2>8, <2>10, Zenon DEF FifoInv
  <1>12. CASE UNCHANGED fsVars
    <2>1. (PastLives /\ FS!RangesDisjoint)'
      BY <1>12, RangesUnchanged, Zenon DEF fsVars
    <2>2. (FS!TypeOK /\ LivesLeft /\ OneRequest /\ OwnFifo)'
      BY <1>12, Zenon DEF fsVars, FifoInv, FS!TypeOK, LivesLeft, OneRequest, OwnFifo, Waits
    <2> QED
      BY <2>1, <2>2, Zenon DEF FifoInv
  <1> QED
    BY <1>1, <1>2, <1>3, <1>4, <1>5, <1>6, <1>7, <1>8, <1>9, <1>10, <1>11, <1>12, Zenon
       DEF FS!Next, FS!ServerStep, FS!ClientStep

-----------------------------------------------------------------------------
(* A step of the suite is one of the program that runs, or changes nothing *)
(* of it.                                                                  *)
LEMMA SysIsSem == [SysNext]_sysVars => [SI!Next]_siVars
  BY Zenon DEF SysNext, sysVars, Writes, Reads, SemStep, SemKill, FifoFrame, FifoServer, FifoClient,
         FifoFault, SI!Next, siVars

(* The same for the FIFOs. *)
LEMMA SysIsFifo == [SysNext]_sysVars => [FS!Next]_fsVars
  BY Zenon DEF SysNext, sysVars, Writes, Reads, SemStep, SemKill, FifoFrame, FifoServer, FifoClient,
         FifoFault, FS!Next, fsVars

(* SemInv holds in all runs of the suite. *)
LEMMA SysSemInv == SysSpec => []SemInv
  <1>1. SysInit => SemInv
    BY SemInit0, Zenon DEF SysInit
  <1>2. SemInv /\ [SysNext]_sysVars => SemInv'
    BY SysIsSem, SemNext, Zenon
  <1> QED
    BY <1>1, <1>2, PTL DEF SysSpec

(* FifoInv holds in all runs of the suite. *)
LEMMA SysFifoInv == SysSpec => []FifoInv
  <1>1. SysInit => FifoInv
    BY FifoInit, Zenon DEF SysInit
  <1>2. FifoInv /\ [SysNext]_sysVars => FifoInv'
    BY SysIsFifo, FifoNext, Zenon
  <1> QED
    BY <1>1, <1>2, PTL DEF SysSpec

(* svsem_good_init: the creator's semop(), which waits for 0, never waits, *)
(* for any number of processes, operations and kills.                      *)
THEOREM CreatorPasses == SysSpec => []NoOpNeverBlocks
  <1>1. SemInv => NoOpNeverBlocks
    BY Zenon DEF SemInv, Protocol, NoOpNeverBlocks, SI!NoOpNeverBlocks, SI!SemopReady
  <1> QED
    BY <1>1, SysSemInv, PTL

(* svsem_good_init: no operation is lost, the value is the sum of all that *)
(* were done; svsem_bad_init: only those before the creator's SETVAL are.  *)
THEOREM NothingWipedOut == SysSpec => []OpsAccounted
  <1>1. SysInit => Accounted
    <2>1. Sum(SemOp, {}) = 0
      BY SumEmpty, Zenon
    <2>2. SysInit => semval = 0 /\ added = {} /\ creator = {}
      BY Zenon DEF SysInit, SI!Init
    <2> QED
      BY <2>1, <2>2, Zenon DEF Accounted, Holds
  <1>2. SemInv /\ Accounted /\ [SysNext]_sysVars => Accounted'
    BY SysIsSem, AccountNext, Zenon
  <1> QED
    BY <1>1, <1>2, SysSemInv, AccountedSame, PTL DEF SysSpec

(* fifo_seqnum: no number is handed out twice by one server, for any       *)
(* number of clients and whatever is killed and restarted.                 *)
THEOREM NumbersUnique == SysSpec => []RangesDisjoint
  <1>1. FifoInv => RangesDisjoint
    BY Zenon DEF FifoInv, RangesDisjoint
  <1> QED
    BY <1>1, SysFifoInv, PTL

(* fifo_seqnum: the server looks in vain for the FIFO of a client only     *)
(* when that client has given up, never because it came too early or       *)
(* holds a request twice.                                                  *)
THEOREM FifoIsThere == SysSpec => []FifoBeforeRequest
  <1>1. FifoInv => FifoBeforeRequest
    BY Zenon DEF FifoInv, OneRequest, Waits, FifoBeforeRequest, FS!FifoBeforeRequest
  <1> QED
    BY <1>1, SysFifoInv, PTL

=============================================================================
