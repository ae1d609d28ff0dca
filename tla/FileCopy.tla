------------------------------ MODULE FileCopy ------------------------------
(***************************************************************************)
(* The programs that copy: copy (copy_sync is copy with O_SYNC), a loop of *)
(* reads and writes; cp-holes, with a buffer as large as the file; and     *)
(* tee-practice, with one read of its input.  The bytes of the source are  *)
(* numbered; Old is a byte the target had before, Nul the terminator that  *)
(* tee-practice puts behind its input, Unset one the program never set.    *)
(***************************************************************************)
EXTENDS ToolParams, Integers, Sequences

VARIABLES
    cprog,       \* "copy", "cp-holes", "tee", or "tee-a"
    cpc,
    source, target, stdout,
    rdOff, wrOff,
    buffer, numRead,
    oldLen,      \* history: the length the target had
    short        \* history: a write() wrote less than it was given
copyVars == <<cprog, cpc, source, target, stdout, rdOff, wrOff, buffer, numRead, oldLen, short>>

Old == -1
Nul == -2
Unset == -3

isTee == cprog \in {"tee", "tee-a"}
Least(a, b) == IF a < b THEN a ELSE b
Most(a, b) == IF a < b THEN b ELSE a
Fill(n, b) == [i \in 1 .. n |-> b]

Overwrite(t, o, b) == [i \in 1 .. Most(Len(t), o + Len(b)) |->
                          IF i > o /\ i <= o + Len(b) THEN b[i - o] ELSE t[i]]

(* BUF_SIZE and MAX_READ, or, with cp-holes, tgtEnd from lseek() *)
Size == IF cprog = "cp-holes" THEN Len(source) ELSE BufSize

(* Mutant: without O_TRUNC. *)
OpenKeeps ==
    /\ cpc = "open" /\ cpc' = "read"
    /\ buffer' = Fill(Size, Unset)
    /\ UNCHANGED <<cprog, source, target, stdout, rdOff, wrOff, numRead, oldLen, short>>

(* The files are opened; only copy has O_TRUNC. *)
Open ==
    /\ cpc = "open" /\ cpc' = "read"
    /\ target' = IF cprog = "copy" THEN <<>> ELSE target
    /\ buffer' = Fill(Size, Unset)
    /\ UNCHANGED <<cprog, source, stdout, rdOff, wrOff, numRead, oldLen, short>>

(* read(): nothing only at the end.  A terminal or a pipe may give less    *)
(* than was asked for; the source of cp-holes is a file, as it seeks.      *)
Read ==
    /\ cpc = "read"
    /\ LET most == Least(Size, Len(source) - rdOff)
       IN  \E n \in (IF cprog = "cp-holes" \/ most = 0 THEN {most} ELSE 1 .. most) :
             /\ numRead' = n /\ rdOff' = rdOff + n
             /\ buffer' = [i \in 1 .. Size |->
                              IF i <= n THEN source[rdOff + i]
                              ELSE IF isTee /\ i = n + 1 THEN Nul ELSE buffer[i]]
             /\ cpc' = IF isTee THEN "echo" ELSE IF n = 0 THEN "close" ELSE "write"
    /\ UNCHANGED <<cprog, source, target, stdout, wrOff, oldLen, short>>

(* What write() is given to write: only copy looks at numRead. *)
WriteLength == IF cprog = "copy" THEN numRead ELSE Size

(* write() writes n bytes: all or, on a full disk, some. *)
Lengths == {n \in {WriteLength, WriteLength - 1} : n > 0}

(* tee-practice writes to its standard output first. *)
Echo ==
    /\ cpc = "echo" /\ cpc' = "write"
    /\ \E n \in Lengths : stdout' = SubSeq(buffer, 1, n)
    /\ UNCHANGED <<cprog, source, target, rdOff, wrOff, buffer, numRead, oldLen, short>>

(* copy compares the length written; the others only look for an error. *)
Write ==
    /\ cpc = "write"
    /\ \E n \in Lengths :
         LET o == IF cprog = "tee-a" THEN Len(target) ELSE wrOff
         IN  /\ target' = Overwrite(target, o, SubSeq(buffer, 1, n))
             /\ wrOff' = o + n
             /\ short' = (short \/ n < WriteLength)
             /\ cpc' = IF cprog = "copy" /\ n # numRead THEN "failed"
                       ELSE IF isTee THEN "success" ELSE "read"
    /\ UNCHANGED <<cprog, source, stdout, rdOff, buffer, numRead, oldLen>>

Close ==
    /\ cpc = "close" /\ cpc' = "success"
    /\ UNCHANGED <<cprog, source, target, stdout, rdOff, wrOff, buffer, numRead, oldLen, short>>

(* A call returns -1: errExit(), fatal() *)
Fail ==
    /\ cpc \notin {"success", "failed"} /\ cpc' = "failed"
    /\ UNCHANGED <<cprog, source, target, stdout, rdOff, wrOff, buffer, numRead, oldLen, short>>

Init ==
    /\ cprog \in {"copy", "cp-holes", "tee", "tee-a"} /\ cpc = "open"
    /\ \E n \in 0 .. MaxLen : source = [i \in 1 .. n |-> i]
    /\ oldLen \in 0 .. MaxLen /\ target = Fill(oldLen, Old)
    /\ stdout = <<>> /\ buffer = <<>>
    /\ rdOff = 0 /\ wrOff = 0 /\ numRead = 0 /\ short = FALSE

Next == Open \/ Read \/ Echo \/ Write \/ Close \/ Fail
Spec == Init /\ [][Next]_copyVars

(* A copy that ends with success is the source, whatever the lengths read  *)
(* and written.  cp-holes, which does not look at the length written, says *)
(* so only when all was written, and leaves the end of a longer target.    *)
(* tee-practice always adds MAX_READ bytes: its input, a terminator, and   *)
(* what happens to be in the buffer.                                       *)
SuccessIsCopy ==
    cpc = "success" =>
      /\ cprog = "copy" => target = source
      /\ cprog = "cp-holes" /\ ~short =>
           target = source \o Fill(Most(0, oldLen - Len(source)), Old)
      /\ isTee /\ ~short =>
           LET base == IF cprog = "tee" THEN 0 ELSE oldLen
           IN  /\ Len(target) = Most(oldLen, base + BufSize)
               /\ SubSeq(target, base + 1, base + numRead) = SubSeq(source, 1, numRead)
               /\ numRead < BufSize => target[base + numRead + 1] = Nul
               /\ \A i \in 1 .. base : target[i] = Old
=============================================================================
