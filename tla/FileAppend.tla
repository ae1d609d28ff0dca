----------------------------- MODULE FileAppend -----------------------------
(***************************************************************************)
(* atomic_append: processes add to the end of one file.  With O_APPEND the *)
(* kernel finds the end and writes in one step; with the argument x the    *)
(* program seeks to the end first.  A byte of the file is known by its     *)
(* writer and number.  The exercise of chapter 5 is the case numBytes = 1, *)
(* with one large block for the byte.                                      *)
(***************************************************************************)
EXTENDS ToolParams, Sequences

VARIABLES
    useLseek,    \* the argument x, for each process
    apc,         \* where each process is
    off,         \* the offset of its descriptor
    j,           \* what it has written
    file
appVars == <<useLseek, apc, off, j, file>>

(* The file with byte b at offset o, which is at most its length. *)
WriteAt(o, b) == [i \in 1 .. (IF o = Len(file) THEN o + 1 ELSE Len(file)) |->
                     IF i = o + 1 THEN b ELSE file[i]]

(* The head of the loop, with n bytes written. *)
Loop(w, n) == apc' = [apc EXCEPT ![w] = IF n = numBytes THEN "done"
                                        ELSE IF useLseek[w] THEN "lseek" ELSE "write"]

Open(w) ==
    /\ apc[w] = "open" /\ Loop(w, 0)
    /\ UNCHANGED <<useLseek, off, j, file>>

Lseek(w) ==
    /\ apc[w] = "lseek" /\ apc' = [apc EXCEPT ![w] = "write"]
    /\ off' = [off EXCEPT ![w] = Len(file)]
    /\ UNCHANGED <<useLseek, j, file>>

(* Mutant: without lseek() the descriptor's own offset is used. *)
OffsetNoAppend(w) == off[w]

(* Where write() writes: O_APPEND is given when lseek() is not used. *)
Offset(w) == IF useLseek[w] THEN off[w] ELSE Len(file)

Write(w) ==
    /\ apc[w] = "write"
    /\ file' = WriteAt(Offset(w), <<w, j[w] + 1>>)
    /\ off' = [off EXCEPT ![w] = Offset(w) + 1]
    /\ j' = [j EXCEPT ![w] = @ + 1]
    /\ Loop(w, j[w] + 1)
    /\ UNCHANGED useLseek

(* A call fails: errExit(), fatal() *)
Fail(w) ==
    /\ apc[w] \in {"open", "lseek", "write"} /\ apc' = [apc EXCEPT ![w] = "failed"]
    /\ UNCHANGED <<useLseek, off, j, file>>

Init ==
    /\ useLseek \in [Writer -> BOOLEAN]
    /\ apc = [w \in Writer |-> "open"] /\ off = [w \in Writer |-> 0]
    /\ j = [w \in Writer |-> 0] /\ file = <<>>

Next == \E w \in Writer : Open(w) \/ Lseek(w) \/ Write(w) \/ Fail(w)
Spec == Init /\ [][Next]_appVars

(* What was written is in the file once, and each process's bytes in the   *)
(* order it wrote them, as long as no other process uses lseek(): one that *)
(* does can overwrite what others wrote since its lseek(), never its own   *)
(* bytes.                                                                  *)
AppendKeepsAll ==
    \A w \in Writer :
        (\A u \in Writer \ {w} : useLseek[u] => j[u] = 0) =>
            /\ \A k \in 1 .. j[w] : \E i \in 1 .. Len(file) : file[i] = <<w, k>>
            /\ \A i \in 1 .. Len(file) : file[i][1] = w => file[i][2] \in 1 .. j[w]
            /\ \A i, m \in 1 .. Len(file) :
                 i < m /\ file[i][1] = w /\ file[m][1] = w => file[i][2] < file[m][2]
=============================================================================
