------------------------------ MODULE LineRead ------------------------------
(***************************************************************************)
(* readLine(), readLineBuf() and readn() over a stream that gives its      *)
(* bytes in pieces, called until they return 0 or -1.  A byte is its       *)
(* position in the stream; newlines is the set of positions of newlines.   *)
(***************************************************************************)
EXTENDS ToolParams, Integers, Sequences

VARIABLES
    fn,           \* the function that is called
    n,            \* the size of the caller's buffer
    streamLen, newlines,
    got,          \* bytes read() has given so far
    left,         \* bytes of rlbuf->buf that are not yet used (len - next)
    out,          \* the caller's buffer, in the current call
    results,      \* what the calls returned
    fpc           \* "call", or why the caller stopped: "eof" (0), "error" (-1)
lineVars == <<fn, n, streamLen, newlines, got, left, out, results, fpc>>
input == <<fn, n, streamLen, newlines>>

Min2(a, b) == IF a < b THEN a ELSE b
Bytes(from, to) == [i \in 1 .. to - from |-> from + i]

(* The function returns what is in the buffer; the caller stops at 0. *)
ReturnWith(o) ==
    IF o = <<>> THEN fpc' = "eof" /\ out' = o /\ UNCHANGED results
    ELSE results' = Append(results, o) /\ out' = <<>> /\ UNCHANGED fpc

(* Excess bytes are discarded. *)
Store(b, max) ==
    LET o == IF Len(out) < max THEN Append(out, b) ELSE out
    IN  IF b \in newlines THEN ReturnWith(o) ELSE out' = o /\ UNCHANGED <<results, fpc>>

(* n = 0 is an error, except for readn(). *)
Reject ==
    /\ fpc = "call" /\ n = 0 /\ fpc' = IF fn = "readn" THEN "eof" ELSE "error"
    /\ UNCHANGED <<input, got, left, out, results>>

(* Mutant: the last byte of the buffer is not kept for the terminator. *)
readLineFull ==
    /\ fpc = "call" /\ fn = "readLine" /\ n > 0 /\ got < streamLen
    /\ got' = got + 1 /\ Store(got + 1, n)
    /\ UNCHANGED <<input, left>>

(* readLine() reads one byte at a time; EINTR only makes it repeat. *)
readLine ==
    /\ fpc = "call" /\ fn = "readLine" /\ n > 0 /\ got < streamLen
    /\ got' = got + 1 /\ Store(got + 1, n - 1)
    /\ UNCHANGED <<input, left>>

(* readLineBuf() fills its own buffer when that is used up, ... *)
Fill ==
    /\ fpc = "call" /\ fn = "readLineBuf" /\ n > 0 /\ left = 0 /\ got < streamLen
    /\ \E k \in 1 .. Min2(BufSize, streamLen - got) : got' = got + k /\ left' = k
    /\ UNCHANGED <<input, out, results, fpc>>

(* ... and takes from it. *)
readLineBuf ==
    /\ fpc = "call" /\ fn = "readLineBuf" /\ n > 0 /\ left > 0
    /\ left' = left - 1 /\ Store(got - left + 1, n)
    /\ UNCHANGED <<input, got>>

readn ==
    /\ fpc = "call" /\ fn = "readn" /\ got < streamLen
    /\ \E k \in 1 .. Min2(n - Len(out), streamLen - got) :
         LET o == out \o Bytes(got, got + k)
         IN  /\ got' = got + k
             /\ IF Len(o) = n THEN ReturnWith(o) ELSE out' = o /\ UNCHANGED <<results, fpc>>
    /\ UNCHANGED <<input, left>>

(* read() returns 0. *)
AtEnd ==
    /\ fpc = "call" /\ n > 0 /\ got = streamLen /\ left = 0
    /\ ReturnWith(out)
    /\ UNCHANGED <<input, got, left>>

(* read() fails; readLineBuf() takes EINTR for a failure. *)
Fail ==
    /\ fpc = "call" /\ n > 0 /\ left = 0 /\ fpc' = "error"
    /\ UNCHANGED <<input, got, left, out, results>>

Init ==
    /\ fn \in {"readLine", "readLineBuf", "readn"} /\ n \in 0 .. MaxLen
    /\ streamLen \in 0 .. MaxLen + 1 /\ newlines \in SUBSET (1 .. streamLen)
    /\ got = 0 /\ left = 0 /\ out = <<>> /\ results = <<>> /\ fpc = "call"

Next == Reject \/ readLine \/ Fill \/ readLineBuf \/ readn \/ AtEnd \/ Fail
Spec == Init /\ [][Next]_lineVars

-----------------------------------------------------------------------------
(* The last byte of the piece that begins with byte b: a newline, or the   *)
(* n-th byte of a block, or the end of the stream                          *)
EndOf(b) ==
    IF fn = "readn" THEN Min2(b - 1 + n, streamLen)
    ELSE CHOOSE e \in b .. streamLen : /\ e = streamLen \/ e \in newlines
                                       /\ \A d \in b .. e - 1 : d \notin newlines

(* The first byte of the i-th piece: it follows on the one before. *)
First(i) == IF i = 1 THEN 1 ELSE EndOf(results[i - 1][1]) + 1
Room == IF fn = "readLine" THEN n - 1 ELSE n

(* The calls return the pieces of the stream one after the other, cut to   *)
(* the size of the buffer; the rest of a line is never taken for the next  *)
(* one.  The last call returns 0 after all of them, unless the buffer of   *)
(* readLine() has no room for a byte.                                      *)
PiecesInOrder ==
    /\ \A i \in 1 .. Len(results) :
         results[i] = Bytes(First(i) - 1, Min2(EndOf(First(i)), First(i) - 1 + Room))
    /\ fpc = "eof" /\ Room > 0 => First(Len(results) + 1) = streamLen + 1
=============================================================================
