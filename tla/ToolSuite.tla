----------------------------- MODULE ToolSuite ------------------------------
(***************************************************************************)
(* The programs that stand alone.  Each of them is followed by its         *)
(* inductive invariant XXInv and the lemmas XXInit, XXNext and XXMeans: the *)
(* invariant holds at the start, every step keeps it, and it implies what  *)
(* is claimed.  They hold for all files, buffers, streams, access control  *)
(* lists, writers, clients and directories.                                *)
(*                                                                         *)
(* Then come the system in which one of the programs is run, its           *)
(* properties, and the theorems: the invariants of the programs make one   *)
(* of the system.  In the run, three processes start the program with a    *)
(* PID file, so that one is refused while another ends; two writers write  *)
(* twice; files of up to three bytes are copied with a buffer of two; lists *)
(* of one entry more than there may be are given for two files; two        *)
(* directories, and a SIGINT at any time; streams of up to four bytes; two *)
(* clients, so that one waits while the other is served.                   *)
(***************************************************************************)
EXTENDS ToolParams, Integers, Sequences, TLAPS

-----------------------------------------------------------------------------
(* FileCopy: copy, copy_sync, cp-holes, tee-practice *)

VARIABLES
    cprog, cpc, source, target, stdout, rdOff, wrOff, buffer, numRead, oldLen, short

FC == INSTANCE FileCopy

FCTyped ==
    /\ cprog \in {"copy", "cp-holes", "tee", "tee-a"}
    /\ cpc \in {"open", "read", "echo", "write", "close", "success", "failed"}
    /\ source \in Seq(Int) /\ target \in Seq(Int) /\ buffer \in Seq(Int)
    /\ rdOff \in Nat /\ rdOff <= Len(source) /\ wrOff \in Nat /\ numRead \in Nat /\ oldLen \in Nat

Fresh == target = FC!Fill(oldLen, FC!Old) /\ rdOff = 0 /\ wrOff = 0
Copied == Len(target) = wrOff /\ wrOff <= Len(source) /\ \A i \in 1 .. wrOff : target[i] = source[i]
Took(o) == /\ Len(buffer) = FC!Size /\ numRead <= FC!Size /\ o + numRead = rdOff
           /\ \A i \in 1 .. numRead : buffer[i] = source[o + i]
Whole == source \o FC!Fill(FC!Most(0, oldLen - Len(source)), FC!Old)
Base == IF cprog = "tee" THEN 0 ELSE oldLen

FCCopy ==
    cprog = "copy" =>
      /\ cpc = "open" => Fresh
      /\ cpc # "echo"
      /\ cpc = "read" => Copied /\ wrOff = rdOff /\ Len(buffer) = FC!Size
      /\ cpc = "write" => Copied /\ Took(wrOff) /\ numRead > 0
      /\ cpc \in {"close", "success"} => Copied /\ wrOff = Len(source)

FCHoles ==
    cprog = "cp-holes" =>
      /\ cpc = "open" => Fresh
      /\ cpc # "echo"
      /\ cpc = "read" => /\ Len(buffer) = FC!Size
                         /\ Fresh \/ (rdOff = Len(source) /\ (~short => target = Whole))
      /\ cpc = "write" => target = FC!Fill(oldLen, FC!Old) /\ wrOff = 0 /\ Took(0) /\ numRead = FC!Size
      /\ cpc \in {"close", "success"} => (~short => target = Whole)

FCTee ==
    FC!isTee =>
      /\ cpc = "open" => Fresh
      /\ cpc = "read" => Fresh /\ Len(buffer) = FC!Size
      /\ cpc \in {"echo", "write"} =>
           /\ target = FC!Fill(oldLen, FC!Old) /\ wrOff = 0 /\ Took(0)
           /\ numRead < BufSize => buffer[numRead + 1] = FC!Nul
      /\ cpc # "close"
      /\ cpc = "success" /\ ~short =>
           /\ Len(target) = FC!Most(oldLen, Base + BufSize)
           /\ numRead <= BufSize /\ numRead <= Len(source)
           /\ \A i \in 1 .. numRead : target[Base + i] = source[i]
           /\ numRead < BufSize => target[Base + numRead + 1] = FC!Nul
           /\ \A i \in 1 .. Base : target[i] = FC!Old

FCInv == FCTyped /\ FCCopy /\ FCHoles /\ FCTee

(* A sequence of equal bytes. *)
LEMMA FillIs ==
    ASSUME NEW m \in Nat, NEW b \in Int
    PROVE  FC!Fill(m, b) \in Seq(Int) /\ Len(FC!Fill(m, b)) = m /\ \A i \in 1 .. m : FC!Fill(m, b)[i] = b
  <1>1. FC!Fill(m, b) \in [1 .. m -> Int] /\ \A i \in 1 .. m : FC!Fill(m, b)[i] = b
    BY Zenon DEF FC!Fill
  <1> QED
    BY <1>1

(* The bytes of a part of a sequence. *)
LEMMA SubIs ==
    ASSUME NEW s \in Seq(Int), NEW m \in Nat, m <= Len(s), NEW o \in Nat, o <= m
    PROVE  /\ SubSeq(s, o + 1, m) \in Seq(Int) /\ Len(SubSeq(s, o + 1, m)) = m - o
           /\ \A i \in 1 .. m - o : SubSeq(s, o + 1, m)[i] = s[o + i]
  <1>1. Len(s) \in Nat /\ m - o \in Nat /\ m - (o + 1) + 1 = m - o
    OBVIOUS
  <1>2. SubSeq(s, o + 1, m) \in Seq(Int)
    BY <1>1
  <1>3. Len(SubSeq(s, o + 1, m)) = m - o
    BY <1>1
  <1>4. ASSUME NEW i \in 1 .. m - o PROVE SubSeq(s, o + 1, m)[i] = s[o + i]
    BY <1>1, <1>4
  <1> QED
    BY <1>2, <1>3, <1>4

(* Sequences with the same bytes are the same. *)
LEMMA SameSeq ==
    ASSUME NEW s \in Seq(Int), NEW t \in Seq(Int), Len(s) = Len(t), \A i \in 1 .. Len(s) : s[i] = t[i]
    PROVE  s = t
  BY SMTT(30)

(* The elements of a concatenation. *)
LEMMA Joined ==
    ASSUME NEW T, NEW s \in Seq(T), NEW t \in Seq(T)
    PROVE  /\ s \o t \in Seq(T) /\ Len(s \o t) = Len(s) + Len(t)
           /\ \A i \in 1 .. Len(s \o t) : (s \o t)[i] = IF i <= Len(s) THEN s[i] ELSE t[i - Len(s)]
  OBVIOUS

(* What write() at an offset leaves in a file. *)
LEMMA OverIs ==
    ASSUME NEW t \in Seq(Int), NEW b \in Seq(Int), NEW o \in Nat, o <= Len(t)
    PROVE  /\ FC!Overwrite(t, o, b) \in Seq(Int)
           /\ Len(FC!Overwrite(t, o, b)) = FC!Most(Len(t), o + Len(b))
           /\ \A i \in 1 .. Len(b) : FC!Overwrite(t, o, b)[o + i] = b[i]
           /\ \A i \in 1 .. Len(t) : i <= o \/ i > o + Len(b) => FC!Overwrite(t, o, b)[i] = t[i]
  <1> DEFINE L == FC!Most(Len(t), o + Len(b))
             w == FC!Overwrite(t, o, b)
  <1>1. Len(t) \in Nat /\ Len(b) \in Nat
    OBVIOUS
  <1>2. L \in Nat /\ Len(t) <= L /\ o + Len(b) <= L
    BY <1>1 DEF FC!Most
  <1>3. \A i \in 1 .. L : i > o /\ i <= o + Len(b) => i - o \in 1 .. Len(b)
    BY <1>1, <1>2
  <1>4. \A i \in 1 .. L : ~(i > o /\ i <= o + Len(b)) => i \in 1 .. Len(t)
    BY <1>1, <1>2 DEF FC!Most
  <1>5. w = [i \in 1 .. L |-> IF i > o /\ i <= o + Len(b) THEN b[i - o] ELSE t[i]]
    BY Zenon DEF FC!Overwrite
  <1>6. w \in [1 .. L -> Int]
    <2> SUFFICES ASSUME NEW i \in 1 .. L PROVE (IF i > o /\ i <= o + Len(b) THEN b[i - o] ELSE t[i]) \in Int
      BY <1>5, Zenon
    <2> QED
      BY <1>3, <1>4
  <1>7. w \in Seq(Int) /\ Len(w) = L
    BY <1>2, <1>6
  <1>8. ASSUME NEW i \in 1 .. Len(b) PROVE w[o + i] = b[i]
    <2>1. o + i \in 1 .. L /\ o + i > o /\ o + i <= o + Len(b) /\ (o + i) - o = i
      BY <1>1, <1>2
    <2> QED
      BY <1>5, <2>1, Zenon
  <1>9. ASSUME NEW i \in 1 .. Len(t), i <= o \/ i > o + Len(b) PROVE w[i] = t[i]
    <2>1. i \in 1 .. L /\ ~(i > o /\ i <= o + Len(b))
      BY <1>1, <1>2, <1>9
    <2> QED
      BY <1>5, <2>1, Zenon
  <1> QED
    BY <1>7, <1>8, <1>9, Zenon

(* The target has its old bytes. *)
LEMMA FCInit == FC!Init => FCInv
  <1> SUFFICES ASSUME FC!Init PROVE FCInv BY Zenon
  <1>1. PICK k \in 0 .. MaxLen : source = [i \in 1 .. k |-> i]
    BY Zenon DEF FC!Init
  <1>2. source \in Seq(Int) /\ Len(source) \in Nat
    BY <1>1, BoundAssumption
  <1>0. /\ cprog \in {"copy", "cp-holes", "tee", "tee-a"} /\ cpc = "open"
        /\ oldLen \in 0 .. MaxLen /\ target = FC!Fill(oldLen, FC!Old) /\ buffer = <<>>
        /\ rdOff = 0 /\ wrOff = 0 /\ numRead = 0
    BY Zenon DEF FC!Init
  <1>3. oldLen \in Nat /\ FC!Old \in Int
    BY <1>0, BoundAssumption DEF FC!Old
  <1>4. target \in Seq(Int)
    BY <1>0, <1>3, FillIs, Zenon
  <1>5. FCTyped
    BY <1>0, <1>2, <1>3, <1>4 DEF FCTyped
  <1>6. Fresh
    BY <1>0, Zenon DEF Fresh
  <1> QED
    BY <1>0, <1>5, <1>6, Zenon DEF FCInv, FCCopy, FCHoles, FCTee

(* The size of the buffer. *)
LEMMA SizeIs ==
    ASSUME FCTyped
    PROVE  /\ FC!Size \in Nat /\ (cprog # "cp-holes" => FC!Size = BufSize /\ FC!Size > 0)
           /\ (cprog = "cp-holes" => FC!Size = Len(source))
  BY BoundAssumption DEF FCTyped, FC!Size

(* read(), of any length, keeps FCInv. *)
LEMMA FCRead == FCInv /\ FC!Read => FCInv'
  <1> SUFFICES ASSUME FCInv, FC!Read PROVE FCInv' BY Zenon
  <1> USE DEF FCInv
  <1> DEFINE most == FC!Least(FC!Size, Len(source) - rdOff)
  <1>1. PICK k \in (IF cprog = "cp-holes" \/ most = 0 THEN {most} ELSE 1 .. most) :
            /\ numRead' = k /\ rdOff' = rdOff + k
            /\ buffer' = [i \in 1 .. FC!Size |->
                              IF i <= k THEN source[rdOff + i]
                              ELSE IF FC!isTee /\ i = k + 1 THEN FC!Nul ELSE buffer[i]]
            /\ cpc' = IF FC!isTee THEN "echo" ELSE IF k = 0 THEN "close" ELSE "write"
    BY Zenon DEF FC!Read
  <1>2. cpc = "read" /\ UNCHANGED <<cprog, source, target, stdout, wrOff, oldLen, short>>
    BY Zenon DEF FC!Read
  <1>3. FC!Size \in Nat /\ Len(source) \in Nat /\ rdOff \in Nat /\ rdOff <= Len(source)
    BY SizeIs DEF FCTyped
  <1>4. /\ k \in Nat /\ k <= FC!Size /\ rdOff + k <= Len(source)
        /\ k = 0 => FC!Size = 0 \/ rdOff = Len(source)
        /\ cprog = "cp-holes" /\ rdOff = 0 => k = FC!Size
        /\ cprog = "cp-holes" /\ rdOff = Len(source) => k = 0
    BY <1>1, <1>3, SizeIs DEF FC!Least
  <1>5. FC!Size' = FC!Size /\ FC!isTee' = FC!isTee /\ Len(buffer) = FC!Size
    BY <1>2, Zenon DEF FC!Size, FC!isTee, FCCopy, FCHoles, FCTee, FCTyped
  <1>6. buffer' \in [1 .. FC!Size -> Int]
    <2> SUFFICES ASSUME NEW i \in 1 .. FC!Size
                 PROVE  (IF i <= k THEN source[rdOff + i]
                         ELSE IF FC!isTee /\ i = k + 1 THEN FC!Nul ELSE buffer[i]) \in Int
      BY <1>1, Zenon
    <2>1. ASSUME i <= k PROVE source[rdOff + i] \in Int
      <3>1. rdOff + i \in 1 .. Len(source)
        BY <1>3, <1>4, <2>1
      <3> QED
        BY <3>1 DEF FCTyped
    <2>2. buffer[i] \in Int
      BY <1>5 DEF FCTyped
    <2>3. FC!Nul \in Int
      BY DEF FC!Nul
    <2> QED
      BY <2>1, <2>2, <2>3, Zenon
  <1>7. buffer' \in Seq(Int) /\ Len(buffer') = FC!Size
    BY <1>3, <1>6
  <1>8. \A i \in 1 .. k : buffer'[i] = source[rdOff + i]
    <2> SUFFICES ASSUME NEW i \in 1 .. k PROVE buffer'[i] = source[rdOff + i] BY Zenon
    <2>1. i \in 1 .. FC!Size /\ i <= k
      BY <1>3, <1>4
    <2> QED
      BY <1>1, <2>1, Zenon
  <1>9. FC!isTee /\ k < FC!Size => buffer'[k + 1] = FC!Nul
    <2> SUFFICES ASSUME FC!isTee, k < FC!Size PROVE buffer'[k + 1] = FC!Nul BY Zenon
    <2>1. k + 1 \in 1 .. FC!Size /\ ~(k + 1 <= k)
      BY <1>3, <1>4
    <2> QED
      BY <1>1, <2>1, Zenon
  <1>10. FCTyped'
    <2>1. cpc' \in {"echo", "close", "write"}
      BY <1>1, Zenon
    <2> QED
      BY <1>1, <1>2, <1>3, <1>4, <1>7, <2>1 DEF FCTyped
  <1>11. ASSUME NEW o \in Nat, o = rdOff PROVE Took(o)'
    BY <1>1, <1>2, <1>4, <1>5, <1>7, <1>8, <1>11, Zenon DEF Took
  <1>12. FCCopy'
    <2> SUFFICES ASSUME cprog = "copy" PROVE FCCopy'
      BY <1>2, Zenon DEF FCCopy
    <2>1. Copied /\ wrOff = rdOff /\ ~FC!isTee
      BY <1>2, Zenon DEF FCCopy, FC!isTee
    <2>2. Copied' /\ wrOff' = wrOff
      BY <1>2, <2>1, Zenon DEF Copied
    <2>3. Took(wrOff)'
      BY <1>2, <1>3, <1>11, <2>1, Zenon
    <2>4. CASE k = 0
      <3>1. cpc' = "close" /\ wrOff' = Len(source')
        BY <1>1, <1>2, <1>4, <2>1, <2>4, SizeIs
      <3> QED
        BY <2>2, <3>1, Zenon DEF FCCopy
    <2>5. CASE k # 0
      <3>1. cpc' = "write" /\ numRead' > 0
        BY <1>1, <1>4, <2>1, <2>5
      <3> QED
        BY <2>2, <2>3, <3>1, Zenon DEF FCCopy
    <2> QED
      BY <2>4, <2>5, Zenon
  <1>13. FCHoles'
    <2> SUFFICES ASSUME cprog = "cp-holes" PROVE FCHoles'
      BY <1>2, Zenon DEF FCHoles
    <2>1. Fresh \/ (rdOff = Len(source) /\ (~short => target = Whole))
      BY <1>2, Zenon DEF FCHoles
    <2>0. ~FC!isTee /\ Whole' = Whole /\ FC!Fill(oldLen, FC!Old)' = FC!Fill(oldLen, FC!Old)
      BY <1>2, Zenon DEF Whole, FC!Fill, FC!isTee
    <2>2. CASE k = 0
      <3>1. cpc' = "close"
        BY <1>1, <2>0, <2>2, Zenon
      <3>2. ~short => target = Whole
        <4>1. CASE rdOff = Len(source) /\ (~short => target = Whole)
          BY <4>1, Zenon
        <4>2. CASE Fresh
          <5>1. Len(source) = 0 /\ target = FC!Fill(oldLen, FC!Old)
            BY <1>3, <1>4, <2>2, <4>2, SizeIs, Zenon DEF Fresh
          <5>2. FC!Most(0, oldLen - Len(source)) = oldLen
            BY <5>1 DEF FC!Most, FCTyped
          <5>3. target \in Seq(Int) /\ source = <<>>
            BY <5>1 DEF FCTyped
          <5> QED
            BY <5>1, <5>2, <5>3 DEF Whole
        <4> QED
          BY <2>1, <4>1, <4>2, Zenon
      <3> QED
        BY <1>2, <2>0, <3>1, <3>2, Zenon DEF FCHoles
    <2>3. CASE k # 0
      <3>1. Fresh
        BY <1>4, <2>1, <2>3, Zenon
      <3>2. cpc' = "write" /\ numRead' = FC!Size'
        BY <1>1, <1>4, <1>5, <2>0, <2>3, <3>1, Zenon DEF Fresh
      <3>3. Took(0)'
        BY <1>11, <3>1, Zenon DEF Fresh
      <3>4. target' = FC!Fill(oldLen, FC!Old)' /\ wrOff' = 0
        BY <1>2, <2>0, <3>1, Zenon DEF Fresh
      <3> QED
        BY <3>2, <3>3, <3>4, Zenon DEF FCHoles
    <2> QED
      BY <2>2, <2>3, Zenon
  <1>14. FCTee'
    <2> SUFFICES ASSUME FC!isTee PROVE FCTee'
      BY <1>5, Zenon DEF FCTee
    <2>1. Fresh
      BY <1>2, Zenon DEF FCTee
    <2>2. cpc' = "echo"
      BY <1>1, Zenon
    <2>3. Took(0)'
      BY <1>11, <2>1, Zenon DEF Fresh
    <2>4. target' = FC!Fill(oldLen, FC!Old)' /\ wrOff' = 0
      BY <1>2, <2>1, Zenon DEF Fresh, FC!Fill
    <2>5. numRead' < BufSize => buffer'[numRead' + 1] = FC!Nul
      BY <1>1, <1>9, SizeIs, Zenon DEF FC!isTee
    <2> QED
      BY <2>2, <2>3, <2>4, <2>5, Zenon DEF FCTee, FC!Nul
  <1> QED
    BY <1>10, <1>12, <1>13, <1>14, Zenon

(* write(), of any length, keeps FCInv. *)
LEMMA FCWrite == FCInv /\ FC!Write => FCInv'
  <1> SUFFICES ASSUME FCInv, FC!Write PROVE FCInv' BY Zenon
  <1> USE DEF FCInv
  <1> DEFINE o == IF cprog = "tee-a" THEN Len(target) ELSE wrOff
  <1>1. PICK k \in FC!Lengths :
             /\ target' = FC!Overwrite(target, o, SubSeq(buffer, 1, k))
             /\ wrOff' = o + k
             /\ short' = (short \/ k < FC!WriteLength)
             /\ cpc' = IF cprog = "copy" /\ k # numRead THEN "failed"
                       ELSE IF FC!isTee THEN "success" ELSE "read"
    BY Zenon DEF FC!Write
  <1>2. cpc = "write" /\ UNCHANGED <<cprog, source, stdout, rdOff, buffer, numRead, oldLen>>
    BY Zenon DEF FC!Write
  <1>3. /\ FC!Size \in Nat /\ Len(source) \in Nat /\ rdOff \in Nat /\ rdOff <= Len(source)
        /\ Len(target) \in Nat /\ Len(buffer) \in Nat /\ numRead \in Nat /\ wrOff \in Nat
    BY SizeIs DEF FCTyped
  <1>4. FC!Size' = FC!Size /\ FC!isTee' = FC!isTee /\ Len(buffer) = FC!Size /\ numRead <= FC!Size
    BY <1>2, Zenon DEF FC!Size, FC!isTee, Took, FCCopy, FCHoles, FCTee, FCTyped
  <1>5. FC!WriteLength \in Nat /\ k \in Nat /\ k > 0 /\ k <= FC!WriteLength /\ FC!WriteLength <= FC!Size
    BY <1>3, <1>4 DEF FC!Lengths, FC!WriteLength
  <1> DEFINE b == SubSeq(buffer, 1, k)
  <1>6. b \in Seq(Int) /\ Len(b) = k /\ \A i \in 1 .. k : b[i] = buffer[i]
    <2>1. k <= Len(buffer) /\ buffer \in Seq(Int)
      BY <1>3, <1>4, <1>5 DEF FCTyped
    <2> QED
      BY <1>5, <2>1
  <1>7. o \in Nat /\ o <= Len(target)
    <2>1. cprog # "tee-a" => wrOff <= Len(target)
      BY <1>2, <1>3 DEF FCCopy, FCHoles, FCTee, FCTyped, Copied, FC!isTee
    <2> QED
      BY <1>3, <2>1
  <1> HIDE DEF o, b
  <1>8. target \in Seq(Int)
    BY Zenon DEF FCTyped
  <1>9. /\ target' \in Seq(Int) /\ Len(target') = FC!Most(Len(target), o + k)
        /\ \A i \in 1 .. k : target'[o + i] = buffer[i]
        /\ \A i \in 1 .. Len(target) : i <= o \/ i > o + k => target'[i] = target[i]
    <2>1. target' = FC!Overwrite(target, o, b)
      BY <1>1, Zenon DEF o, b
    <2>2. /\ target' \in Seq(Int) /\ Len(target') = FC!Most(Len(target), o + Len(b))
          /\ \A i \in 1 .. Len(b) : target'[o + i] = b[i]
          /\ \A i \in 1 .. Len(target) : i <= o \/ i > o + Len(b) => target'[i] = target[i]
      BY <1>6, <1>7, <1>8, <2>1, OverIs, Zenon
    <2> QED
      BY <1>5, <1>6, <2>2, Zenon
  <1>10. wrOff' = o + k /\ wrOff' \in Nat
    BY <1>1, <1>5, <1>7 DEF o
  <1>11. FCTyped'
    <2>1. cpc' \in {"failed", "success", "read"}
      BY <1>1, Zenon
    <2> QED
      BY <1>2, <1>9, <1>10, <2>1, Zenon DEF FCTyped
  <1>12. ~short' => k = FC!WriteLength
    <2>1. ~short' => ~(k < FC!WriteLength)
      BY <1>1, Zenon
    <2> QED
      BY <1>5, <2>1
  <1>13. FCCopy'
    <2> SUFFICES ASSUME cprog = "copy" PROVE FCCopy'
      BY <1>2, Zenon DEF FCCopy
    <2>1. ~FC!isTee /\ FC!WriteLength = numRead /\ o = wrOff /\ Copied /\ Took(wrOff)
      BY <1>2, Zenon DEF FCCopy, FC!isTee, FC!WriteLength, o
    <2>2. CASE k # numRead
      <3>1. cpc' = "failed"
        BY <1>1, <2>2, Zenon
      <3> QED
        BY <3>1, Zenon DEF FCCopy
    <2>3. CASE k = numRead
      <3>1. cpc' = "read"
        BY <1>1, <2>1, <2>3, Zenon
      <3>2. wrOff' = rdOff' /\ wrOff' = wrOff + k /\ wrOff' <= Len(source)
        BY <1>2, <1>3, <1>5, <1>10, <2>1, <2>3, Zenon DEF Took
      <3>3. Len(target') = wrOff'
        BY <1>3, <1>5, <1>9, <2>1, <3>2 DEF Copied, FC!Most
      <3>4. ASSUME NEW i \in 1 .. wrOff' PROVE target'[i] = source[i]
        <4>1. CASE i <= wrOff
          <5>1. i \in 1 .. wrOff /\ i \in 1 .. Len(target)
            BY <1>3, <2>1, <4>1 DEF Copied
          <5>2. target'[i] = target[i]
            BY <1>9, <2>1, <4>1, <5>1, Zenon
          <5> QED
            BY <2>1, <5>1, <5>2, Zenon DEF Copied
        <4>2. CASE i > wrOff
          <5>1. i - wrOff \in 1 .. k /\ wrOff + (i - wrOff) = i
            BY <1>3, <1>5, <3>2, <4>2
          <5>2. target'[i] = buffer[i - wrOff]
            BY <1>9, <2>1, <5>1, Zenon
          <5>3. buffer[i - wrOff] = source[i]
            BY <2>1, <2>3, <5>1, Zenon DEF Took
          <5> QED
            BY <5>2, <5>3, Zenon
        <4> QED
          BY <1>3, <4>1, <4>2
      <3>5. Copied'
        BY <1>2, <3>2, <3>3, <3>4, Zenon DEF Copied
      <3>6. Len(buffer') = FC!Size'
        BY <1>2, <1>4, Zenon
      <3> QED
        BY <3>1, <3>2, <3>5, <3>6, Zenon DEF FCCopy
    <2> QED
      BY <2>2, <2>3, Zenon
  <1>14. FCHoles'
    <2> SUFFICES ASSUME cprog = "cp-holes" PROVE FCHoles'
      BY <1>2, Zenon DEF FCHoles
    <2>1. /\ ~FC!isTee /\ FC!WriteLength = FC!Size /\ o = 0 /\ target = FC!Fill(oldLen, FC!Old) /\ Took(0)
          /\ numRead = FC!Size /\ FC!Size = Len(source)
      BY <1>2, Zenon DEF FCHoles, FC!isTee, FC!WriteLength, FC!Size, o
    <2>2. cpc' = "read"
      BY <1>1, <2>1, Zenon
    <2>3. rdOff' = Len(source') /\ Len(buffer') = FC!Size'
      BY <1>2, <1>3, <1>4, <2>1 DEF Took
    <2>4. ASSUME ~short' PROVE target' = Whole
      <3>1. k = Len(source)
        BY <1>12, <2>1, <2>4, Zenon
      <3> DEFINE r == FC!Most(0, oldLen - Len(source))
      <3>2. oldLen \in Nat /\ r \in Nat /\ Len(source) + r = FC!Most(oldLen, Len(source)) /\ FC!Old \in Int
        BY <1>3 DEF FCTyped, FC!Most, FC!Old
      <3>3. FC!Fill(r, FC!Old) \in Seq(Int) /\ Len(FC!Fill(r, FC!Old)) = r /\ \A i \in 1 .. r : FC!Fill(r, FC!Old)[i] = FC!Old
        BY <3>2, FillIs, Zenon
      <3> HIDE DEF r
      <3>4. /\ Whole \in Seq(Int) /\ Len(Whole) = Len(source) + r
            /\ \A i \in 1 .. Len(Whole) : Whole[i] = IF i <= Len(source) THEN source[i] ELSE FC!Fill(r, FC!Old)[i - Len(source)]
        <4>1. Whole = source \o FC!Fill(r, FC!Old) /\ source \in Seq(Int)
          BY Zenon DEF Whole, r, FCTyped
        <4> QED
          BY <3>2, <3>3, <4>1, Joined, Zenon
      <3>5. Len(target) = oldLen /\ \A i \in 1 .. oldLen : target[i] = FC!Old
        BY <2>1, <3>2, FillIs, Zenon
      <3>6. Len(target') = Len(Whole)
        BY <1>3, <1>9, <2>1, <3>1, <3>2, <3>4, <3>5 DEF FC!Most
      <3>7. ASSUME NEW i \in 1 .. Len(target') PROVE target'[i] = Whole[i]
        <4>1. CASE i <= Len(source)
          <5>1. i \in 1 .. k /\ o + i = i /\ i \in 1 .. numRead /\ 0 + i = i
            BY <1>3, <2>1, <3>1, <4>1
          <5>2. target'[i] = buffer[i]
            BY <1>9, <5>1, Zenon
          <5>3. buffer[i] = source[i]
            BY <2>1, <5>1, Zenon DEF Took
          <5> QED
            BY <3>4, <3>6, <4>1, <5>2, <5>3, Zenon
        <4>2. CASE i > Len(source)
          <5>1. i \in 1 .. Len(target) /\ i > o + k /\ i - Len(source) \in 1 .. r
            BY <1>3, <2>1, <3>1, <3>2, <3>4, <3>5, <3>6, <4>2, SMTT(30) DEF FC!Most
          <5>2. target'[i] = target[i]
            BY <1>9, <5>1, Zenon
          <5>3. target[i] = FC!Old
            BY <3>5, <5>1, Zenon
          <5>4. Whole[i] = FC!Old
            BY <1>3, <3>3, <3>4, <3>6, <4>2, <5>1
          <5> QED
            BY <5>2, <5>3, <5>4, Zenon
        <4> QED
          BY <1>3, <4>1, <4>2
      <3> QED
        BY <1>9, <3>4, <3>6, <3>7, SameSeq, Zenon
    <2>5. Whole' = Whole
      BY <1>2, Zenon DEF Whole, FC!Fill
    <2> QED
      BY <2>2, <2>3, <2>4, <2>5, Zenon DEF FCHoles
  <1>15. FCTee'
    <2> SUFFICES ASSUME FC!isTee PROVE FCTee'
      BY <1>4, Zenon DEF FCTee
    <2>1. /\ target = FC!Fill(oldLen, FC!Old) /\ wrOff = 0 /\ Took(0)
          /\ numRead < BufSize => buffer[numRead + 1] = FC!Nul
      BY <1>2, Zenon DEF FCTee
    <2>2. FC!WriteLength = BufSize /\ FC!Size = BufSize /\ BufSize \in Nat /\ oldLen \in Nat /\ FC!Old \in Int
      BY SizeIs, BoundAssumption DEF FC!isTee, FC!WriteLength, FC!Size, FCTyped, FC!Old
    <2>3. Len(target) = oldLen /\ \A i \in 1 .. oldLen : target[i] = FC!Old
      BY <2>1, <2>2, FillIs, Zenon
    <2>4. o = Base /\ Base' = Base
      BY <1>2, <2>1, <2>3, Zenon DEF Base, FC!isTee, o
    <2>5. cpc' = "success"
      <3>1. cprog # "copy"
        BY Zenon DEF FC!isTee
      <3> QED
        BY <1>1, <3>1, Zenon
    <2>6. ASSUME ~short'
          PROVE  /\ Len(target') = FC!Most(oldLen', Base' + BufSize)
                 /\ numRead' <= BufSize /\ numRead' <= Len(source')
                 /\ \A i \in 1 .. numRead' : target'[Base' + i] = source'[i]
                 /\ numRead' < BufSize => target'[Base' + numRead' + 1] = FC!Nul
                 /\ \A i \in 1 .. Base' : target'[i] = FC!Old
      <3>1. k = BufSize
        BY <1>12, <2>2, <2>6, Zenon
      <3>2. Len(target') = FC!Most(oldLen, Base + BufSize)
        BY <1>9, <2>3, <2>4, <3>1, Zenon
      <3>3. numRead <= BufSize /\ numRead <= Len(source)
        BY <1>3, <2>1, <2>2 DEF Took
      <3>4. ASSUME NEW i \in 1 .. numRead PROVE target'[Base + i] = source[i]
        <4>1. i \in 1 .. k /\ 0 + i = i
          BY <1>3, <2>2, <3>1, <3>3
        <4>2. target'[Base + i] = buffer[i]
          BY <1>9, <2>4, <4>1, Zenon
        <4>3. buffer[i] = source[i]
          BY <2>1, <4>1, Zenon DEF Took
        <4> QED
          BY <4>2, <4>3, Zenon
      <3>5. ASSUME numRead < BufSize PROVE target'[Base + numRead + 1] = FC!Nul
        <4>1. numRead + 1 \in 1 .. k /\ Base + (numRead + 1) = Base + numRead + 1
          BY <1>3, <1>7, <2>2, <2>4, <3>1, <3>5
        <4>2. target'[Base + (numRead + 1)] = buffer[numRead + 1]
          BY <1>9, <2>4, <4>1, Zenon
        <4> QED
          BY <2>1, <3>5, <4>1, <4>2, Zenon
      <3>6. ASSUME NEW i \in 1 .. Base PROVE target'[i] = FC!Old
        <4>1. i \in 1 .. oldLen /\ i \in 1 .. Len(target) /\ i <= o
          BY <1>3, <1>7, <2>2, <2>3, <2>4
        <4> QED
          BY <1>9, <2>3, <4>1, Zenon
      <3> QED
        BY <1>2, <2>4, <3>2, <3>3, <3>4, <3>5, <3>6, Zenon
    <2>7. FC!isTee' /\ BufSize' = BufSize /\ FC!Nul' = FC!Nul /\ FC!Old' = FC!Old
      BY <1>4, Zenon DEF FC!Nul, FC!Old
    <2> QED
      BY <2>5, <2>6, <2>7, Zenon DEF FCTee
  <1> QED
    BY <1>11, <1>13, <1>14, <1>15, Zenon

(* Every step of the programs keeps FCInv. *)
LEMMA FCNext == FCInv /\ [FC!Next]_(FC!copyVars) => FCInv'
  <1> SUFFICES ASSUME FCInv, [FC!Next]_(FC!copyVars) PROVE FCInv' BY Zenon
  <1>1. CASE FC!Open
    <2>0. /\ cpc = "open" /\ cpc' = "read" /\ target' = IF cprog = "copy" THEN <<>> ELSE target
          /\ buffer' = FC!Fill(FC!Size, FC!Unset)
          /\ UNCHANGED <<cprog, source, stdout, rdOff, wrOff, numRead, oldLen, short>>
      BY <1>1, Zenon DEF FC!Open
    <2>1. Fresh /\ FCTyped /\ FC!Size' = FC!Size
      BY <2>0, Zenon DEF FCInv, FCCopy, FCHoles, FCTee, FCTyped, FC!isTee, FC!Size
    <2>2. buffer' \in Seq(Int) /\ Len(buffer') = FC!Size'
      <3>1. FC!Size \in Nat /\ FC!Unset \in Int
        BY <2>1, SizeIs DEF FC!Unset
      <3> QED
        BY <2>0, <2>1, <3>1, FillIs, Zenon
    <2>3. FCTyped'
      <3>1. target' \in Seq(Int)
        BY <2>0, <2>1 DEF FCTyped
      <3> QED
        BY <2>0, <2>1, <2>2, <3>1, Zenon DEF FCTyped
    <2>4. cprog = "copy" => Copied' /\ wrOff' = rdOff'
      BY <2>0, <2>1 DEF Copied, Fresh, FCTyped
    <2>5. cprog # "copy" => Fresh'
      BY <2>0, <2>1, Zenon DEF Fresh, FC!Fill
    <2>6. FCCopy'
      BY <2>0, <2>2, <2>4, Zenon DEF FCCopy
    <2>7. FCHoles'
      BY <2>0, <2>2, <2>5, Zenon DEF FCHoles
    <2>8. FCTee'
      BY <2>0, <2>2, <2>5, Zenon DEF FCTee, FC!isTee
    <2> QED
      BY <2>3, <2>6, <2>7, <2>8, Zenon DEF FCInv
  <1>2. CASE FC!Read
    BY <1>2, FCRead, Zenon
  <1>3. CASE FC!Write
    BY <1>3, FCWrite, Zenon
  <1>4. ASSUME UNCHANGED <<cprog, source, target, rdOff, wrOff, buffer, numRead, oldLen, short>>
        PROVE  /\ Fresh' = Fresh /\ Copied' = Copied /\ Took(0)' = Took(0) /\ Took(wrOff)' = Took(wrOff)
               /\ Whole' = Whole /\ Base' = Base /\ FC!Size' = FC!Size /\ FC!isTee' = FC!isTee
               /\ FC!Fill(oldLen, FC!Old)' = FC!Fill(oldLen, FC!Old)
    BY <1>4, Zenon DEF Fresh, Copied, Took, Whole, Base, FC!Size, FC!isTee, FC!Fill
  <1>5. CASE FC!Echo
    <2>0. /\ cpc = "echo" /\ cpc' = "write"
          /\ UNCHANGED <<cprog, source, target, rdOff, wrOff, buffer, numRead, oldLen, short>>
      BY <1>5, Zenon DEF FC!Echo
    <2>1. FC!isTee
      BY <2>0, Zenon DEF FCInv, FCTyped, FC!isTee, FCCopy, FCHoles, FCTee
    <2> QED
      BY <1>4, <2>0, <2>1, Zenon DEF FCInv, FCTyped, FCCopy, FCHoles, FCTee, FC!isTee
  <1>6. CASE FC!Close
    <2>0. /\ cpc = "close" /\ cpc' = "success"
          /\ UNCHANGED <<cprog, source, target, rdOff, wrOff, buffer, numRead, oldLen, short>>
      BY <1>6, Zenon DEF FC!Close
    <2> QED
      BY <1>4, <2>0 DEF FCInv, FCTyped, FCCopy, FCHoles, FCTee
  <1>7. CASE FC!Fail
    <2>0. /\ cpc' = "failed"
          /\ UNCHANGED <<cprog, source, target, rdOff, wrOff, buffer, numRead, oldLen, short>>
      BY <1>7, Zenon DEF FC!Fail
    <2> QED
      BY <1>4, <2>0, Zenon DEF FCInv, FCTyped, FCCopy, FCHoles, FCTee
  <1>8. CASE UNCHANGED FC!copyVars
    <2>0. UNCHANGED <<cprog, cpc, source, target, rdOff, wrOff, buffer, numRead, oldLen, short>>
      BY <1>8, Zenon DEF FC!copyVars
    <2> QED
      BY <1>4, <2>0 DEF FCInv, FCTyped, FCCopy, FCHoles, FCTee
  <1> QED
    BY <1>1, <1>2, <1>3, <1>5, <1>6, <1>7, <1>8, Zenon DEF FC!Next

(* At the end FCInv says what is in the target. *)
LEMMA FCMeans == FCInv => FC!SuccessIsCopy
  <1> SUFFICES ASSUME FCInv, cpc = "success" PROVE FC!SuccessIsCopy
    BY Zenon DEF FC!SuccessIsCopy
  <1>1. FCTyped /\ Len(source) \in Nat /\ Len(target) \in Nat
    BY DEF FCInv, FCTyped
  <1>2. ASSUME cprog = "copy" PROVE target = source
    <2>1. Copied /\ wrOff = Len(source)
      BY <1>2, Zenon DEF FCInv, FCCopy
    <2>2. source \in Seq(Int) /\ target \in Seq(Int)
      BY <1>1, Zenon DEF FCTyped
    <2> QED
      BY <2>1, <2>2, SameSeq, Zenon DEF Copied
  <1>3. ASSUME cprog = "cp-holes", ~short PROVE target = source \o FC!Fill(FC!Most(0, oldLen - Len(source)), FC!Old)
    BY <1>3, Zenon DEF FCInv, FCHoles, Whole
  <1>4. ASSUME FC!isTee, ~short
        PROVE  /\ Len(target) = FC!Most(oldLen, Base + BufSize)
               /\ SubSeq(target, Base + 1, Base + numRead) = SubSeq(source, 1, numRead)
               /\ numRead < BufSize => target[Base + numRead + 1] = FC!Nul
               /\ \A i \in 1 .. Base : target[i] = FC!Old
    <2>1. /\ Len(target) = FC!Most(oldLen, Base + BufSize)
          /\ numRead <= BufSize /\ numRead <= Len(source)
          /\ \A i \in 1 .. numRead : target[Base + i] = source[i]
          /\ numRead < BufSize => target[Base + numRead + 1] = FC!Nul
          /\ \A i \in 1 .. Base : target[i] = FC!Old
      BY <1>4, Zenon DEF FCInv, FCTee
    <2>2. /\ Base \in Nat /\ oldLen \in Nat /\ numRead \in Nat /\ BufSize \in Nat
          /\ source \in Seq(Int) /\ target \in Seq(Int)
      BY <1>1, BoundAssumption, Zenon DEF FCTyped, Base
    <2>3. Base + numRead <= Len(target)
      BY <1>1, <2>1, <2>2 DEF FC!Most
    <2> DEFINE s == SubSeq(target, Base + 1, Base + numRead)
               t == SubSeq(source, 1, numRead)
    <2>4. s \in Seq(Int) /\ Len(s) = numRead /\ \A i \in 1 .. numRead : s[i] = target[Base + i]
      <3>1. Base + numRead \in Nat /\ Base <= Base + numRead /\ (Base + numRead) - Base = numRead
        BY <2>2
      <3> QED
        BY <2>2, <2>3, <3>1, SubIs
    <2>5. t \in Seq(Int) /\ Len(t) = numRead /\ \A i \in 1 .. numRead : t[i] = source[i]
      BY <2>1, <2>2
    <2> HIDE DEF s, t
    <2>6. s = t
      BY <2>1, <2>4, <2>5, SameSeq, Zenon
    <2> QED
      BY <2>1, <2>6, Zenon DEF s, t
  <1> QED
    BY <1>2, <1>3, <1>4, Zenon DEF FC!SuccessIsCopy, Base

-----------------------------------------------------------------------------
(* LineRead: readLine(), readLineBuf(), readn() *)

VARIABLES
    fn, n, streamLen, newlines, got, left, out, results, fpc

LR == INSTANCE LineRead

Pos == got - left                        \* bytes the function has taken
Begin == LR!First(Len(results) + 1)         \* where the current piece begins
Piece(i) == LR!Bytes(LR!First(i) - 1, LR!Min2(LR!EndOf(LR!First(i)), LR!First(i) - 1 + LR!Room))

LRTyped ==
    /\ fn \in {"readLine", "readLineBuf", "readn"} /\ n \in Nat /\ streamLen \in Nat
    /\ newlines \subseteq 1 .. streamLen
    /\ got \in Nat /\ got <= streamLen /\ left \in Nat /\ left <= got
    /\ fn # "readLineBuf" => left = 0
    /\ results \in Seq(Seq(Nat)) /\ fpc \in {"call", "eof", "error"}

(* The current piece does not end among the bytes taken, and the caller's  *)
(* buffer has as many of them as there is room for.                        *)
Current ==
    fpc = "call" =>
        /\ Begin \in Nat /\ Begin > 0 /\ Begin <= Pos + 1
        /\ fn = "readn" => n = 0 \/ Pos + 1 - Begin < n
        /\ fn # "readn" => \A d \in Begin .. Pos : d \notin newlines
        /\ n > 0 => out = LR!Bytes(Begin - 1, LR!Min2(Pos, Begin - 1 + LR!Room))
        /\ n = 0 => out = <<>>

LRInv == LRTyped /\ Current /\ LR!PiecesInOrder

(* Consecutive bytes of the stream. *)
LEMMA BytesIs ==
    ASSUME NEW a \in Nat, NEW b \in Nat, a <= b
    PROVE  /\ LR!Bytes(a, b) \in Seq(Nat) /\ Len(LR!Bytes(a, b)) = b - a
           /\ \A i \in 1 .. b - a : LR!Bytes(a, b)[i] = a + i
  <1>1. LR!Bytes(a, b) \in [1 .. b - a -> Nat] /\ b - a \in Nat
    BY DEF LR!Bytes
  <1> QED
    BY <1>1 DEF LR!Bytes

(* Two runs of bytes, one behind the other. *)
LEMMA BytesJoin ==
    ASSUME NEW a \in Nat, NEW b \in Nat, NEW c \in Nat, a <= b, b <= c
    PROVE  LR!Bytes(a, b) \o LR!Bytes(b, c) = LR!Bytes(a, c)
  <1> DEFINE s == LR!Bytes(a, b)
             u == LR!Bytes(b, c)
             t == LR!Bytes(a, c)
             o == s \o u
  <1>1. s \in Seq(Nat) /\ Len(s) = b - a /\ \A i \in 1 .. b - a : s[i] = a + i
    BY BytesIs, Zenon
  <1>2. u \in Seq(Nat) /\ Len(u) = c - b /\ \A i \in 1 .. c - b : u[i] = b + i
    BY BytesIs, Zenon
  <1>3. t \in Seq(Nat) /\ Len(t) = c - a /\ \A i \in 1 .. c - a : t[i] = a + i
    <2>1. a <= c
      OBVIOUS
    <2> QED
      BY <2>1, BytesIs, Zenon
  <1> HIDE DEF s, t, u
  <1>4. /\ o \in Seq(Nat) /\ Len(o) = c - a
        /\ \A i \in 1 .. c - a : o[i] = IF i <= b - a THEN s[i] ELSE u[i - (b - a)]
    <2>1. /\ o \in Seq(Nat) /\ Len(o) = Len(s) + Len(u)
          /\ \A i \in 1 .. Len(o) : o[i] = IF i <= Len(s) THEN s[i] ELSE u[i - Len(s)]
      BY <1>1, <1>2, Joined, Zenon
    <2>2. Len(s) + Len(u) = c - a
      BY <1>1, <1>2
    <2> HIDE DEF o
    <2> QED
      BY <1>1, <2>1, <2>2, Zenon
  <1> HIDE DEF o
  <1>5. ASSUME NEW i \in 1 .. c - a PROVE o[i] = a + i
    <2>1. CASE i <= b - a
      BY <1>1, <1>4, <2>1
    <2>2. CASE ~(i <= b - a)
      <3>1. i - (b - a) \in 1 .. c - b /\ b + (i - (b - a)) = a + i
        BY <2>2
      <3> QED
        BY <1>2, <1>4, <2>2, <3>1, Zenon
    <2> QED
      BY <2>1, <2>2, Zenon
  <1>6. o = t
    BY <1>3, <1>4, <1>5
  <1> QED
    BY <1>6, Zenon DEF o, s, u, t

(* The end of a line is the first newline, or the end of the stream. *)
LEMMA EndIs ==
    ASSUME LRTyped, fn # "readn", NEW b \in Nat, NEW e \in b .. streamLen,
           e = streamLen \/ e \in newlines, \A d \in b .. e - 1 : d \notin newlines
    PROVE  LR!EndOf(b) = e
  <1> DEFINE Q(x) == (x = streamLen \/ x \in newlines) /\ \A d \in b .. x - 1 : d \notin newlines
  <1>1. LR!EndOf(b) = CHOOSE x \in b .. streamLen : Q(x)
    BY Zenon DEF LR!EndOf
  <1>2. streamLen \in Nat
    BY Zenon DEF LRTyped
  <1>3. Q(e)
    BY Zenon
  <1>4. ASSUME NEW x \in b .. streamLen, Q(x) PROVE x = e
    <2>1. CASE x < e
      <3>1. x \in b .. e - 1 /\ x # streamLen
        BY <1>2, <2>1
      <3> QED
        BY <1>4, <3>1, Zenon
    <2>2. CASE e < x
      <3>1. e \in b .. x - 1 /\ e # streamLen
        BY <1>2, <2>2
      <3> QED
        BY <1>4, <3>1, Zenon
    <2> QED
      BY <1>2, <2>1, <2>2
  <1> HIDE DEF Q
  <1> QED
    BY <1>1, <1>3, <1>4, Zenon

(* The bytes of a line that fit into the buffer. *)
LEMMA RoomIs ==
    ASSUME LRTyped, n > 0
    PROVE  LR!Room \in Nat /\ (fn # "readLine" => LR!Room = n /\ LR!Room > 0) /\ (fn = "readLine" => LR!Room = n - 1)
  BY DEF LRTyped, LR!Room

(* The input does not change, and so neither do the pieces. *)
LEMMA SameEnds ==
    ASSUME UNCHANGED LR!input PROVE LR!Room' = LR!Room /\ \A b : LR!EndOf(b)' = LR!EndOf(b)
  BY DEF LR!input, LR!EndOf, LR!Room

(* Pieces that were returned keep their place. *)
LEMMA SameFirst ==
    ASSUME LRTyped, UNCHANGED LR!input, NEW i \in 1 .. Len(results) + 1,
           \A k \in 1 .. Len(results) : results'[k] = results[k]
    PROVE  LR!First(i)' = LR!First(i) /\ Piece(i)' = Piece(i)
  <1>0. Len(results) \in Nat
    BY DEF LRTyped
  <1>1. LR!First(i)' = LR!First(i)
    <2>1. CASE i = 1
      BY <2>1, Zenon DEF LR!First
    <2>2. CASE i # 1
      <3>1. i - 1 \in 1 .. Len(results)
        BY <1>0, <2>2
      <3>2. results'[i - 1][1] = results[i - 1][1]
        BY <3>1, Zenon
      <3>3. LR!EndOf(results[i - 1][1])' = LR!EndOf(results[i - 1][1])
        BY <3>2, SameEnds, Zenon
      <3> QED
        BY <2>2, <3>3, Zenon DEF LR!First
    <2> QED
      BY <2>1, <2>2, Zenon
  <1>2. LR!EndOf(LR!First(i))' = LR!EndOf(LR!First(i))
    BY <1>1, SameEnds, Zenon
  <1> QED
    BY <1>1, <1>2, SameEnds, Zenon DEF Piece, LR!Bytes, LR!Min2

(* One more piece. *)
LEMMA Returned ==
    ASSUME LRTyped, LR!PiecesInOrder, UNCHANGED LR!input, Begin \in Nat, Begin > 0, LR!Room \in Nat, LR!Room > 0,
           NEW e \in Nat, e = LR!EndOf(Begin), Begin <= e, NEW o,
           o = LR!Bytes(Begin - 1, LR!Min2(e, Begin - 1 + LR!Room)), results' = Append(results, o)
    PROVE  /\ results' \in Seq(Seq(Nat))
           /\ \A i \in 1 .. Len(results') : results'[i] = Piece(i)'
           /\ Begin' = e + 1
  <1>0. PICK L : L = Len(results)
    BY Zenon
  <1> DEFINE m == LR!Min2(e, Begin - 1 + LR!Room)
  <1>1. L \in Nat /\ results \in Seq(Seq(Nat))
    BY <1>0 DEF LRTyped
  <1>2. m \in Nat /\ Begin <= m
    BY DEF LR!Min2
  <1>3. o \in Seq(Nat) /\ o[1] = Begin
    <2>0. PICK a \in Nat : a = Begin - 1
      OBVIOUS
    <2>1. o = LR!Bytes(a, m) /\ a <= m /\ 1 \in 1 .. m - a /\ a + 1 = Begin
      BY <1>2, <2>0
    <2> HIDE DEF m
    <2>2. LR!Bytes(a, m) \in Seq(Nat) /\ \A i \in 1 .. m - a : LR!Bytes(a, m)[i] = a + i
      BY <1>2, <2>1, BytesIs, Zenon
    <2> QED
      BY <2>1, <2>2, Zenon
  <1>4. /\ results' \in Seq(Seq(Nat)) /\ Len(results') = L + 1 /\ results'[L + 1] = o
        /\ \A i \in 1 .. L : results'[i] = results[i]
    BY <1>0, <1>1, <1>3
  <1>5. \A i \in 1 .. L + 1 : LR!First(i)' = LR!First(i) /\ Piece(i)' = Piece(i)
    BY <1>0, <1>4, SameFirst, Zenon
  <1>6. Begin = LR!First(L + 1) /\ o = Piece(L + 1)
    BY <1>0, Zenon DEF Begin, Piece
  <1>7. \A i \in 1 .. L : results[i] = Piece(i)
    BY <1>0, Zenon DEF LR!PiecesInOrder, Piece
  <1> HIDE DEF m
  <1>8. ASSUME NEW i \in 1 .. Len(results') PROVE results'[i] = Piece(i)'
    <2>1. i \in 1 .. L + 1
      BY <1>4, Zenon
    <2>2. Piece(i)' = Piece(i)
      BY <1>5, <2>1, Zenon
    <2>3. results'[i] = Piece(i)
      <3>1. CASE i = L + 1
        BY <1>4, <1>6, <3>1, Zenon
      <3>2. CASE i # L + 1
        <4>1. i \in 1 .. L
          BY <1>1, <2>1, <3>2
        <4> QED
          BY <1>4, <1>7, <4>1, Zenon
      <3> QED
        BY <3>1, <3>2, Zenon
    <2> QED
      BY <2>2, <2>3, Zenon
  <1>9. Begin' = e + 1
    <2>1. Begin' = LR!First(L + 2)'
      <3>1. Begin' = LR!First(Len(results) + 1)'
        BY Zenon DEF Begin
      <3>2. Len(results') + 1 = L + 2
        BY <1>1, <1>4
      <3> QED
        BY <3>1, <3>2, Zenon
    <2>2. LR!First(L + 2)' = LR!EndOf(results[L + 1][1])' + 1
      <3>1. L + 2 # 1 /\ (L + 2) - 1 = L + 1
        BY <1>1
      <3> QED
        BY <3>1, Zenon DEF LR!First
    <2>3. results'[L + 1][1] = Begin
      BY <1>3, <1>4, Zenon
    <2>4. LR!EndOf(results[L + 1][1])' = LR!EndOf(Begin)
      BY <2>3, SameEnds, Zenon
    <2> QED
      BY <2>1, <2>2, <2>4, Zenon
  <1> QED
    BY <1>4, <1>8, <1>9, Zenon

(* A call begins where the one before it ended. *)
LEMMA Restart ==
    ASSUME LRTyped, UNCHANGED LR!input, n > 0, NEW p \in Nat, Pos' = p, Begin' = p + 1, out' = <<>>
    PROVE  Current'
  <1>1. LR!Room' \in Nat /\ n' = n /\ n \in Nat
    BY RoomIs, SameEnds, Zenon DEF LR!input, LRTyped
  <1>2. Begin' - 1 = p /\ LR!Min2(Pos', p + LR!Room') = p /\ p - p = 0
    <2>1. \A r \in Nat : LR!Min2(p, p + r) = p
      BY DEF LR!Min2
    <2>2. LR!Min2(Pos', p + LR!Room') = p
      BY <1>1, <2>1, Zenon
    <2>3. (p + 1) - 1 = p /\ p - p = 0
      OBVIOUS
    <2> QED
      BY <2>2, <2>3, Zenon
  <1>3. LR!Bytes(p, p) \in Seq(Nat) /\ Len(LR!Bytes(p, p)) = 0
    BY <1>2, BytesIs
  <1>4. LR!Bytes(Begin' - 1, LR!Min2(Pos', Begin' - 1 + LR!Room')) = LR!Bytes(p, p)
    BY <1>2, Zenon
  <1>5. out' = LR!Bytes(Begin' - 1, LR!Min2(Pos', Begin' - 1 + LR!Room'))
    BY <1>3, <1>4
  <1>6. \A d \in Begin' .. Pos' : d \notin newlines'
    <2> SUFFICES ASSUME NEW d \in Begin' .. Pos' PROVE FALSE BY Zenon
    <2> QED
      OBVIOUS
  <1>7. Begin' \in Nat /\ Begin' > 0 /\ Begin' <= Pos' + 1 /\ Pos' + 1 - Begin' < n'
    BY <1>1
  <1> QED
    BY <1>5, <1>6, <1>7, Zenon DEF Current, LR!Bytes, LR!Min2

(* The next byte of a line. *)
LEMMA Stored ==
    ASSUME LRInv, UNCHANGED LR!input, fpc = "call", fn # "readn", n > 0, Pos < streamLen, LRTyped',
           Pos' = Pos + 1, LR!Store(Pos + 1, LR!Room)
    PROVE  LRInv'
  <1> DEFINE o == IF Len(out) < LR!Room THEN Append(out, Pos + 1) ELSE out
  <1> USE DEF LRInv
  <1>1. IF Pos + 1 \in newlines THEN LR!ReturnWith(o) ELSE out' = o /\ UNCHANGED <<results, fpc>>
    BY Zenon DEF LR!Store
  <1>2. /\ Pos \in Nat /\ LR!Room \in Nat /\ Begin \in Nat /\ Begin > 0 /\ Begin <= Pos + 1 /\ streamLen \in Nat
        /\ \A d \in Begin .. Pos : d \notin newlines
        /\ out = LR!Bytes(Begin - 1, LR!Min2(Pos, Begin - 1 + LR!Room))
    BY RoomIs DEF Current, Pos, LRTyped
  <1>3. o = LR!Bytes(Begin - 1, LR!Min2(Pos + 1, Begin - 1 + LR!Room)) /\ (o = <<>> => LR!Room = 0)
    <2>0. PICK a \in Nat : a = Begin - 1
      BY <1>2
    <2>1. a <= Pos
      BY <1>2, <2>0
    <2>2. CASE Pos - a < LR!Room
      <3>1. LR!Min2(Pos, a + LR!Room) = Pos /\ LR!Min2(Pos + 1, a + LR!Room) = Pos + 1
        BY <1>2, <2>1, <2>2 DEF LR!Min2
      <3>2. out = LR!Bytes(a, Pos) /\ Pos + 1 \in Nat
        BY <1>2, <2>0, <3>1
      <3>0. ASSUME NEW p \in Nat, a <= p
            PROVE  /\ LR!Bytes(a, p) \in Seq(Nat) /\ Len(LR!Bytes(a, p)) = p - a
                   /\ \A i \in 1 .. p - a : LR!Bytes(a, p)[i] = a + i
        BY <3>0, BytesIs, Zenon
      <3>3. out \in Seq(Nat) /\ Len(out) = Pos - a /\ \A i \in 1 .. Pos - a : out[i] = a + i
        BY <1>2, <2>1, <3>2, <3>0, Zenon
      <3>4. o = Append(out, Pos + 1)
        BY <2>2, <3>3, Zenon
      <3> DEFINE t == LR!Bytes(a, Pos + 1)
      <3>5. t \in Seq(Nat) /\ Len(t) = Pos + 1 - a /\ \A i \in 1 .. Pos + 1 - a : t[i] = a + i
        <4>1. PICK q \in Nat : q = Pos + 1 /\ a <= q
          BY <1>2, <2>1
        <4>2. t = LR!Bytes(a, q)
          BY <4>1, Zenon
        <4> HIDE DEF t
        <4>3. t \in Seq(Nat) /\ Len(t) = q - a /\ \A i \in 1 .. q - a : t[i] = a + i
          BY <3>0, <4>1, <4>2, Zenon
        <4> QED
          BY <1>2, <4>1, <4>3
      <3> HIDE DEF o, t
      <3>6. o \in Seq(Nat) /\ Len(o) = Pos + 1 - a /\ o[Pos + 1 - a] = Pos + 1 /\ \A i \in 1 .. Pos - a : o[i] = a + i
        BY <1>2, <2>1, <3>2, <3>3, <3>4
      <3>7. \A i \in 1 .. Pos + 1 - a : o[i] = t[i]
        <4> SUFFICES ASSUME NEW i \in 1 .. Pos + 1 - a PROVE o[i] = a + i
          BY <3>5, Zenon
        <4>1. CASE i = Pos + 1 - a
          BY <1>2, <2>1, <3>6, <4>1
        <4>2. CASE i # Pos + 1 - a
          <5>1. i \in 1 .. Pos - a
            BY <1>2, <2>1, <4>2
          <5> QED
            BY <3>6, <5>1, Zenon
        <4> QED
          BY <4>1, <4>2, Zenon
      <3>8. o = t
        BY <1>2, <3>5, <3>6, <3>7, SMTT(30)
      <3>9. o # <<>>
        BY <1>2, <2>1, <3>6
      <3> QED
        BY <2>0, <3>1, <3>8, <3>9, Zenon DEF t
    <2>3. CASE ~(Pos - a < LR!Room)
      <3>1. LR!Min2(Pos, a + LR!Room) = a + LR!Room /\ LR!Min2(Pos + 1, a + LR!Room) = a + LR!Room
        BY <1>2, <2>1, <2>3 DEF LR!Min2
      <3>2. out = LR!Bytes(a, a + LR!Room)
        BY <1>2, <2>0, <3>1, Zenon
      <3>3. out \in Seq(Nat) /\ Len(out) = LR!Room
        <4>1. a + LR!Room \in Nat /\ a <= a + LR!Room /\ (a + LR!Room) - a = LR!Room
          BY <1>2
        <4> QED
          BY <3>2, <4>1, BytesIs, Zenon
      <3>4. o = out /\ (out = <<>> => LR!Room = 0)
        BY <1>2, <3>3
      <3> QED
        BY <2>0, <3>1, <3>2, <3>4, Zenon
    <2> QED
      BY <2>2, <2>3, Zenon
  <1> HIDE DEF o
  <1>4. CASE Pos + 1 \in newlines
    <2>1. LR!ReturnWith(o)
      BY <1>1, <1>4, Zenon
    <2>2. CASE o = <<>>
      <3>1. fpc' = "eof" /\ UNCHANGED results
        BY <2>1, <2>2, Zenon DEF LR!ReturnWith
      <3>2. LR!Room' = 0
        BY <1>3, <2>2, SameEnds, Zenon
      <3>3. \A i \in 1 .. Len(results) : Piece(i)' = Piece(i)
        BY <3>1, SameFirst DEF LRTyped
      <3>4. LR!PiecesInOrder'
        BY <3>1, <3>2, <3>3 DEF LR!PiecesInOrder, Piece
      <3> QED
        BY <3>1, <3>4, Zenon DEF Current
    <2>3. CASE o # <<>>
      <3>1. fpc' = "call" /\ results' = Append(results, o) /\ out' = <<>>
        BY <2>1, <2>3, Zenon DEF LR!ReturnWith
      <3>2. LR!EndOf(Begin) = Pos + 1
        <4>1. Pos + 1 \in Begin .. streamLen /\ \A d \in Begin .. (Pos + 1) - 1 : d \notin newlines
          BY <1>2
        <4> QED
          BY <1>2, <1>4, <4>1, EndIs, Zenon
      <3>3. LR!Room > 0
        <4>1. LR!Room # 0
          <5> SUFFICES ASSUME LR!Room = 0 PROVE FALSE BY Zenon
          <5>1. PICK a \in Nat : a = Begin - 1
            BY <1>2
          <5>2. LR!Min2(Pos + 1, a + 0) = a /\ a - a = 0
            BY <1>2, <5>1 DEF LR!Min2
          <5>3. o = LR!Bytes(a, a)
            BY <1>3, <5>1, <5>2, Zenon
          <5>4. o \in Seq(Nat) /\ Len(o) = 0
            BY <5>2, <5>3, BytesIs
          <5> QED
            BY <2>3, <5>4
        <4> QED
          BY <1>2, <4>1
      <3>4. /\ \A i \in 1 .. Len(results') : results'[i] = Piece(i)'
            /\ Begin' = Pos + 2
        <4>1. Pos + 1 \in Nat /\ Begin <= Pos + 1 /\ (Pos + 1) + 1 = Pos + 2
          BY <1>2
        <4> QED
          BY <1>2, <1>3, <3>1, <3>2, <3>3, <4>1, Returned, Zenon
      <3>5. LR!PiecesInOrder'
        BY <3>1, <3>4, Zenon DEF LR!PiecesInOrder, Piece
      <3>6. Current'
        <4>1. Pos + 1 \in Nat /\ Begin' = (Pos + 1) + 1
          BY <1>2, <3>4
        <4> QED
          BY <1>2, <3>1, <4>1, Restart, Zenon
      <3> QED
        BY <3>5, <3>6, Zenon
    <2> QED
      BY <2>2, <2>3, Zenon
  <1>5. CASE Pos + 1 \notin newlines
    <2>1. out' = o /\ UNCHANGED <<results, fpc>>
      BY <1>1, <1>5, Zenon
    <2>2. \A i \in 1 .. Len(results) + 1 : LR!First(i)' = LR!First(i) /\ Piece(i)' = Piece(i)
      BY <2>1, SameFirst, Zenon
    <2>3. LR!PiecesInOrder'
      BY <2>1, <2>2 DEF LR!PiecesInOrder, Piece
    <2>4. Begin' = Begin
      <3>1. Len(results) + 1 \in 1 .. Len(results) + 1
        BY DEF LRTyped
      <3>2. PICK k : k = Len(results) + 1
        BY Zenon
      <3>3. LR!First(k)' = LR!First(k)
        BY <2>2, <3>1, <3>2, Zenon
      <3> QED
        BY <2>1, <3>2, <3>3 DEF Begin, LR!First, LR!EndOf, LR!input
    <2>5. Current'
      <3>1. fn' # "readn" /\ newlines' = newlines /\ LR!Room' = LR!Room
        BY SameEnds, Zenon DEF LR!input
      <3>2. \A d \in Begin .. Pos + 1 : d \notin newlines
        BY <1>2, <1>5
      <3>3. Begin' \in Nat /\ Begin' > 0 /\ Begin' <= Pos' + 1
        BY <1>2, <2>4
      <3>4. out' = LR!Bytes(Begin' - 1, LR!Min2(Pos', Begin' - 1 + LR!Room'))
        BY <1>3, <2>1, <2>4, <3>1, Zenon
      <3>5. n' # 0 /\ \A d \in Begin' .. Pos' : d \notin newlines'
        BY <2>4, <3>1, <3>2 DEF LR!input
      <3> QED
        BY <3>1, <3>3, <3>4, <3>5, Zenon DEF Current, LR!Bytes, LR!Min2
    <2> QED
      BY <2>3, <2>5, Zenon
  <1> QED
    BY <1>4, <1>5, Zenon

(* Nothing was read. *)
LEMMA LRInit == LR!Init => LRInv
  <1> SUFFICES ASSUME LR!Init PROVE LRInv BY Zenon
  <1>1. LRTyped
    BY BoundAssumption DEF LR!Init, LRTyped
  <1>2. Begin = 1 /\ Pos = 0 /\ Len(results) = 0
    BY DEF LR!Init, Begin, LR!First, Pos
  <1>3. LR!PiecesInOrder
    BY <1>2 DEF LR!Init, LR!PiecesInOrder
  <1>4. n > 0 => out = LR!Bytes(0, LR!Min2(0, 0 + LR!Room))
    <2> SUFFICES ASSUME n > 0 PROVE out = LR!Bytes(0, LR!Min2(0, 0 + LR!Room)) BY Zenon
    <2>1. LR!Min2(0, 0 + LR!Room) = 0
      BY <1>1, RoomIs DEF LR!Min2
    <2>2. LR!Bytes(0, 0) \in Seq(Nat) /\ Len(LR!Bytes(0, 0)) = 0
      BY BytesIs
    <2> QED
      BY <2>1, <2>2 DEF LR!Init
  <1>5. Current
    <2>1. Begin - 1 = 0
      BY <1>2
    <2>2. n \in Nat /\ (n = 0 \/ 0 + 1 - 1 < n)
      BY <1>1 DEF LRTyped
    <2> QED
      BY <1>2, <1>4, <2>1, <2>2 DEF Current, LR!Init
  <1> QED
    BY <1>1, <1>3, <1>5, Zenon DEF LRInv

(* The last piece, and the calls that return nothing. *)
LEMMA Ended ==
    ASSUME LRInv, UNCHANGED LR!input, fpc = "call", n > 0, LRTyped', LR!ReturnWith(out), Pos' = Pos, Pos = streamLen
    PROVE  LRInv'
  <1> USE DEF LRInv
  <1>1. /\ Pos \in Nat /\ LR!Room \in Nat /\ Begin \in Nat /\ Begin > 0 /\ Begin <= Pos + 1 /\ streamLen \in Nat
        /\ n \in Nat /\ out = LR!Bytes(Begin - 1, LR!Min2(Pos, Begin - 1 + LR!Room))
        /\ fn # "readn" => \A d \in Begin .. Pos : d \notin newlines
        /\ fn = "readn" => Pos + 1 - Begin < n
    BY RoomIs DEF Current, Pos, LRTyped
  <1>2. PICK a \in Nat : a = Begin - 1 /\ a <= Pos
    BY <1>1
  <1>3. PICK m \in Nat : m = LR!Min2(Pos, a + LR!Room) /\ a <= m /\ (m = a => Pos = a \/ LR!Room = 0) /\ (m # a => a < Pos /\ LR!Room > 0)
    BY <1>1, <1>2 DEF LR!Min2
  <1>4. out \in Seq(Nat) /\ Len(out) = m - a
    <2>1. out = LR!Bytes(a, m)
      BY <1>1, <1>2, <1>3, Zenon
    <2> QED
      BY <1>3, <2>1, BytesIs, Zenon
  <1>5. CASE out = <<>>
    <2>1. fpc' = "eof" /\ UNCHANGED results
      BY <1>5, Zenon DEF LR!ReturnWith
    <2>2. \A i \in 1 .. Len(results) + 1 : LR!First(i)' = LR!First(i) /\ Piece(i)' = Piece(i)
      BY <2>1, SameFirst, Zenon
    <2>3. LR!Room > 0 => Begin = streamLen + 1
      BY <1>1, <1>2, <1>3, <1>4, <1>5
    <2>4. PICK k : k = Len(results) + 1 /\ k \in 1 .. Len(results) + 1 /\ k = Len(results') + 1
      BY <2>1 DEF LRTyped
    <2>5. LR!First(k)' = LR!First(k) /\ LR!First(k) = Begin
      BY <2>2, <2>4, Zenon DEF Begin
    <2>6. streamLen' = streamLen /\ LR!Room' = LR!Room
      BY SameEnds, Zenon DEF LR!input
    <2>7. LR!Room' > 0 => LR!First(Len(results) + 1)' = streamLen' + 1
      <3>1. LR!First(Len(results) + 1)' = LR!First(k)'
        BY <2>4, Zenon
      <3> QED
        BY <2>3, <2>5, <2>6, <3>1, Zenon
    <2>8. LR!PiecesInOrder'
      BY <2>1, <2>2, <2>7 DEF LR!PiecesInOrder, Piece
    <2> QED
      BY <2>1, <2>8, Zenon DEF Current
  <1>6. CASE out # <<>>
    <2>1. fpc' = "call" /\ results' = Append(results, out) /\ out' = <<>>
      BY <1>6, Zenon DEF LR!ReturnWith
    <2>2. LR!Room > 0 /\ Begin <= Pos
      BY <1>1, <1>2, <1>3, <1>4, <1>6, SMTT(30)
    <2>3. LR!EndOf(Begin) = Pos
      <3>1. CASE fn = "readn"
        BY <1>1, <2>2, <3>1 DEF LR!EndOf, LR!Min2
      <3>2. CASE fn # "readn"
        <4>1. Pos \in Begin .. streamLen /\ \A d \in Begin .. Pos - 1 : d \notin newlines
          BY <1>1, <2>2, <3>2
        <4> QED
          BY <1>1, <3>2, <4>1, EndIs, Zenon
      <3> QED
        BY <3>1, <3>2, Zenon
    <2>4. /\ \A i \in 1 .. Len(results') : results'[i] = Piece(i)'
          /\ Begin' = Pos + 1
      BY <1>1, <2>1, <2>2, <2>3, Returned, Zenon
    <2>5. LR!PiecesInOrder'
      BY <2>1, <2>4, Zenon DEF LR!PiecesInOrder, Piece
    <2>6. Current'
      BY <1>1, <2>1, <2>4, Restart, Zenon
    <2> QED
      BY <2>5, <2>6, Zenon
  <1> QED
    BY <1>5, <1>6, Zenon

(* Between two pieces. *)
LEMMA Still ==
    ASSUME LRInv, UNCHANGED <<LR!input, results>>, fpc' = "eof" => fpc = "eof" \/ n = 0
    PROVE  LR!PiecesInOrder' /\ Begin' = Begin
  <1> USE DEF LRInv
  <1>1. \A i \in 1 .. Len(results) + 1 : LR!First(i)' = LR!First(i) /\ Piece(i)' = Piece(i)
    BY SameFirst, Zenon
  <1>2. PICK k : k = Len(results) + 1 /\ k \in 1 .. Len(results) + 1 /\ k = Len(results') + 1
    BY DEF LRTyped
  <1>3. LR!First(k)' = LR!First(k)
    BY <1>1, <1>2, Zenon
  <1>4. LR!First(Len(results) + 1)' = LR!First(k)'
    BY <1>2, Zenon
  <1>5. Begin' = Begin
    BY <1>2, <1>3, <1>4, Zenon DEF Begin
  <1>6. streamLen' = streamLen /\ LR!Room' = LR!Room /\ (n = 0 => ~(LR!Room > 0))
    BY SameEnds DEF LR!input, LR!Room, LRTyped
  <1>7. fpc' = "eof" /\ LR!Room' > 0 => LR!First(Len(results) + 1)' = streamLen' + 1
    BY <1>2, <1>3, <1>4, <1>6, Zenon DEF LR!PiecesInOrder
  <1> QED
    BY <1>1, <1>5, <1>7 DEF LR!PiecesInOrder, Piece

(* readn(), whatever a read() gives, keeps LRInv. *)
LEMMA LRReadn == LRInv /\ LR!readn => LRInv'
  <1> SUFFICES ASSUME LRInv, LR!readn PROVE LRInv' BY Zenon
  <1> USE DEF LRInv
  <1>1. /\ fpc = "call" /\ fn = "readn" /\ got < streamLen /\ UNCHANGED LR!input /\ UNCHANGED left
    BY Zenon DEF LR!readn
  <1>2. PICK k \in 1 .. LR!Min2(n - Len(out), streamLen - got) :
            /\ got' = got + k
            /\ IF Len(out \o LR!Bytes(got, got + k)) = n THEN LR!ReturnWith(out \o LR!Bytes(got, got + k))
               ELSE out' = out \o LR!Bytes(got, got + k) /\ UNCHANGED <<results, fpc>>
    BY Zenon DEF LR!readn
  <1> DEFINE o == out \o LR!Bytes(got, got + k)
  <1>3. /\ left = 0 /\ Pos = got /\ got \in Nat /\ n \in Nat /\ streamLen \in Nat /\ LR!Room = n
        /\ Begin \in Nat /\ Begin > 0 /\ Begin <= got + 1 /\ (n = 0 \/ got + 1 - Begin < n)
        /\ n > 0 => out = LR!Bytes(Begin - 1, LR!Min2(Pos, Begin - 1 + n))
    BY <1>1 DEF Current, Pos, LRTyped, LR!Room
  <1>4. PICK a \in Nat : a = Begin - 1 /\ a <= got
    BY <1>3
  <1>5. n > 0
    <2> SUFFICES ASSUME n = 0 PROVE FALSE
      BY <1>3
    <2>1. n - Len(out) < 1
      BY <1>1 DEF Current
    <2> QED
      BY <1>2, <1>3, <2>1 DEF LR!Min2
  <1>6. PICK g \in Nat : g = got + k /\ a <= g /\ got < g /\ g <= streamLen
    BY <1>2, <1>3, <1>4 DEF LR!Min2
  <1>7. out = LR!Bytes(a, got)
    <2>1. LR!Min2(Pos, a + n) = Pos
      BY <1>3, <1>4, <1>5 DEF LR!Min2
    <2> QED
      BY <1>3, <1>4, <1>5, <2>1, Zenon
  <1>8. out \in Seq(Nat) /\ Len(out) = got - a /\ \A i \in 1 .. got - a : out[i] = a + i
    BY <1>3, <1>4, <1>7, BytesIs, ZenonT(60)
  <1>9. g <= a + n
    BY <1>2, <1>3, <1>4, <1>6, <1>8 DEF LR!Min2
  <1>10. o = LR!Bytes(a, g)
    <2>1. o = LR!Bytes(a, got) \o LR!Bytes(got, g)
      BY <1>6, <1>7, Zenon
    <2>2. a <= got /\ got <= g
      BY <1>3, <1>4, <1>6
    <2> HIDE DEF o
    <2> QED
      BY <1>3, <2>1, <2>2, BytesJoin, Zenon
  <1>11. Len(o) = g - a /\ o # <<>>
    <2>1. LR!Bytes(a, g) \in Seq(Nat) /\ Len(LR!Bytes(a, g)) = g - a
      BY <1>4, <1>6, BytesIs, Zenon
    <2>2. g - a > 0
      BY <1>3, <1>4, <1>6
    <2> HIDE DEF o
    <2> QED
      BY <1>10, <2>1, <2>2
  <1>12. IF Len(o) = n THEN LR!ReturnWith(o) ELSE out' = o /\ UNCHANGED <<results, fpc>>
    BY <1>2, Zenon
  <1> HIDE DEF o
  <1>13. Pos' = g /\ got' = g /\ left' = 0
    BY <1>1, <1>2, <1>3, <1>6 DEF Pos
  <1>14. CASE Len(o) = n
    <2>1. fpc' = "call" /\ results' = Append(results, o) /\ out' = <<>>
      BY <1>1, <1>11, <1>12, <1>14, Zenon DEF LR!ReturnWith
    <2>2. g = a + n
      BY <1>3, <1>4, <1>6, <1>11, <1>14
    <2>3. LR!EndOf(Begin) = g
      BY <1>1, <1>3, <1>4, <1>6, <2>2 DEF LR!EndOf, LR!Min2
    <2>4. o = LR!Bytes(Begin - 1, LR!Min2(g, Begin - 1 + LR!Room))
      BY <1>3, <1>4, <1>10, <2>2, Zenon DEF LR!Min2
    <2>5. /\ results' \in Seq(Seq(Nat))
          /\ \A i \in 1 .. Len(results') : results'[i] = Piece(i)'
          /\ Begin' = g + 1
      <3>1. Begin <= g /\ LR!Room > 0
        BY <1>3, <1>4, <1>5, <1>6
      <3> QED
        BY <1>1, <1>3, <2>1, <2>3, <2>4, <3>1, Returned, Zenon
    <2>6. LRTyped'
      BY <1>1, <1>3, <1>6, <1>13, <2>1, <2>5 DEF LRTyped, LR!input
    <2>7. LR!PiecesInOrder'
      BY <2>1, <2>5, Zenon DEF LR!PiecesInOrder, Piece
    <2>8. Current'
      BY <1>1, <1>5, <1>6, <1>13, <2>1, <2>5, Restart, Zenon
    <2> QED
      BY <2>6, <2>7, <2>8, Zenon
  <1>15. CASE Len(o) # n
    <2>1. out' = o /\ UNCHANGED <<results, fpc>>
      BY <1>12, <1>15, Zenon
    <2>2. LR!PiecesInOrder' /\ Begin' = Begin
      BY <1>1, <2>1, Still, Zenon
    <2>3. LRTyped'
      BY <1>1, <1>3, <1>6, <1>13, <2>1 DEF LRTyped, LR!input
    <2>4. g - a < n
      BY <1>3, <1>4, <1>6, <1>9, <1>11, <1>15
    <2>5. Current'
      <3>1. Begin' - 1 = a /\ Begin' <= Pos' + 1 /\ Pos' + 1 - Begin' < n /\ Begin' \in Nat /\ Begin' > 0
        BY <1>3, <1>4, <1>6, <1>13, <2>2, <2>4
      <3>2. LR!Room' = n /\ n' = n /\ fn' = "readn"
        BY <1>1, <1>3, SameEnds, Zenon DEF LR!input
      <3>3. LR!Min2(Pos', a + LR!Room') = g
        BY <1>3, <1>6, <1>13, <2>4, <3>2 DEF LR!Min2
      <3>4. out' = LR!Bytes(Begin' - 1, LR!Min2(Pos', Begin' - 1 + LR!Room'))
        BY <1>10, <2>1, <3>1, <3>3, Zenon
      <3> QED
        BY <1>3, <1>5, <3>1, <3>2, <3>4 DEF Current, LR!Bytes, LR!Min2
    <2> QED
      BY <2>2, <2>3, <2>5, Zenon
  <1> QED
    BY <1>14, <1>15, Zenon

(* What the buffer holds. *)
LEMMA OutTyped ==
    ASSUME LRInv, fpc = "call", n > 0 PROVE out \in Seq(Nat)
  <1>1. PICK a \in Nat : a = Begin - 1 /\ a <= Pos /\ Pos \in Nat /\ LR!Room \in Nat
    BY RoomIs DEF LRInv, Current, LRTyped, Pos
  <1>2. PICK m \in Nat : m = LR!Min2(Pos, a + LR!Room) /\ a <= m
    BY <1>1 DEF LR!Min2
  <1>3. out = LR!Bytes(a, m)
    BY <1>1, <1>2, Zenon DEF LRInv, Current
  <1> QED
    BY <1>2, <1>3, BytesIs, Zenon

(* A piece is a sequence of bytes. *)
LEMMA ReturnTyped ==
    ASSUME LRTyped, fpc = "call", NEW o \in Seq(Nat), LR!ReturnWith(o)
    PROVE  results' \in Seq(Seq(Nat)) /\ fpc' \in {"call", "eof", "error"}
  <1>0. results \in Seq(Seq(Nat))
    BY Zenon DEF LRTyped
  <1>1. CASE o = <<>>
    BY <1>0, <1>1, Zenon DEF LR!ReturnWith
  <1>2. CASE o # <<>>
    <2>1. results' = Append(results, o) /\ fpc' = fpc
      BY <1>2, Zenon DEF LR!ReturnWith
    <2> QED
      BY <1>0, <2>1
  <1> QED
    BY <1>1, <1>2, Zenon

(* So is what a byte completes. *)
LEMMA StoreTyped ==
    ASSUME LRInv, fpc = "call", n > 0, NEW b \in Nat, NEW max, LR!Store(b, max)
    PROVE  results' \in Seq(Seq(Nat)) /\ fpc' \in {"call", "eof", "error"}
  <1>1. PICK o \in Seq(Nat) : LR!ReturnWith(o) \/ UNCHANGED <<results, fpc>>
    <2>1. (IF Len(out) < max THEN Append(out, b) ELSE out) \in Seq(Nat)
      BY OutTyped
    <2> QED
      BY <2>1, Zenon DEF LR!Store
  <1>2. CASE LR!ReturnWith(o)
    BY <1>2, ReturnTyped, Zenon DEF LRInv
  <1>3. CASE UNCHANGED <<results, fpc>>
    BY <1>3, Zenon DEF LRInv, LRTyped
  <1> QED
    BY <1>1, <1>2, <1>3, Zenon

(* Every step of the three functions keeps LRInv. *)
LEMMA LRNext == LRInv /\ [LR!Next]_(LR!lineVars) => LRInv'
  <1> SUFFICES ASSUME LRInv, [LR!Next]_(LR!lineVars) PROVE LRInv' BY Zenon
  <1> USE DEF LRInv
  <1>0. n \in Nat /\ got \in Nat /\ left \in Nat /\ streamLen \in Nat /\ left <= got /\ got <= streamLen
    BY Zenon DEF LRTyped
  <1>1. CASE LR!Reject
    <2>1. /\ n = 0 /\ fpc' # "call" /\ fpc' \in {"eof", "error"} /\ UNCHANGED <<LR!input, results>>
          /\ UNCHANGED <<got, left, out>>
      BY <1>1, Zenon DEF LR!Reject
    <2>2. LR!PiecesInOrder'
      BY <2>1, Still, Zenon
    <2>3. LRTyped'
      BY <2>1, Zenon DEF LRTyped, LR!input
    <2> QED
      BY <2>1, <2>2, <2>3, Zenon DEF Current
  <1>2. CASE LR!readLine
    <2>1. /\ fpc = "call" /\ fn = "readLine" /\ n > 0 /\ got < streamLen /\ got' = got + 1
          /\ LR!Store(got + 1, n - 1) /\ UNCHANGED LR!input /\ left' = left
      BY <1>2, Zenon DEF LR!readLine
    <2>2. left = 0 /\ Pos = got /\ Pos' = got + 1 /\ LR!Room = n - 1
      BY <1>0, <2>1 DEF LRTyped, Pos, LR!Room
    <2>3. LR!Store(Pos + 1, LR!Room)
      BY <2>1, <2>2, Zenon
    <2>4. LRTyped'
      BY <1>0, <2>1, <2>2, <2>3, StoreTyped DEF LRTyped, LR!input
    <2> QED
      BY <2>1, <2>2, <2>3, <2>4, Stored, Zenon
  <1>3. CASE LR!readLineBuf
    <2>1. /\ fpc = "call" /\ fn = "readLineBuf" /\ n > 0 /\ left > 0 /\ left' = left - 1
          /\ LR!Store(got - left + 1, n) /\ UNCHANGED LR!input /\ got' = got
      BY <1>3, Zenon DEF LR!readLineBuf
    <2>2. Pos = got - left /\ Pos' = Pos + 1 /\ LR!Room = n /\ Pos < streamLen
      BY <1>0, <2>1 DEF Pos, LR!Room
    <2>3. LR!Store(Pos + 1, LR!Room)
      BY <2>1, <2>2, Zenon
    <2>4. LRTyped'
      BY <1>0, <2>1, <2>2, <2>3, StoreTyped DEF LRTyped, LR!input
    <2> QED
      BY <2>1, <2>2, <2>3, <2>4, Stored, Zenon
  <1>4. CASE LR!Fill
    <2>1. /\ fpc = "call" /\ fn = "readLineBuf" /\ n > 0 /\ left = 0 /\ got < streamLen
          /\ UNCHANGED <<LR!input, results>> /\ UNCHANGED <<out, fpc>>
      BY <1>4, Zenon DEF LR!Fill
    <2>2. PICK k \in 1 .. LR!Min2(BufSize, streamLen - got) : got' = got + k /\ left' = k
      BY <1>4, Zenon DEF LR!Fill
    <2>3. k \in Nat /\ got + k <= streamLen
      BY <1>0, <2>1, <2>2, BoundAssumption DEF LR!Min2
    <2>4. LRTyped'
      BY <1>0, <2>1, <2>2, <2>3 DEF LRTyped, LR!input
    <2>5. LR!PiecesInOrder' /\ Begin' = Begin
      BY <2>1, Still, Zenon
    <2>6. Pos' = Pos /\ LR!Room' = LR!Room
      BY <1>0, <2>1, <2>2, <2>3, SameEnds DEF Pos
    <2>7. Current'
      BY <2>1, <2>5, <2>6, Zenon DEF Current, LR!input, LR!Bytes, LR!Min2
    <2> QED
      BY <2>4, <2>5, <2>7, Zenon
  <1>5. CASE LR!readn
    BY <1>5, LRReadn, Zenon
  <1>6. CASE LR!AtEnd
    <2>1. /\ fpc = "call" /\ n > 0 /\ got = streamLen /\ left = 0 /\ LR!ReturnWith(out)
          /\ UNCHANGED LR!input /\ UNCHANGED <<got, left>>
      BY <1>6, Zenon DEF LR!AtEnd
    <2>2. Pos' = Pos /\ Pos = streamLen
      BY <1>0, <2>1 DEF Pos
    <2>3. results' \in Seq(Seq(Nat)) /\ fpc' \in {"call", "eof", "error"}
      <3>1. out \in Seq(Nat)
        BY <2>1, OutTyped, Zenon
      <3> QED
        BY <2>1, <3>1, ReturnTyped, Zenon
    <2>4. LRTyped'
      BY <1>0, <2>1, <2>3, Zenon DEF LRTyped, LR!input
    <2> QED
      BY <2>1, <2>2, <2>4, Ended, Zenon
  <1>7. CASE LR!Fail
    <2>1. /\ fpc' = "error" /\ UNCHANGED <<LR!input, results>> /\ UNCHANGED <<got, left, out>>
      BY <1>7, Zenon DEF LR!Fail
    <2>2. LR!PiecesInOrder'
      BY <2>1, Still, Zenon
    <2>3. LRTyped'
      BY <2>1, Zenon DEF LRTyped, LR!input
    <2> QED
      BY <2>1, <2>2, <2>3, Zenon DEF Current
  <1>8. CASE UNCHANGED LR!lineVars
    <2>1. UNCHANGED <<LR!input, results>> /\ UNCHANGED <<got, left, out, fpc>>
      BY <1>8, Zenon DEF LR!lineVars, LR!input
    <2>2. LR!PiecesInOrder' /\ Begin' = Begin
      BY <2>1, Still, Zenon
    <2>3. LRTyped'
      BY <2>1, Zenon DEF LRTyped, LR!input
    <2>4. Pos' = Pos /\ LR!Room' = LR!Room
      BY <2>1, SameEnds, Zenon DEF Pos
    <2>5. Current'
      BY <2>1, <2>2, <2>4, Zenon DEF Current, LR!input, LR!Bytes, LR!Min2
    <2> QED
      BY <2>2, <2>3, <2>5, Zenon
  <1> QED
    BY <1>1, <1>2, <1>3, <1>4, <1>5, <1>6, <1>7, <1>8, Zenon DEF LR!Next

-----------------------------------------------------------------------------
(* AclUpdate: acl_update *)

VARIABLES
    opt, recalcMask, useDefaultACL, aclist, lpc, fileAcl, acl, fno, en, orig

AU == INSTANCE AclUpdate

AUTyped ==
    /\ opt \in {"m", "x", "k", "V", "several"} /\ useDefaultACL \in BOOLEAN
    /\ aclist \in Seq(AU!EntrySpec) /\ fno \in 1 .. NumFiles + 1 /\ en \in 0 .. Len(aclist)
    /\ DOMAIN fileAcl = AU!File /\ \A f \in AU!File : DOMAIN fileAcl[f] = AU!Type
    /\ \A f \in AU!File : \A y \in AU!Type : orig[f][y] \in {AU!Minimal, AU!Extended, <<>>}

(* Where the program is, and what it has in memory *)
Reached ==
    /\ lpc \in {"options", "file", "entry", "success", "failed"}
    /\ lpc = "options" => fno = 1 /\ en = 0
    /\ lpc \in {"file", "entry"} => opt \in {"m", "x", "k"}
    /\ lpc \in {"file", "entry"} /\ opt # "k" => \A i \in 1 .. Len(aclist) : aclist[i].tag \in AU!Tag
    /\ lpc = "file" => en = 0
    /\ lpc = "entry" => opt # "k" /\ fno <= NumFiles /\ acl = fileAcl[fno][AU!type]

AUInv == AUTyped /\ Reached /\ AU!AclsValid /\ AU!AclPrefix

(* The list that is changed is one of the two a file has. *)
LEMMA TypeIs == AU!type \in AU!Type
  BY Zenon DEF AU!type, AU!Type

(* The entries of one more. *)
LEMMA ForNext ==
    ASSUME NEW h \in Nat, NEW t
    PROVE  AU!For(t, h + 1) = IF aclist[h + 1].tag = t THEN AU!For(t, h) \cup {h + 1} ELSE AU!For(t, h)
  BY DEF AU!For

(* The last entry of a tag decides its permissions. *)
LEMMA GivenNext ==
    ASSUME NEW h \in Nat
    PROVE  AU!Given(aclist[h + 1].tag, h + 1) = aclist[h + 1].perms
  <1> DEFINE F == AU!For(aclist[h + 1].tag, h + 1)
  <1>1. h + 1 \in F /\ \A k \in F : k \in 1 .. h + 1
    BY DEF AU!For
  <1>2. \A i \in F : (\A k \in F : k <= i) => i = h + 1
    BY <1>1
  <1>3. \A k \in F : k <= h + 1
    BY <1>1
  <1>4. (CHOOSE i \in F : \A k \in F : k <= i) = h + 1
    BY <1>1, <1>2, <1>3, Zenon
  <1> QED
    BY <1>4, Zenon DEF AU!Given

(* Without an entry the list is as it was. *)
LEMMA PlainZero ==
    ASSUME NEW old \in {AU!Minimal, AU!Extended, <<>>}
    PROVE  AU!Expected(old, 0) = old
  <1>1. \A t : AU!For(t, 0) = {}
    BY DEF AU!For
  <1>2. AU!Tags(old, 0) = DOMAIN old
    BY <1>1, Zenon DEF AU!Tags
  <1>3. AU!Plain(old, 0) = [t \in DOMAIN old |-> old[t]]
    BY <1>1, <1>2, Zenon DEF AU!Plain
  <1>4. old = [t \in DOMAIN old |-> old[t]]
    <2>1. CASE old = AU!Minimal
      BY <2>1, Zenon DEF AU!Minimal
    <2>2. CASE old = AU!Extended
      BY <2>2, Zenon DEF AU!Extended
    <2>3. CASE old = <<>>
      BY <2>3
    <2> QED
      BY <2>1, <2>2, <2>3, Zenon
  <1> QED
    BY <1>3, <1>4, Zenon DEF AU!Expected

(* The expected list grows as the program changes it. *)
LEMMA TagsNext ==
    ASSUME NEW h \in Nat, NEW old, aclist[h + 1].tag \in AU!Tag
    PROVE  AU!Tags(old, h + 1) = IF opt = "x" THEN AU!Tags(old, h) \ {aclist[h + 1].tag}
                                 ELSE AU!Tags(old, h) \cup {aclist[h + 1].tag}
  <1> DEFINE g == aclist[h + 1].tag
  <1>1. \A t : AU!For(t, h + 1) = IF g = t THEN AU!For(t, h) \cup {h + 1} ELSE AU!For(t, h)
    BY ForNext, Zenon
  <1>2. AU!For(g, h + 1) # {} /\ \A t : t # g => AU!For(t, h + 1) = AU!For(t, h)
    BY <1>1, Zenon
  <1> QED
    BY <1>2, Zenon DEF AU!Tags

(* And so do the permissions of its tags. *)
LEMMA PlainNext ==
    ASSUME NEW h \in Nat, NEW old, NEW t \in AU!Tags(old, h + 1), aclist[h + 1].tag \in AU!Tag
    PROVE  AU!Plain(old, h + 1)[t] = IF t = aclist[h + 1].tag THEN aclist[h + 1].perms
                                     ELSE AU!Plain(old, h)[t]
  <1> DEFINE g == aclist[h + 1].tag
  <1>1. CASE t = g
    <2>1. AU!For(t, h + 1) # {}
      BY <1>1, ForNext, Zenon
    <2> QED
      BY <1>1, <2>1, GivenNext, Zenon DEF AU!Plain
  <1>2. CASE t # g
    <2>1. AU!For(t, h + 1) = AU!For(t, h)
      BY <1>2, ForNext, Zenon
    <2>2. AU!Tags(old, h + 1) = IF opt = "x" THEN AU!Tags(old, h) \ {g} ELSE AU!Tags(old, h) \cup {g}
      BY TagsNext, Zenon
    <2>3. t \in AU!Tags(old, h)
      BY <1>2, <2>2, Zenon
    <2>4. AU!Given(t, h + 1) = AU!Given(t, h)
      BY <2>1, Zenon DEF AU!Given
    <2> QED
      BY <1>2, <2>1, <2>3, <2>4, Zenon DEF AU!Plain
  <1> QED
    BY <1>1, <1>2, Zenon

(* Both together: one step of the loop over the entries. *)
LEMMA ExpectedNext ==
    ASSUME NEW h \in Nat, NEW old, opt \in {"m", "x"}, aclist[h + 1].tag \in AU!Tag
    PROVE  AU!Expected(old, h + 1) =
             IF recalcMask THEN AU!acl_calc_mask(AU!Applied(AU!Expected(old, h), aclist[h + 1]))
             ELSE AU!Applied(AU!Expected(old, h), aclist[h + 1])
  <1> DEFINE e == aclist[h + 1]
             g == e.tag
             E == AU!Expected(old, h)
             a == AU!Applied(E, e)
             T == AU!Tags(old, h + 1)
             Q == AU!Plain(old, h + 1)
  <1>1. /\ T = IF opt = "x" THEN AU!Tags(old, h) \ {g} ELSE AU!Tags(old, h) \cup {g}
        /\ \A t \in T : Q[t] = IF t = g THEN e.perms ELSE AU!Plain(old, h)[t]
    <2>1. AU!Tags(old, h + 1) = IF opt = "x" THEN AU!Tags(old, h) \ {aclist[h + 1].tag}
                                ELSE AU!Tags(old, h) \cup {aclist[h + 1].tag}
      BY TagsNext, Zenon
    <2>2. \A t \in AU!Tags(old, h + 1) :
            AU!Plain(old, h + 1)[t] = IF t = aclist[h + 1].tag THEN aclist[h + 1].perms ELSE AU!Plain(old, h)[t]
      BY PlainNext, Zenon
    <2> QED BY <2>1, <2>2, Zenon
  <1>2. Q = [t \in T |-> Q[t]] /\ DOMAIN AU!Plain(old, h) = AU!Tags(old, h)
    BY Zenon DEF AU!Plain
  <1>3. DOMAIN a = IF opt = "x" THEN DOMAIN E \ {g} ELSE DOMAIN E \cup {g}
    BY Zenon DEF AU!Applied, AU!With, AU!Without
  <1>4. a = [t \in DOMAIN a |-> a[t]]
    BY Zenon DEF AU!Applied, AU!With, AU!Without
  <1>5. \A t \in DOMAIN a : a[t] = IF t = g THEN e.perms ELSE E[t]
    <2>1. CASE opt = "x"
      <3>1. a = [t \in DOMAIN E \ {g} |-> E[t]]
        BY <2>1, Zenon DEF AU!Applied, AU!Without
      <3> QED
        BY <3>1, Zenon
    <2>2. CASE opt # "x"
      <3>1. a = [t \in DOMAIN E \cup {g} |-> IF t = g THEN e.perms ELSE E[t]]
        BY <2>2, Zenon DEF AU!Applied, AU!With
      <3> QED
        BY <3>1, Zenon
    <2> QED
      BY <2>1, <2>2, Zenon
  <1>6. CASE ~recalcMask
    <2>1. E = AU!Plain(old, h) /\ AU!Expected(old, h + 1) = Q
      BY <1>6, Zenon DEF AU!Expected
    <2>2. DOMAIN a = T /\ \A t \in T : a[t] = Q[t]
      BY <1>1, <1>2, <1>3, <1>5, <2>1, Zenon
    <2>3. a = Q
      BY <1>2, <1>4, <2>2, Zenon
    <2> QED
      BY <1>6, <2>1, <2>3, Zenon
  <1>7. CASE recalcMask
    <2>1. /\ DOMAIN E \cup {"m"} = AU!Tags(old, h) \cup {"m"}
          /\ \A t \in AU!Tags(old, h) \ {"m"} : E[t] = AU!Plain(old, h)[t]
      BY <1>2, <1>7, Zenon DEF AU!Expected
    <2>2. /\ DOMAIN a \cup {"m"} = T \cup {"m"}
          /\ \A t \in T \ {"m"} : a[t] = Q[t]
      BY <1>1, <1>3, <1>5, <2>1, Zenon
    <2>3. DOMAIN a \cap AU!GroupClass = T \cap AU!GroupClass /\ \A t \in T \cap AU!GroupClass : a[t] = Q[t]
      BY <2>2, Zenon DEF AU!GroupClass
    <2>4. {a[t] : t \in DOMAIN a \cap AU!GroupClass} = {Q[t] : t \in T \cap AU!GroupClass}
      BY <2>3, Zenon
    <2>5. AU!acl_calc_mask(a) = [t \in T \cup {"m"} |->
              IF t = "m" THEN UNION {Q[q] : q \in T \cap AU!GroupClass} ELSE Q[t]]
      BY <2>2, <2>4, Zenon DEF AU!acl_calc_mask, AU!With
    <2>6. AU!Expected(old, h + 1) = [t \in T \cup {"m"} |->
              IF t = "m" THEN UNION {Q[q] : q \in T \cap AU!GroupClass} ELSE Q[t]]
      BY <1>7 DEF AU!Expected
    <2> QED
      BY <1>7, <2>5, <2>6, Zenon
  <1> QED
    BY <1>6, <1>7, Zenon

(* Every list a file may have at the start is valid. *)
LEMMA AUInit == AU!Init => AUInv
  <1> SUFFICES ASSUME AU!Init PROVE AUInv BY Zenon
  <1> USE BoundAssumption
  <1>1. aclist \in Seq(AU!EntrySpec) /\ Len(aclist) \in Nat
    <2>1. CASE aclist \in UNION {[1 .. h -> AU!EntrySpec] : h \in 1 .. MAX_ENTRIES}
      <3>1. PICK h \in 1 .. MAX_ENTRIES : aclist \in [1 .. h -> AU!EntrySpec]
        BY <2>1, Zenon
      <3> QED
        BY <3>1
    <2>2. CASE aclist \in {[i \in 1 .. MAX_ENTRIES + 1 |-> e] : e \in AU!EntrySpec}
      <3>1. MAX_ENTRIES + 1 \in Nat /\ aclist \in [1 .. MAX_ENTRIES + 1 -> AU!EntrySpec]
        BY <2>2
      <3> QED
        BY <3>1
    <2>3. aclist \in AU!Lists
      BY DEF AU!Init
    <2> QED
      BY <2>1, <2>2, <2>3, Zenon DEF AU!Lists
  <1>2. PICK a \in {AU!Minimal, AU!Extended}, d \in {<<>>, AU!Minimal} :
            orig = [f \in AU!File |-> [access |-> a, default |-> d]]
    BY DEF AU!Init
  <1>3. /\ DOMAIN orig = AU!File
        /\ \A f \in AU!File : /\ DOMAIN orig[f] = AU!Type
                              /\ orig[f]["access"] = a /\ orig[f]["default"] = d
    BY <1>2, Zenon DEF AU!Type
  <1>4. fileAcl = orig /\ fno = 1 /\ en = 0 /\ lpc = "options"
    BY Zenon DEF AU!Init
  <1>5. AUTyped
    <2>1. 1 \in 1 .. NumFiles + 1 /\ 0 \in 0 .. Len(aclist)
      BY <1>1
    <2> QED
      BY <1>1, <1>3, <1>4, <2>1 DEF AUTyped, AU!Init, AU!Type
  <1>6. Reached
    BY <1>4, Zenon DEF Reached
  <1>7. AU!AclsValid
    BY <1>3, <1>4 DEF AU!AclsValid, AU!acl_valid, AU!Minimal, AU!Extended, AU!Required, AU!Tag
  <1>8. AU!AclPrefix
    BY <1>4, <1>5, PlainZero DEF AU!AclPrefix, AUTyped, AU!File
  <1> QED
    BY <1>5, <1>6, <1>7, <1>8, Zenon DEF AUInv

(* No one entry makes a list complete that was empty. *)
LEMMA EmptyStays ==
    ASSUME NEW e, NEW b, b \in {AU!Applied(<<>>, e), AU!acl_calc_mask(AU!Applied(<<>>, e))}
    PROVE  ~AU!acl_valid(b)
  <1>1. DOMAIN AU!Applied(<<>>, e) \subseteq {e.tag}
    BY DEF AU!Applied, AU!With, AU!Without
  <1>2. DOMAIN b \subseteq {e.tag, "m"}
    BY <1>1 DEF AU!acl_calc_mask, AU!With
  <1> QED
    BY <1>2, Zenon DEF AU!acl_valid, AU!Required

(* Every step of acl_update keeps AUInv. *)
LEMMA AUNext == AUInv /\ [AU!Next]_(AU!aclVars) => AUInv'
  <1> SUFFICES ASSUME AUInv, [AU!Next]_(AU!aclVars) PROVE AUInv' BY Zenon
  <1> USE BoundAssumption, TypeIs DEF AUInv
  <1>1. ASSUME UNCHANGED <<opt, recalcMask, useDefaultACL, aclist, orig>>
        PROVE  /\ AU!type' = AU!type /\ \A old, h : AU!Expected(old, h)' = AU!Expected(old, h)
               /\ \A a, e : AU!Applied(a, e)' = AU!Applied(a, e)
    <2>1. \A t, h : AU!For(t, h)' = AU!For(t, h) /\ AU!Given(t, h)' = AU!Given(t, h)
      BY <1>1, Zenon DEF AU!For, AU!Given
    <2>2. \A old, h : AU!Tags(old, h)' = AU!Tags(old, h)
      BY <1>1, <2>1, Zenon DEF AU!Tags
    <2>3. \A old, h : AU!Plain(old, h)' = AU!Plain(old, h)
      BY <2>1, <2>2, Zenon DEF AU!Plain
    <2>4. \A old, h : AU!Expected(old, h)' = AU!Expected(old, h)
      BY <1>1, <2>2, <2>3, ZenonT(60) DEF AU!Expected
    <2> QED
      BY <1>1, <2>4, Zenon DEF AU!type, AU!Applied
  <1>2. CASE AU!Options
    <2>1. /\ lpc = "options" /\ lpc' \in {"failed", "success", "file"}
          /\ UNCHANGED <<opt, recalcMask, useDefaultACL, aclist, orig, fileAcl, acl, fno, en>>
      BY <1>2, Zenon DEF AU!Options, AU!options
    <2>2. /\ lpc' = "file" => opt \in {"m", "x", "k"}
          /\ lpc' = "file" /\ opt # "k" => \A i \in 1 .. Len(aclist) : aclist[i].tag \in AU!Tag
          /\ lpc' = "success" => opt = "V"
      BY <1>2 DEF AU!Options, AU!parseACL, AU!parseEntrySpec, AUTyped
    <2>3. AUTyped' /\ Reached'
      BY <2>1, <2>2, Zenon DEF AUTyped, Reached
    <2>4. AU!AclsValid'
      BY <2>1, Zenon DEF AU!AclsValid
    <2>5. AU!AclPrefix'
      BY <1>1, <2>1, <2>2 DEF AU!AclPrefix
    <2> QED
      BY <2>3, <2>4, <2>5, Zenon
  <1>3. CASE AU!Finish \/ AU!Fail
    <2>1. /\ lpc \in {"file", "entry"} /\ lpc' \in {"failed", "success"} /\ (lpc' = "success" => fno > NumFiles)
          /\ UNCHANGED <<opt, recalcMask, useDefaultACL, aclist, orig, fileAcl, acl, fno, en>>
      BY <1>3, Zenon DEF AU!Finish, AU!Fail, AU!options
    <2>2. AUTyped' /\ Reached'
      BY <2>1, Zenon DEF AUTyped, Reached
    <2>3. AU!AclsValid'
      BY <2>1, Zenon DEF AU!AclsValid
    <2>4. AU!AclPrefix'
      BY <1>1, <2>1 DEF AU!AclPrefix
    <2> QED
      BY <2>2, <2>3, <2>4, Zenon
  <1>4. CASE AU!DeleteDefault
    <2>1. /\ lpc = "file" /\ fno \in AU!File /\ opt = "k" /\ fno' = fno + 1
          /\ fileAcl' = [fileAcl EXCEPT ![fno]["default"] = <<>>]
          /\ UNCHANGED <<opt, recalcMask, useDefaultACL, aclist, orig, lpc, acl, en>>
      BY <1>4 DEF AU!DeleteDefault, AU!options, AUTyped, AU!File
    <2>2. /\ DOMAIN fileAcl' = AU!File /\ \A f \in AU!File : DOMAIN fileAcl'[f] = AU!Type
          /\ fileAcl'[fno]["default"] = <<>> /\ fileAcl'[fno]["access"] = fileAcl[fno]["access"]
          /\ \A f \in AU!File \ {fno} : fileAcl'[f] = fileAcl[f]
      BY <2>1, Zenon DEF AUTyped, AU!Type
    <2>3. AUTyped'
      BY <2>1, <2>2, SMTT(30) DEF AUTyped, AU!File
    <2>4. Reached'
      BY <2>1, Zenon DEF Reached
    <2>5. AU!AclsValid'
      BY <2>1, <2>2, Zenon DEF AU!AclsValid
    <2>6. AU!AclPrefix'
      BY <2>1, Zenon DEF AU!AclPrefix
    <2> QED
      BY <2>3, <2>4, <2>5, <2>6, Zenon
  <1>5. CASE AU!GetFile
    <2>1. /\ lpc = "file" /\ fno <= NumFiles /\ opt # "k" /\ acl' = fileAcl[fno][AU!type] /\ lpc' = "entry"
          /\ UNCHANGED <<opt, recalcMask, useDefaultACL, aclist, orig, fileAcl, fno, en>>
      BY <1>5, Zenon DEF AU!GetFile, AU!options
    <2>2. AUTyped' /\ Reached'
      BY <1>1, <2>1, Zenon DEF AUTyped, Reached
    <2>3. AU!AclsValid'
      BY <2>1, Zenon DEF AU!AclsValid
    <2>4. AU!AclPrefix'
      BY <1>1, <2>1 DEF AU!AclPrefix
    <2> QED
      BY <2>2, <2>3, <2>4, Zenon
  <1>6. CASE AU!Entry
    <2> DEFINE e == aclist[en + 1]
               a == AU!Applied(acl, e)
               b == IF recalcMask THEN AU!acl_calc_mask(a) ELSE a
    <2>1. /\ lpc = "entry" /\ en < Len(aclist) /\ UNCHANGED <<opt, recalcMask, useDefaultACL, aclist, orig, fno>>
          /\ acl' = b
      BY <1>6, Zenon DEF AU!Entry, AU!options
    <2>2. /\ fno \in AU!File /\ en \in Nat /\ en + 1 \in 1 .. Len(aclist) /\ opt \in {"m", "x"} /\ e.tag \in AU!Tag
          /\ acl = fileAcl[fno][AU!type] /\ Len(aclist) \in Nat
      BY <2>1 DEF Reached, AUTyped, AU!File
    <2>3. CASE ~AU!acl_valid(b)
      <3>1. lpc' = "failed" /\ UNCHANGED <<fileAcl, en>>
        BY <1>6, <2>3, Zenon DEF AU!Entry
      <3>2. AUTyped' /\ Reached'
        BY <2>1, <3>1, Zenon DEF AUTyped, Reached
      <3>3. AU!AclsValid'
        BY <2>1, <3>1, Zenon DEF AU!AclsValid
      <3>4. AU!AclPrefix'
        BY <1>1, <2>1, <3>1 DEF AU!AclPrefix
      <3> QED
        BY <3>2, <3>3, <3>4, Zenon
    <2>4. CASE AU!acl_valid(b)
      <3>1. /\ fileAcl' = [fileAcl EXCEPT ![fno][AU!type] = b] /\ en' = en + 1 /\ lpc' = lpc
        BY <1>6, <2>4, Zenon DEF AU!Entry
      <3>2. /\ DOMAIN fileAcl' = AU!File /\ \A f \in AU!File : DOMAIN fileAcl'[f] = AU!Type
            /\ fileAcl'[fno][AU!type] = b
            /\ \A f \in AU!File, y \in AU!Type : f # fno \/ y # AU!type => fileAcl'[f][y] = fileAcl[f][y]
        BY <2>2, <3>1, Zenon DEF AUTyped
      <3>3. AUTyped'
        BY <2>1, <2>2, <3>1, <3>2 DEF AUTyped
      <3>4. Reached'
        BY <1>1, <2>1, <2>2, <3>1, <3>2, Zenon DEF Reached
      <3>5. fileAcl[fno][AU!type] # <<>>
        BY <2>2, <2>4, EmptyStays, Zenon
      <3>6. AU!AclsValid'
        BY <2>1, <2>2, <2>4, <3>2, <3>5, ZenonT(60) DEF AU!AclsValid, AU!Type, AU!type
      <3>7. b = AU!Expected(orig[fno][AU!type], en + 1)
        <4>1. acl = AU!Expected(orig[fno][AU!type], en)
          BY <2>2 DEF AU!AclPrefix, AUTyped
        <4> QED
          BY <2>2, <4>1, ExpectedNext
      <3>8. AU!AclPrefix'
        <4>1. ASSUME NEW f \in AU!File, NEW y \in AU!Type
              PROVE  fileAcl'[f][y] = IF y # AU!type \/ f > fno THEN orig[f][y]
                                      ELSE AU!Expected(orig[f][y], IF f < fno THEN Len(aclist) ELSE en + 1)
          <5>1. CASE f = fno /\ y = AU!type
            BY <2>2, <3>2, <3>7, <5>1 DEF AU!File
          <5>2. CASE f # fno \/ y # AU!type
            <6>1. f \in Nat /\ fno \in Nat
              BY <2>2 DEF AU!File
            <6>2. fileAcl[f][y] = IF y # AU!type \/ f > fno THEN orig[f][y]
                                  ELSE AU!Expected(orig[f][y], IF f < fno THEN Len(aclist) ELSE en)
              BY <2>2, Zenon DEF AU!AclPrefix
            <6> QED
              BY <3>2, <5>2, <6>1, <6>2
          <5> QED
            BY <5>1, <5>2, Zenon
        <4> QED
          BY <1>1, <2>1, <3>1, <4>1 DEF AU!AclPrefix
      <3> QED
        BY <3>3, <3>4, <3>6, <3>8, Zenon
    <2> QED
      BY <2>3, <2>4, Zenon
  <1>7. CASE AU!FileDone
    <2>1. /\ lpc = "entry" /\ en = Len(aclist) /\ lpc' = "file" /\ fno' = fno + 1 /\ en' = 0
          /\ UNCHANGED <<opt, recalcMask, useDefaultACL, aclist, orig, fileAcl, acl>>
      BY <1>7, Zenon DEF AU!FileDone, AU!options
    <2>2. fno \in AU!File /\ opt \in {"m", "x"} /\ Len(aclist) \in Nat
      BY <2>1 DEF Reached, AUTyped, AU!File
    <2>3. AUTyped' /\ Reached'
      BY <2>1, <2>2 DEF AUTyped, Reached, AU!File
    <2>4. AU!AclsValid'
      BY <2>1, Zenon DEF AU!AclsValid
    <2>5. ASSUME NEW f \in AU!File, NEW y \in AU!Type
          PROVE  fileAcl[f][y] = IF y # AU!type \/ f > fno + 1 THEN orig[f][y]
                                 ELSE AU!Expected(orig[f][y], IF f < fno + 1 THEN Len(aclist) ELSE 0)
      <3>1. f \in Nat /\ fno \in Nat
        BY <2>2 DEF AU!File
      <3>2. fileAcl[f][y] = IF y # AU!type \/ f > fno THEN orig[f][y]
                            ELSE AU!Expected(orig[f][y], IF f < fno THEN Len(aclist) ELSE Len(aclist))
        BY <2>1, <2>2, Zenon DEF AU!AclPrefix
      <3>3. AU!Expected(orig[f][y], 0) = orig[f][y]
        BY PlainZero, Zenon DEF AUTyped
      <3> QED
        BY <3>1, <3>2, <3>3
    <2>6. AU!AclPrefix'
      BY <1>1, <2>1, <2>5 DEF AU!AclPrefix
    <2> QED
      BY <2>3, <2>4, <2>6, Zenon
  <1>8. CASE UNCHANGED AU!aclVars
    BY <1>1, <1>8 DEF AU!aclVars, AUTyped, Reached, AU!AclsValid, AU!AclPrefix
  <1> QED
    BY <1>2, <1>3, <1>4, <1>5, <1>6, <1>7, <1>8, Zenon DEF AU!Next

(* AUInv contains what is claimed of the lists. *)
LEMMA AUMeans == AUInv => AU!AclsValid /\ AU!AclPrefix
  BY Zenon DEF AUInv

-----------------------------------------------------------------------------
(* FileAppend: atomic_append *)

VARIABLES
    useLseek, apc, off, j, file

FA == INSTANCE FileAppend

FATyped ==
    /\ useLseek \in [Writer -> BOOLEAN]
    /\ apc \in [Writer -> {"open", "lseek", "write", "done", "failed"}]
    /\ j \in [Writer -> Nat] /\ off \in [Writer -> Nat]
    /\ file \in Seq(Writer \X Nat)

(* A process that has sought to the end has not written behind it. *)
FAOffset ==
    \A w \in Writer :
        /\ off[w] <= Len(file)
        /\ useLseek[w] /\ apc[w] = "write" =>
             \A i \in 1 .. Len(file) : file[i][1] = w => i <= off[w]

FAInv == FATyped /\ FAOffset /\ FA!AppendKeepsAll

(* The file is empty. *)
LEMMA FAInit == FA!Init => FAInv
  BY DEF FA!Init, FAInv, FATyped, FAOffset, FA!AppendKeepsAll

(* The head of the loop. *)
LEMMA FALoop ==
    ASSUME FATyped, NEW w \in Writer, NEW h, FA!Loop(w, h)
    PROVE  /\ apc' \in [Writer -> {"open", "lseek", "write", "done", "failed"}]
           /\ useLseek[w] => apc'[w] # "write"
           /\ \A u \in Writer \ {w} : apc'[u] = apc[u]
  <1>1. PICK to \in {"lseek", "write", "done"} :
            apc' = [apc EXCEPT ![w] = to] /\ (useLseek[w] => to # "write")
    BY Zenon DEF FA!Loop
  <1> QED
    BY <1>1, Zenon DEF FATyped

(* Every open(), lseek() and write() keeps FAInv. *)
LEMMA FANext == FAInv /\ [FA!Next]_(FA!appVars) => FAInv'
  <1> SUFFICES ASSUME FAInv, [FA!Next]_(FA!appVars) PROVE FAInv' BY Zenon
  <1> USE DEF FAInv
  <1>0. Len(file) \in Nat
    BY DEF FATyped
  <1>1. ASSUME UNCHANGED <<useLseek, j, file>> PROVE FA!AppendKeepsAll'
    BY <1>1, ZenonT(60) DEF FA!AppendKeepsAll
  <1>2. ASSUME NEW w \in Writer, FA!Open(w) PROVE FAInv'
    <2>1. FA!Loop(w, 0) /\ UNCHANGED <<useLseek, off, j, file>>
      BY <1>2, Zenon DEF FA!Open
    <2>2. FATyped'
      BY <2>1, FALoop, Zenon DEF FATyped
    <2>3. FAOffset'
      BY <2>1, FALoop, Zenon DEF FAOffset
    <2> QED
      BY <1>1, <2>1, <2>2, <2>3, Zenon
  <1>3. ASSUME NEW w \in Writer, FA!Lseek(w) PROVE FAInv'
    <2>1. /\ apc' = [apc EXCEPT ![w] = "write"] /\ off' = [off EXCEPT ![w] = Len(file)]
          /\ UNCHANGED <<useLseek, j, file>>
      BY <1>3, Zenon DEF FA!Lseek
    <2>2. FATyped'
      BY <1>0, <2>1, Zenon DEF FATyped
    <2>3. FAOffset'
      <3>1. Len(file) \in Nat /\ Len(file) <= Len(file) /\ \A i \in 1 .. Len(file) : i <= Len(file)
        BY <1>0 DEF FATyped
      <3>2. /\ off'[w] = Len(file)
            /\ \A u \in Writer \ {w} : off'[u] = off[u] /\ apc'[u] = apc[u]
        BY <1>0, <2>1, Zenon DEF FATyped
      <3> QED
        BY <1>0, <2>1, <3>1, <3>2, ZenonT(60) DEF FAOffset
    <2> QED
      BY <1>1, <2>1, <2>2, <2>3, Zenon
  <1>4. ASSUME NEW w \in Writer, FA!Write(w) PROVE FAInv'
    <2> DEFINE o == FA!Offset(w)
               c == <<w, j[w] + 1>>
               L == Len(file)
    <2>1. /\ apc[w] = "write" /\ file' = FA!WriteAt(o, c) /\ off' = [off EXCEPT ![w] = o + 1]
          /\ j' = [j EXCEPT ![w] = @ + 1] /\ FA!Loop(w, j[w] + 1) /\ useLseek' = useLseek
      BY <1>4, Zenon DEF FA!Write
    <2>2. o \in Nat /\ o <= L /\ L \in Nat /\ j[w] \in Nat
      BY <1>0 DEF FA!Offset, FATyped, FAOffset
    <2>3. \A i \in 1 .. L : file[i][1] = w => i <= o
      <3>1. CASE useLseek[w]
        BY <2>1, <3>1, Zenon DEF FA!Offset, FAOffset
      <3>2. CASE ~useLseek[w]
        BY <2>2, <3>2 DEF FA!Offset
      <3> QED
        BY <3>1, <3>2, Zenon
    <2>4. /\ file' = [i \in 1 .. (IF o = L THEN o + 1 ELSE L) |-> IF i = o + 1 THEN c ELSE file[i]]
          /\ c \in Writer \X Nat
      BY <2>1, <2>2 DEF FA!WriteAt
    <2>5. /\ file' \in Seq(Writer \X Nat) /\ Len(file') = (IF o = L THEN o + 1 ELSE L)
          /\ file'[o + 1] = c /\ o + 1 \in 1 .. Len(file')
          /\ \A i \in 1 .. Len(file') : i # o + 1 => i \in 1 .. L /\ file'[i] = file[i]
          /\ \A i \in 1 .. L : i \in 1 .. Len(file')
      <3>1. file \in [1 .. L -> Writer \X Nat]
        BY DEF FATyped
      <3>2. CASE o = L
        <4>1. file' = [i \in 1 .. o + 1 |-> IF i = o + 1 THEN c ELSE file[i]]
          BY <2>4, <3>2, Zenon
        <4>2. file' \in [1 .. o + 1 -> Writer \X Nat]
          BY <2>2, <2>4, <3>1, <3>2, <4>1
        <4>3. file' \in Seq(Writer \X Nat) /\ Len(file') = o + 1
          BY <2>2, <4>2
        <4>4. /\ o + 1 \in 1 .. o + 1 /\ \A i \in 1 .. o + 1 : i # o + 1 => i \in 1 .. L
              /\ \A i \in 1 .. L : i \in 1 .. o + 1
          BY <2>2, <3>2
        <4> QED
          BY <3>2, <4>1, <4>3, <4>4, Zenon
      <3>3. CASE o # L
        <4>1. file' = [i \in 1 .. L |-> IF i = o + 1 THEN c ELSE file[i]]
          BY <2>4, <3>3, Zenon
        <4>2. file' \in [1 .. L -> Writer \X Nat]
          BY <2>2, <2>4, <3>1, <4>1, Zenon
        <4>3. file' \in Seq(Writer \X Nat) /\ Len(file') = L
          BY <2>2, <4>2
        <4>4. o + 1 \in 1 .. L
          BY <2>2, <3>3
        <4> QED
          BY <3>3, <4>1, <4>3, <4>4, Zenon
      <3> QED
        BY <3>2, <3>3, Zenon
    <2>6. /\ j' \in [Writer -> Nat] /\ j'[w] = j[w] + 1 /\ \A u \in Writer \ {w} : j'[u] = j[u]
          /\ off' \in [Writer -> Nat] /\ off'[w] = o + 1 /\ \A u \in Writer \ {w} : off'[u] = off[u]
      BY <2>1, <2>2 DEF FATyped
    <2>7. FATyped'
      BY <2>1, <2>5, <2>6, FALoop, Zenon DEF FATyped
    <2>8. FAOffset'
      <3>1. ASSUME NEW u \in Writer PROVE off'[u] <= Len(file')
        <4>1. L <= Len(file') /\ o + 1 <= Len(file') /\ Len(file') \in Nat
          BY <2>2, <2>5
        <4>2. CASE u = w
          BY <2>6, <4>1, <4>2, Zenon
        <4>3. CASE u # w
          <5>1. off'[u] = off[u] /\ off[u] \in Nat /\ off[u] <= L
            BY <2>6, <4>3, Zenon DEF FAOffset, FATyped
          <5> QED
            BY <2>2, <4>1, <5>1
        <4> QED
          BY <4>2, <4>3, Zenon
      <3>2. ASSUME NEW u \in Writer, useLseek[u], apc'[u] = "write", NEW i \in 1 .. Len(file'), file'[i][1] = u
            PROVE  i <= off'[u]
        <4>1. u # w /\ apc'[u] = apc[u]
          BY <2>1, <3>2, FALoop, Zenon
        <4>2. i # o + 1
          BY <2>5, <3>2, <4>1
        <4> QED
          BY <2>5, <2>6, <3>2, <4>1, <4>2, Zenon DEF FAOffset
      <3> QED
        BY <2>1, <3>1, <3>2, Zenon DEF FAOffset
    <2>9. ASSUME NEW v \in Writer, \A u \in Writer \ {v} : useLseek'[u] => j'[u] = 0
          PROVE  /\ \A k \in 1 .. j'[v] : \E i \in 1 .. Len(file') : file'[i] = <<v, k>>
                 /\ \A i \in 1 .. Len(file') : file'[i][1] = v => file'[i][2] \in 1 .. j'[v]
                 /\ \A i, m \in 1 .. Len(file') :
                      i < m /\ file'[i][1] = v /\ file'[m][1] = v => file'[i][2] < file'[m][2]
      <3>1. \A u \in Writer \ {v} : useLseek[u] => j[u] = 0
        BY <2>1, <2>2, <2>6, <2>9
      <3>2. /\ \A k \in 1 .. j[v] : \E i \in 1 .. L : file[i] = <<v, k>>
            /\ \A i \in 1 .. L : file[i][1] = v => file[i][2] \in 1 .. j[v]
            /\ \A i, m \in 1 .. L : i < m /\ file[i][1] = v /\ file[m][1] = v => file[i][2] < file[m][2]
        BY <3>1, Zenon DEF FA!AppendKeepsAll
      <3>3. CASE v = w
        <4>1. ASSUME NEW k \in 1 .. j[w] + 1 PROVE \E i \in 1 .. Len(file') : file'[i] = <<w, k>>
          <5>1. CASE k = j[w] + 1
            BY <2>5, <5>1, Zenon
          <5>2. CASE k # j[w] + 1
            <6>0. k \in 1 .. j[v]
              BY <2>2, <3>3, <5>2
            <6>1. PICK i \in 1 .. L : file[i] = <<w, k>>
              BY <3>2, <3>3, <6>0, Zenon
            <6>2. i # o + 1
              <7>1. file[i][1] = w
                BY <6>1
              <7> QED
                BY <2>2, <2>3, <7>1
            <6>3. i \in 1 .. Len(file') /\ file'[i] = <<w, k>>
              BY <2>5, <6>1, <6>2, Zenon
            <6> QED
              BY <6>3, Zenon
          <5> QED
            BY <5>1, <5>2, Zenon
        <4>2. ASSUME NEW i \in 1 .. Len(file'), file'[i][1] = w
              PROVE  /\ file'[i][2] \in 1 .. j[w] + 1 /\ i <= o + 1
                     /\ i # o + 1 => i \in 1 .. L /\ file'[i] = file[i] /\ file[i][2] <= j[w]
          <5>1. CASE i = o + 1
            BY <2>2, <2>5, <5>1, SMTT(30)
          <5>2. CASE i # o + 1
            <6>1. i \in 1 .. L /\ file'[i] = file[i]
              BY <2>5, <5>2, Zenon
            <6> QED
              BY <2>2, <2>3, <3>2, <3>3, <4>2, <5>2, <6>1
          <5> QED
            BY <5>1, <5>2, Zenon
        <4>3. ASSUME NEW i \in 1 .. Len(file'), NEW m \in 1 .. Len(file'), i < m, file'[i][1] = w, file'[m][1] = w
              PROVE  file'[i][2] < file'[m][2]
          <5>1. m <= o + 1 /\ i # o + 1 /\ i \in 1 .. L /\ file'[i] = file[i] /\ file[i][2] <= j[w]
            BY <2>2, <4>2, <4>3
          <5>2. CASE m = o + 1
            <6>1. file'[m][2] = j[w] + 1
              BY <2>5, <5>2
            <6>2. file'[i][2] \in 1 .. j[w]
              BY <3>2, <3>3, <4>3, <5>1, Zenon
            <6> QED
              BY <2>2, <6>1, <6>2
          <5>3. CASE m # o + 1
            <6>1. m \in 1 .. L /\ file'[m] = file[m]
              BY <4>2, <4>3, <5>3, Zenon
            <6> QED
              BY <3>2, <3>3, <4>3, <5>1, <6>1, Zenon
          <5> QED
            BY <5>2, <5>3, Zenon
        <4> QED
          BY <2>6, <3>3, <4>1, <4>2, <4>3, Zenon
      <3>4. CASE v # w
        <4>1. ~useLseek[w] /\ o = L
          BY <2>1, <2>2, <2>6, <2>9, <3>4 DEF FA!Offset
        <4>2. /\ Len(file') = L + 1 /\ file'[L + 1][1] = w /\ j'[v] = j[v]
              /\ \A i \in 1 .. L : file'[i] = file[i]
          BY <2>2, <2>5, <2>6, <3>4, <4>1, SMTT(30)
        <4>3. \A i \in 1 .. Len(file') : file'[i][1] = v => i \in 1 .. L
          BY <2>2, <3>4, <4>2
        <4>4. \A k \in 1 .. j'[v] : \E i \in 1 .. Len(file') : file'[i] = <<v, k>>
          <5>1. SUFFICES ASSUME NEW k \in 1 .. j[v] PROVE \E i \in 1 .. Len(file') : file'[i] = <<v, k>>
            BY <4>2, Zenon
          <5>2. PICK i \in 1 .. L : file[i] = <<v, k>>
            BY <3>2, Zenon
          <5>3. i \in 1 .. Len(file') /\ file'[i] = <<v, k>>
            BY <2>5, <4>2, <5>2, Zenon
          <5> QED
            BY <5>3, Zenon
        <4>5. \A i \in 1 .. Len(file') : file'[i][1] = v => file'[i][2] \in 1 .. j'[v]
          BY <3>2, <4>2, <4>3, Zenon
        <4>6. \A i, m \in 1 .. Len(file') :
                 i < m /\ file'[i][1] = v /\ file'[m][1] = v => file'[i][2] < file'[m][2]
          BY <3>2, <4>2, <4>3, Zenon
        <4> QED
          BY <4>4, <4>5, <4>6, Zenon
      <3> QED
        BY <3>3, <3>4, Zenon
    <2>10. FA!AppendKeepsAll'
      BY <2>9, Zenon DEF FA!AppendKeepsAll
    <2> QED
      BY <2>7, <2>8, <2>10, Zenon
  <1>5. ASSUME NEW w \in Writer, FA!Fail(w) PROVE FAInv'
    <2>1. apc' = [apc EXCEPT ![w] = "failed"] /\ UNCHANGED <<useLseek, off, j, file>>
      BY <1>5, Zenon DEF FA!Fail
    <2>2. FATyped'
      BY <2>1, Zenon DEF FATyped
    <2>3. FAOffset'
      BY <2>1, Zenon DEF FATyped, FAOffset
    <2> QED
      BY <1>1, <2>1, <2>2, <2>3, Zenon
  <1>6. CASE UNCHANGED FA!appVars
    BY <1>1, <1>6, Zenon DEF FA!appVars, FATyped, FAOffset
  <1> QED
    BY <1>2, <1>3, <1>4, <1>5, <1>6, Zenon DEF FA!Next

-----------------------------------------------------------------------------
(* SockSeqnum: is_seqnum *)

VARIABLES
    npc, cfd, seqNum, backlog, cpcs, reqLen, arrived, answer

SQ == INSTANCE SockSeqnum

Serving == npc \in {"read", "write", "close"}
Answered(c) == answer[c] \in Nat

SQTyped ==
    /\ npc \in {"accept", "read", "write", "close"} /\ seqNum \in Nat
    /\ Serving => cfd \in NetClient
    /\ backlog \in Seq(NetClient) /\ reqLen \in [NetClient -> Nat]
    /\ cpcs \in [NetClient -> {"connect", "number", "newline", "answer", "done", "failed", "killed"}]
    /\ arrived \in [NetClient -> {"nothing", "number", "line"}]
    /\ answer \in [NetClient -> Nat \cup {SQ!NoAnswer, SQ!EndOfFile}]

(* A connection waits in the backlog once, and is not served meanwhile;    *)
(* until then, and until it is served, its client has no answer.           *)
Queued ==
    /\ \A i, k \in 1 .. Len(backlog) : backlog[i] = backlog[k] => i = k
    /\ \A i \in 1 .. Len(backlog) :
         /\ answer[backlog[i]] = SQ!NoAnswer /\ cpcs[backlog[i]] # "connect"
         /\ Serving => backlog[i] # cfd
    /\ \A c \in NetClient : cpcs[c] = "connect" => answer[c] = SQ!NoAnswer /\ (Serving => c # cfd)
    /\ npc \in {"read", "write"} => answer[cfd] = SQ!NoAnswer

(* The numbers below seqNum are those that were given. *)
Shared ==
    /\ \A c \in NetClient : Answered(c) => answer[c] + reqLen[c] <= seqNum
    /\ \A c, d \in NetClient : c # d /\ Answered(c) /\ Answered(d) =>
         answer[c] + reqLen[c] <= answer[d] \/ answer[d] + reqLen[d] <= answer[c]
    /\ \A i \in 0 .. seqNum - 1 : \E c \in NetClient :
         Answered(c) /\ answer[c] <= i /\ i < answer[c] + reqLen[c]

(* Without an answer is left who asked for nothing, or was killed before   *)
(* the request was complete.                                               *)
Excused(c) == cpcs[c] = "killed" \/ reqLen[c] = 0
Refused ==
    \A c \in NetClient :
        /\ cpcs[c] \in {"answer", "done", "failed"} => arrived[c] = "line"
        /\ answer[c] = SQ!EndOfFile => Excused(c)
        /\ npc = "close" /\ c = cfd /\ answer[c] = SQ!NoAnswer => Excused(c)
        /\ cpcs[c] = "failed" => answer[c] = SQ!EndOfFile

SQInv == SQTyped /\ Queued /\ Shared /\ Refused

(* No client has connected. *)
LEMMA SQInit == SQ!Init => SQInv
  BY BoundAssumption DEF SQ!Init, SQInv, SQTyped, Queued, Shared, Refused, Serving, Answered, Excused,
     SQ!NoAnswer, SQ!EndOfFile

(* Every step of the server and its clients keeps SQInv. *)
LEMMA SQNext == SQInv /\ [SQ!Next]_(SQ!seqVars) => SQInv'
  <1> SUFFICES ASSUME SQInv, [SQ!Next]_(SQ!seqVars) PROVE SQInv' BY Zenon
  <1> USE DEF SQInv, SQ!server
  <1>1. ASSUME NEW c \in NetClient, SQ!connect(c) PROVE SQInv'
    <2>1. /\ cpcs[c] = "connect" /\ cpcs' = [cpcs EXCEPT ![c] = "number"]
          /\ backlog' = Append(backlog, c)
          /\ UNCHANGED <<npc, cfd, seqNum, reqLen, arrived, answer>>
      BY <1>1, Zenon DEF SQ!connect, SQ!CGoto
    <2>2. SQTyped'
      BY <2>1 DEF SQTyped, Serving
    <2>3. /\ Len(backlog') = Len(backlog) + 1 /\ Len(backlog) \in Nat /\ backlog'[Len(backlog) + 1] = c
          /\ \A i \in 1 .. Len(backlog) : backlog'[i] = backlog[i] /\ backlog[i] # c
      BY <2>1 DEF SQTyped, Queued
    <2>4. Queued'
      BY <2>1, <2>3 DEF SQTyped, Queued, Serving
    <2>5. Shared' /\ Refused'
      BY <2>1, Zenon DEF SQTyped, Shared, Refused, Answered, Excused
    <2> QED
      BY <2>2, <2>4, <2>5, Zenon
  <1>2. ASSUME NEW c \in NetClient, SQ!SendNumber(c) \/ SQ!SendNewline(c) \/ SQ!ReadAnswer(c) \/ SQ!Killed(c)
        PROVE  SQInv'
    <2>1. UNCHANGED <<npc, cfd, seqNum, backlog, reqLen, answer>>
      BY <1>2, Zenon DEF SQ!SendNumber, SQ!SendNewline, SQ!ReadAnswer, SQ!Killed
    <2>2. PICK to \in {"newline", "answer", "failed", "done", "killed"} :
              cpcs' = [cpcs EXCEPT ![c] = to]
      BY <1>2, Zenon DEF SQ!SendNumber, SQ!SendNewline, SQ!ReadAnswer, SQ!Killed, SQ!CGoto
    <2>3. arrived' \in [NetClient -> {"nothing", "number", "line"}]
      BY <1>2, Zenon DEF SQTyped, SQ!SendNumber, SQ!SendNewline, SQ!ReadAnswer, SQ!Killed
    <2>6. SQTyped'
      BY <2>1, <2>2, <2>3, Zenon DEF SQTyped, Serving
    <2>4. Queued'
      BY <2>1, <2>2 DEF SQTyped, Queued, Serving
    <2>7. Shared'
      BY <2>1, Zenon DEF Shared, Answered
    <2>5. Refused'
      BY <1>2, <2>1, <2>2 DEF SQTyped, Refused, Excused, SQ!SendNumber, SQ!SendNewline, SQ!ReadAnswer, SQ!Killed,
         SQ!CGoto, SQ!Alive
    <2> QED
      BY <2>4, <2>5, <2>6, <2>7, Zenon
  <1>3. CASE SQ!accept
    <2>1. /\ npc = "accept" /\ npc' = "read" /\ backlog # <<>>
          /\ cfd' = Head(backlog) /\ backlog' = Tail(backlog)
          /\ UNCHANGED <<seqNum, cpcs, reqLen, arrived, answer>>
      BY <1>3, Zenon DEF SQ!accept
    <2>2. /\ Len(backlog) \in Nat \ {0} /\ Len(backlog') = Len(backlog) - 1 /\ cfd' = backlog[1]
          /\ \A i \in 1 .. Len(backlog') : backlog'[i] = backlog[i + 1]
          /\ backlog' \in Seq(NetClient) /\ cfd' \in NetClient
      BY <2>1 DEF SQTyped
    <2>3. SQTyped'
      BY <2>1, <2>2, Zenon DEF SQTyped, Serving
    <2>4. Queued'
      BY <2>1, <2>2 DEF Queued, Serving
    <2>5. Shared' /\ Refused'
      BY <2>1, Zenon DEF Shared, Refused, Answered, Excused
    <2> QED
      BY <2>3, <2>4, <2>5, Zenon
  <1>4. CASE SQ!readRequest
    <2>1. /\ npc = "read" /\ npc' \in {"close", "write"} /\ cfd \in NetClient
          /\ npc' = "close" => (arrived[cfd] = "nothing" /\ ~SQ!Alive(cfd)) \/ reqLen[cfd] = 0
          /\ UNCHANGED <<cfd, seqNum, backlog, cpcs, reqLen, arrived, answer>>
      BY <1>4, Zenon DEF SQ!readRequest, SQTyped, Serving
    <2>2. SQTyped' /\ Queued' /\ Shared'
      BY <2>1 DEF SQTyped, Queued, Shared, Serving, Answered
    <2>3. Refused'
      BY <2>1, Zenon DEF SQTyped, Refused, Excused, SQ!Alive
    <2> QED
      BY <2>2, <2>3, Zenon
  <1>5. CASE SQ!writeAnswer
    <2>1. /\ npc = "write" /\ npc' = "close" /\ cfd \in NetClient
          /\ answer' = [answer EXCEPT ![cfd] = seqNum] /\ seqNum' = seqNum + reqLen[cfd]
          /\ UNCHANGED <<cfd, backlog, cpcs, reqLen, arrived>>
      BY <1>5, Zenon DEF SQ!writeAnswer, SQTyped, Serving
    <2>2. /\ answer[cfd] = SQ!NoAnswer /\ answer'[cfd] = seqNum /\ reqLen[cfd] \in Nat /\ seqNum \in Nat
          /\ \A c \in NetClient \ {cfd} : answer'[c] = answer[c]
      BY <2>1, Zenon DEF Queued, SQTyped
    <2>3. SQTyped'
      BY <2>1 DEF SQTyped, Serving
    <2>4. Queued'
      BY <2>1, <2>2, SMTT(30) DEF SQTyped, Queued, Serving, SQ!NoAnswer
    <2>5. Refused'
      BY <2>1, <2>2 DEF SQTyped, Refused, Excused, SQ!NoAnswer, SQ!EndOfFile
    <2>6. /\ \A c \in NetClient : Answered(c)' <=> c = cfd \/ Answered(c)
          /\ ~Answered(cfd)
      BY <2>2 DEF Answered, SQ!NoAnswer
    <2>7. \A c \in NetClient \ {cfd} : Answered(c) => answer[c] + reqLen[c] <= seqNum
      BY Zenon DEF Shared
    <2>8. ASSUME NEW c \in NetClient, NEW d \in NetClient, c # d, Answered(c)', Answered(d)'
          PROVE  answer'[c] + reqLen[c] <= answer'[d] \/ answer'[d] + reqLen[d] <= answer'[c]
      <3>1. CASE c = cfd
        BY <2>2, <2>6, <2>7, <2>8, <3>1, Zenon
      <3>2. CASE d = cfd
        BY <2>2, <2>6, <2>7, <2>8, <3>2, Zenon
      <3>3. CASE c # cfd /\ d # cfd
        BY <2>2, <2>6, <2>8, <3>3, Zenon DEF Shared
      <3> QED
        BY <3>1, <3>2, <3>3, Zenon
    <2>9. ASSUME NEW i \in 0 .. seqNum' - 1
          PROVE  \E c \in NetClient : Answered(c)' /\ answer'[c] <= i /\ i < answer'[c] + reqLen'[c]
      <3>1. CASE i < seqNum
        <4>1. i \in 0 .. seqNum - 1
          BY <2>1, <2>2, <3>1
        <4>2. PICK c \in NetClient : Answered(c) /\ answer[c] <= i /\ i < answer[c] + reqLen[c]
          BY <4>1, Zenon DEF Shared
        <4>3. c # cfd /\ answer'[c] = answer[c] /\ Answered(c)'
          BY <2>2, <2>6, <4>2, Zenon
        <4> QED
          BY <2>1, <4>2, <4>3, Zenon
      <3>2. CASE i >= seqNum
        <4>1. answer'[cfd] <= i /\ i < answer'[cfd] + reqLen'[cfd]
          BY <2>1, <2>2, <3>2
        <4> QED
          BY <2>1, <2>6, <4>1, Zenon
      <3> QED
        BY <2>1, <2>2, <3>1, <3>2
    <2>10. \A c \in NetClient : Answered(c)' => answer'[c] + reqLen[c] <= seqNum + reqLen[cfd]
      BY <2>2, <2>6, <2>7 DEF Answered, SQTyped
    <2>12. \A c, d \in NetClient : c # d /\ Answered(c)' /\ Answered(d)' =>
              answer'[c] + reqLen'[c] <= answer'[d] \/ answer'[d] + reqLen'[d] <= answer'[c]
      BY <2>1, <2>8, Zenon
    <2>13. \A c \in NetClient : Answered(c)' => answer'[c] + reqLen'[c] <= seqNum'
      BY <2>1, <2>10, Zenon
    <2>14. Shared'
      BY <2>9, <2>12, <2>13, Zenon DEF Shared
    <2> QED
      BY <2>3, <2>4, <2>5, <2>14, Zenon
  <1>6. CASE SQ!close
    <2>1. /\ npc = "close" /\ npc' = "accept" /\ cfd \in NetClient
          /\ UNCHANGED <<seqNum, backlog, cpcs, reqLen, arrived>>
          /\ answer' = [answer EXCEPT ![cfd] = IF @ = SQ!NoAnswer THEN SQ!EndOfFile ELSE @]
      BY <1>6, Zenon DEF SQ!close, SQTyped, Serving
    <2>2. /\ answer'[cfd] = IF answer[cfd] = SQ!NoAnswer THEN SQ!EndOfFile ELSE answer[cfd]
          /\ \A c \in NetClient \ {cfd} : answer'[c] = answer[c]
          /\ answer' \in [NetClient -> Nat \cup {SQ!NoAnswer, SQ!EndOfFile}]
      BY <2>1, Zenon DEF SQTyped
    <2>3. \A c \in NetClient : (Answered(c)' <=> Answered(c)) /\ (Answered(c) => answer'[c] = answer[c])
      BY <2>2 DEF Answered, SQ!NoAnswer, SQ!EndOfFile
    <2>4. SQTyped'
      BY <2>1, <2>2, Zenon DEF SQTyped, Serving
    <2>5. Queued'
      BY <2>1, <2>2 DEF SQTyped, Queued, Serving
    <2>6. Shared'
      BY <2>1, <2>3, Zenon DEF Shared
    <2>7. Refused'
      BY <2>1, <2>2, Zenon DEF Refused, Excused, SQ!NoAnswer, SQ!EndOfFile
    <2> QED
      BY <2>4, <2>5, <2>6, <2>7, Zenon
  <1>7. CASE UNCHANGED SQ!seqVars
    BY <1>7, Zenon DEF SQ!seqVars, SQTyped, Queued, Shared, Refused, Serving, Answered, Excused
  <1> QED
    BY <1>1, <1>2, <1>3, <1>4, <1>5, <1>6, <1>7, Zenon DEF SQ!Next, SQ!ServerStep, SQ!ClientStep

(* The numbers given are disjoint and without gap. *)
LEMMA SQMeans == SQInv => SQ!NumbersGranted
  <1> SUFFICES ASSUME SQInv PROVE SQ!NumbersGranted BY Zenon
  <1> USE DEF SQInv
  <1>1. ASSUME NEW c \in NetClient
        PROVE  SQ!Granted(c) = IF Answered(c) THEN answer[c] .. answer[c] + reqLen[c] - 1 ELSE {}
    BY DEF SQ!Granted, Answered, SQTyped, SQ!NoAnswer, SQ!EndOfFile
  <1>2. ASSUME NEW c \in NetClient, NEW d \in NetClient, c # d PROVE SQ!Granted(c) \cap SQ!Granted(d) = {}
    <2>1. CASE Answered(c) /\ Answered(d)
      <3>1. /\ answer[c] \in Nat /\ answer[d] \in Nat /\ reqLen[c] \in Nat /\ reqLen[d] \in Nat
            /\ answer[c] + reqLen[c] <= answer[d] \/ answer[d] + reqLen[d] <= answer[c]
        BY <1>2, <2>1, Zenon DEF Shared, SQTyped, Answered
      <3>2. /\ SQ!Granted(c) = answer[c] .. answer[c] + reqLen[c] - 1
            /\ SQ!Granted(d) = answer[d] .. answer[d] + reqLen[d] - 1
        BY <1>1, <2>1, Zenon
      <3> QED
        BY <3>1, <3>2, SMTT(30)
    <2>2. CASE ~Answered(c) \/ ~Answered(d)
      BY <1>1, <2>2, Zenon
    <2> QED
      BY <2>1, <2>2, Zenon
  <1>3. UNION {SQ!Granted(c) : c \in NetClient} = 0 .. seqNum - 1
    <2>1. ASSUME NEW c \in NetClient, NEW i \in SQ!Granted(c) PROVE i \in 0 .. seqNum - 1
      <3>1. Answered(c) /\ i \in answer[c] .. answer[c] + reqLen[c] - 1
        BY <1>1, <2>1, Zenon
      <3>2. answer[c] \in Nat /\ reqLen[c] \in Nat /\ answer[c] + reqLen[c] <= seqNum /\ seqNum \in Nat
        BY <3>1, Zenon DEF Shared, SQTyped, Answered
      <3> QED
        BY <3>1, <3>2
    <2>2. ASSUME NEW i \in 0 .. seqNum - 1 PROVE \E c \in NetClient : i \in SQ!Granted(c)
      <3>1. PICK c \in NetClient : Answered(c) /\ answer[c] <= i /\ i < answer[c] + reqLen[c]
        BY Zenon DEF Shared
      <3>2. i \in answer[c] .. answer[c] + reqLen[c] - 1
        BY <3>1 DEF Answered, SQTyped
      <3> QED
        BY <1>1, <3>1, <3>2, Zenon
    <2> QED
      BY <2>1, <2>2, Zenon
  <1>4. \A c \in NetClient : cpcs[c] = "failed" => reqLen[c] = 0
    BY Zenon DEF Refused, Excused
  <1> QED
    BY <1>2, <1>3, <1>4, Zenon DEF SQ!NumbersGranted

-----------------------------------------------------------------------------
(* SeccompNotify: seccomp_unotify_mkdir *)

VARIABLES
    argv, secondFilter, delay, tpc, ap, spc, id, resp, notif, socket, handler, pending, ints,
    made, result

SN == INSTANCE SeccompNotify

Result == {"none", "ok", "error", "ENOSYS", "EINTR"}
Deciding == {"predelay", "postdelay", "open", "pread", "decide"}

SNTyped ==
    /\ argv \in [SN!Dir -> SN!Kind] /\ result \in [SN!Dir -> Result]
    /\ ap \in 1 .. NumDirs + 1 /\ id \in Nat /\ resp \in {"none", "ok", "error", "continue"}
    /\ tpc \in {"install", "send", "closefd", "mkdir", "blocked", "exited"}
    /\ spc \in {"sigaction", "recvfd", "recv", "answer", "exited"} \cup Deciding
    /\ notif \in {"none", "sent", "received"} /\ made \subseteq SN!Dir

(* Calls before ap have returned.  The kernel has a notification only while *)
(* the target is blocked.                                                   *)
Calls ==
    /\ \A d \in SN!Dir : result[d] = "none" <=> d >= ap
    /\ tpc = "blocked" => ap \in SN!Dir
    /\ notif # "none" => tpc = "blocked"

(* The supervisor works on the current call, or on one that was interrupted. *)
Working ==
    spc \in Deciding \cup {"answer"} =>
        /\ id \in SN!Dir /\ id <= ap
        /\ id < ap => result[id] = "EINTR"
        /\ id = ap /\ tpc # "exited" => tpc = "blocked" /\ notif = "received"

(* A directory that was made belongs to a call that has returned, or to    *)
(* the one being answered, and the answer agrees.                          *)
Making ==
    /\ \A d \in made : /\ argv[d] \in {"tmp", "dot"} /\ result[d] \in {"ok", "EINTR", "none"}
                       /\ d < ap \/ (d = ap /\ (tpc = "exited" \/ (spc = "answer" /\ id = ap)))
    /\ \A d \in SN!Dir : result[d] = "ok" => d \in made
    /\ spc \in Deciding /\ id = ap => ap \notin made
    /\ spc = "answer" =>
         /\ resp \in {"ok", "error", "continue"}
         /\ resp = "ok" => id \in made
         /\ resp # "ok" /\ id = ap => id \notin made
         /\ resp = "continue" => argv[id] = "dot"

(* The signal comes with the target's end. *)
Told == pending => tpc = "exited"

SNInv == SNTyped /\ Calls /\ Working /\ Making /\ Told

(* SNInv holds before the filter is installed. *)
LEMMA SNInit == SN!Init => SNInv
  BY BoundAssumption DEF SN!Init, SNInv, SNTyped, Calls, Working, Making, Told, Result, Deciding, SN!Dir

(* mkdir() returns r: by itself, interrupted, or with the answer. *)
LEMMA SNReturn ==
    ASSUME SNInv, NEW r \in Result \ {"none"}, ap \in SN!Dir, SN!Return(r), UNCHANGED <<argv, id, resp>>,
           \/ spc' \in {"recv", "exited"}
           \/ spc' = spc /\ (spc \in Deciding \cup {"answer"} => id < ap \/ r = "EINTR"),
           made' = IF r = "ok" THEN made \cup {ap} ELSE made,
           r = "ok" => argv[ap] \in {"tmp", "dot"},
           ap \in made => r \in {"ok", "EINTR"}
    PROVE  SNTyped' /\ Calls' /\ Working' /\ Making'
  <1> USE BoundAssumption DEF SNInv, SN!Dir
  <1>1. /\ ap' = ap + 1 /\ tpc' = "mkdir" /\ notif' = "none"
        /\ result' = [result EXCEPT ![ap] = r]
    BY Zenon DEF SN!Return
  <1>2. /\ result' \in [SN!Dir -> Result] /\ result'[ap] = r
        /\ \A d \in SN!Dir \ {ap} : result'[d] = result[d]
    BY <1>1, Zenon DEF SNTyped
  <1>3. SNTyped'
    BY <1>1, <1>2 DEF SNTyped
  <1>4. Calls'
    BY <1>1, <1>2 DEF Calls, SNTyped
  <1>5. Working'
    BY <1>1, <1>2, SMTT(30) DEF Working, SNTyped, Deciding
  <1>6. Making'
    <2>1. ASSUME NEW d \in made'
          PROVE  /\ argv[d] \in {"tmp", "dot"} /\ result'[d] \in {"ok", "EINTR", "none"}
                 /\ d \in SN!Dir /\ d < ap + 1
      BY <1>2, <2>1 DEF Making, SNTyped
    <2>2. \A d \in SN!Dir : result'[d] = "ok" => d \in made'
      BY <1>2, Zenon DEF Making
    <2>3. spc' \in Deciding => id \in SN!Dir /\ id <= ap
      BY Zenon DEF Working, Deciding
    <2>4. spc' = "answer" => /\ resp \in {"ok", "error", "continue"}
                             /\ resp = "ok" => id \in made
                             /\ resp # "ok" /\ id = ap + 1 => id \notin made'
                             /\ resp = "continue" => argv[id] = "dot"
      BY <2>1 DEF Making, SNTyped
    <2> QED
      BY <1>1, <2>1, <2>2, <2>3, <2>4, SMTT(30) DEF Making, SNTyped
  <1> QED
    BY <1>3, <1>4, <1>5, <1>6

(* Every step of target and supervisor keeps SNInv. *)
LEMMA SNNext == SNInv /\ [SN!Next]_(SN!snVars) => SNInv'
  <1> SUFFICES ASSUME SNInv, [SN!Next]_(SN!snVars) PROVE SNInv' BY Zenon
  <1> DEFINE G == SNTyped' /\ Calls' /\ Working' /\ Making'
  <1>1. Told'
    <2>1. CASE SN!TargetStep \/ SN!Interrupt \/ SN!TargetDies
      BY <2>1, Zenon DEF SNInv, Told, SN!TargetStep, SN!Install, SN!SendFd, SN!CloseFd, SN!Mkdir, SN!Abandoned,
         SN!Terminate, SN!TargetDies, SN!TargetExits, SN!Interrupt, SN!Return
    <2>2. CASE SN!SupervisorStep
      BY <2>2, Zenon DEF SNInv, Told, SN!SupervisorStep, SN!sigchldHandler, SN!sigaction, SN!recvfd, SN!Receive,
         SN!CheckId, SN!Check, SN!getTargetPathname, SN!Decide, SN!Answer, SN!AnswerLate, SN!target, SN!Valid
    <2>3. CASE UNCHANGED SN!snVars
      BY <2>3, Zenon DEF SNInv, Told, SN!snVars
    <2> QED
      BY <2>1, <2>2, <2>3, Zenon DEF SN!Next
  <1> SUFFICES G
    BY <1>1, Zenon DEF SNInv
  <1> USE BoundAssumption DEF SNInv, SN!Dir, SN!sup, SN!args, SN!target
  <1>2. CASE SN!Install \/ SN!SendFd \/ SN!CloseFd
    <2>1. /\ tpc # "exited" /\ tpc' \in {"send", "closefd", "mkdir"} /\ tpc # "blocked"
          /\ UNCHANGED <<argv, ap, spc, id, resp, notif, made, result>>
      BY <1>2, Zenon DEF SN!Install, SN!SendFd, SN!CloseFd
    <2> QED
      BY <2>1, ZenonT(60) DEF SNTyped, Calls, Working, Making
  <1>3. CASE SN!Mkdir
    <2>1. tpc = "mkdir" /\ ap \in SN!Dir /\ UNCHANGED <<argv, spc, id, resp, made>>
      BY <1>3 DEF SN!Mkdir, SNTyped
    <2>2. ap \notin made /\ (spc \in Deciding \cup {"answer"} => id < ap)
      BY <2>1 DEF Making, Working, SNTyped
    <2>3. ASSUME NEW r \in {"error", "ENOSYS"}, SN!Return(r) PROVE G
      BY <2>1, <2>2, <2>3, SNReturn, Zenon DEF Result
    <2>4. CASE tpc' = "blocked" /\ notif' = "sent" /\ UNCHANGED <<ap, result>>
      BY <2>1, <2>2, <2>4, Zenon DEF SNTyped, Calls, Working, Making
    <2> QED
      BY <1>3, <2>3, <2>4, Zenon DEF SN!Mkdir
  <1>4. CASE SN!Abandoned
    <2>1. /\ tpc = "blocked" /\ spc \notin Deciding \cup {"answer"} /\ SN!Return("ENOSYS")
          /\ UNCHANGED <<argv, spc, id, resp, made>>
      BY <1>4, Zenon DEF SN!Abandoned, SN!Listener, Deciding
    <2>2. ap \in SN!Dir /\ ap \notin made
      BY <2>1 DEF Calls, Making, SNTyped
    <2> QED
      BY <2>1, <2>2, SNReturn, Zenon DEF Result
  <1>5. CASE SN!Interrupt
    <2>1. tpc = "blocked" /\ SN!Return("EINTR") /\ UNCHANGED <<argv, spc, id, resp, made>>
      BY <1>5, Zenon DEF SN!Interrupt
    <2> QED
      BY <2>1, SNReturn, Zenon DEF Result, Calls
  <1>6. CASE SN!Terminate \/ SN!TargetDies
    <2>1. tpc' = "exited" /\ notif' = "none" /\ UNCHANGED <<argv, ap, spc, id, resp, made, result>>
      BY <1>6, Zenon DEF SN!Terminate, SN!TargetDies, SN!TargetExits
    <2> QED
      BY <2>1 DEF SNTyped, Calls, Working, Making
  <1>7. CASE SN!sigchldHandler
    <2>1. tpc = "exited"
      BY <1>7, Zenon DEF SN!sigchldHandler, Told
    <2>2. spc' = "exited" /\ UNCHANGED <<argv, tpc, ap, id, resp, notif, made, result>>
      BY <1>7, Zenon DEF SN!sigchldHandler, SN!Exits
    <2> QED
      BY <2>1, <2>2, Zenon DEF SNTyped, Calls, Working, Making, Deciding
  <1>8. CASE SN!sigaction \/ SN!recvfd
    <2>1. /\ spc \in {"sigaction", "recvfd"} /\ spc' \in {"recvfd", "recv"}
          /\ UNCHANGED <<argv, tpc, ap, id, resp, notif, made, result>>
      BY <1>8, Zenon DEF SN!sigaction, SN!recvfd
    <2> QED
      BY <2>1, ZenonT(60) DEF SNTyped, Calls, Working, Making, Deciding
  <1>9. CASE SN!Receive
    <2>1. /\ spc = "recv" /\ notif = "sent" /\ notif' = "received" /\ id' = ap
          /\ spc' \in {"predelay", "open"} /\ UNCHANGED <<argv, tpc, ap, resp, made, result>>
      BY <1>9, Zenon DEF SN!Receive
    <2> QED
      BY <2>1, SMTT(30) DEF SNTyped, Calls, Working, Making, Deciding
  <1>10. CASE SN!CheckId \/ SN!getTargetPathname
    <2>1. /\ spc \in Deciding \ {"decide"} /\ spc' \in Deciding \cup {"exited"}
          /\ UNCHANGED <<argv, tpc, ap, id, resp, notif, made, result>>
      BY <1>10, Zenon DEF SN!CheckId, SN!Check, SN!getTargetPathname, SN!Exits, Deciding
    <2> QED
      BY <2>1, SMTT(30) DEF SNTyped, Calls, Working, Making, Deciding
  <1>11. CASE SN!Decide
    <2>1. /\ spc = "decide" /\ spc' = "answer" /\ UNCHANGED <<argv, tpc, ap, id, notif, result>>
          /\ \/ argv[id] = "tmp" /\ resp' = "ok" /\ made' = made \cup {id}
             \/ resp' = "error" /\ made' = made
             \/ argv[id] = "dot" /\ resp' = "continue" /\ made' = made
      BY <1>11, Zenon DEF SN!Decide
    <2>2. SNTyped' /\ Calls' /\ Working'
      BY <2>1, Zenon DEF SNTyped, Calls, Working, Deciding
    <2>3. /\ id \in SN!Dir /\ id <= ap /\ (id < ap => result[id] = "EINTR")
          /\ id = ap => result[id] = "none" /\ id \notin made
      BY <2>1, Zenon DEF Working, Calls, Making, Deciding, SNTyped
    <2>4. ASSUME NEW d \in made'
          PROVE  /\ argv[d] \in {"tmp", "dot"} /\ result[d] \in {"ok", "EINTR", "none"}
                 /\ d < ap \/ (d = ap /\ (tpc = "exited" \/ id = ap))
      <3>1. CASE d \in made
        BY <2>1, <3>1, Zenon DEF Making
      <3>2. CASE d = id /\ argv[id] = "tmp"
        BY <2>3, <3>2 DEF SNTyped
      <3> QED
        BY <2>1, <3>1, <3>2, Zenon
    <2>5. Making'
      BY <2>1, <2>3, <2>4, Zenon DEF Making, Deciding
    <2> QED
      BY <2>2, <2>5, Zenon
  <1>12. CASE SN!Answer
    <2>1. id = ap /\ ap \in SN!Dir /\ spc = "answer" /\ UNCHANGED <<argv, id, resp>> /\ spc' \in {"exited", "recv"}
      BY <1>12, Zenon DEF SN!Answer, SN!AfterAnswer, SN!Valid, Calls
    <2>2. PICK r \in {"ok", "error"} :
              /\ SN!Return(r) /\ made' = IF r = "ok" THEN made \cup {ap} ELSE made
              /\ r = "ok" => argv[ap] \in {"tmp", "dot"}
              /\ r = "error" => ap \notin made
      BY <1>12, <2>1, Zenon DEF SN!Answer, Making
    <2> QED
      BY <2>1, <2>2, SNReturn, Zenon DEF Result
  <1>13. CASE SN!AnswerLate
    <2>1. /\ spc = "answer" /\ spc' \in {"exited", "recv"} /\ ~SN!Valid(id)
          /\ UNCHANGED <<argv, tpc, ap, id, resp, notif, made, result>>
      BY <1>13, Zenon DEF SN!AnswerLate, SN!AfterAnswer
    <2> QED
      BY <2>1, ZenonT(60) DEF SNTyped, Calls, Working, Making, Deciding, SN!Valid
  <1>14. CASE UNCHANGED SN!snVars
    <2>1. UNCHANGED <<argv, tpc, ap, spc, id, resp, notif, made, result>>
      BY <1>14, Zenon DEF SN!snVars
    <2>2. SNTyped' /\ Calls'
      BY <2>1, Zenon DEF SNTyped, Calls
    <2>3. Working'
      BY <2>1, Zenon DEF Working
    <2>4. Making'
      BY <2>1, Zenon DEF Making
    <2> QED
      BY <2>2, <2>3, <2>4, Zenon
  <1> QED
    BY <1>2, <1>3, <1>4, <1>5, <1>6, <1>7, <1>8, <1>9, <1>10, <1>11, <1>12, <1>13, <1>14, Zenon
    DEF SN!Next, SN!TargetStep, SN!SupervisorStep

(* What mkdir() returned is then what was done. *)
LEMMA SNMeans == SNInv => SN!AnswersMatch
  BY BoundAssumption, SMTT(30) DEF SNInv, SN!AnswersMatch, SNTyped, Calls, Working, Making, SN!Dir, Deciding

-----------------------------------------------------------------------------
(* PidFile: createPidFile() *)

VARIABLES
    dpc, lock, content

PF == INSTANCE PidFile

(* RunsOnce is not inductive: it needs to know who holds the lock. *)
PFInv ==
    /\ PF!TypeOK
    /\ \A p \in Instance : dpc[p] \in PF!Holding <=> lock = p
    /\ \A p \in Instance : dpc[p] = "running" => content = p

(* Nobody holds the lock. *)
LEMMA PFInit == PF!Init => PFInv
  BY NobodyAssumption, Zenon DEF PF!Init, PFInv, PF!TypeOK, PF!PidPC, PF!Holding

(* The lock's holder is the one process between lockRegion() and its end. *)
LEMMA PFNext == PFInv /\ [PF!Next]_(PF!pidVars) => PFInv'
  <1> SUFFICES ASSUME PFInv, [PF!Next]_(PF!pidVars) PROVE PFInv' BY Zenon
  <1> USE NobodyAssumption DEF PFInv, PF!TypeOK, PF!PidPC, PF!Holding
  <1>1. ASSUME NEW p \in Instance, PF!Start(p) PROVE PFInv'
    BY <1>1, Zenon DEF PF!Start, PF!At
  <1>2. ASSUME NEW p \in Instance, PF!Open(p) PROVE PFInv'
    BY <1>2, Zenon DEF PF!Open, PF!At
  <1>3. ASSUME NEW p \in Instance, PF!lockRegion(p) PROVE PFInv'
    <2>1. CASE lock = Nobody
      BY <1>3, <2>1 DEF PF!lockRegion
    <2>2. CASE lock # Nobody
      BY <1>3, <2>2, Zenon DEF PF!lockRegion
    <2> QED
      BY <2>1, <2>2
  <1>4. ASSUME NEW p \in Instance, PF!Truncate(p) PROVE PFInv'
    BY <1>4, Zenon DEF PF!Truncate, PF!At
  <1>5. ASSUME NEW p \in Instance, PF!Write(p) PROVE PFInv'
    BY <1>5, Zenon DEF PF!Write, PF!At
  <1>6. ASSUME NEW p \in Instance, PF!End(p) PROVE PFInv'
    BY <1>6, Zenon DEF PF!End
  <1>7. CASE UNCHANGED PF!pidVars
    BY <1>7, Zenon DEF PF!pidVars
  <1> QED
    BY <1>1, <1>2, <1>3, <1>4, <1>5, <1>6, <1>7, Zenon DEF PF!Next

(* Two holders would be one, and it has written its number. *)
LEMMA PFMeans == PFInv => PF!RunsOnce
  BY NobodyAssumption, Zenon DEF PFInv, PF!TypeOK, PF!RunsOnce, PF!Holding, PF!PidPC

-----------------------------------------------------------------------------
(* UsernsChildExec: userns_child_exec *)

VARIABLES
    want, deny_setgroups, privileged, setgroupsFile, ppc, kpc, writeEnd, maps, setgroups

UC == INSTANCE UsernsChildExec

(* The child's end of file means that the parent has closed the pipe, with *)
(* the maps written, or has failed.                                        *)
Wrote == {"close", "waitpid", "exit"}
UCInv ==
    /\ want \subseteq {"uid", "gid"} /\ writeEnd \subseteq {"parent", "child"}
    /\ ppc \in {"clone", "uid_map", "setgroups", "gid_map", "failed"} \cup Wrote
    /\ ppc \in {"uid_map", "setgroups", "gid_map", "close"} => "parent" \in writeEnd
    /\ ppc \in {"setgroups", "gid_map"} \cup Wrote => want \ {"gid"} \subseteq maps
    /\ ppc \in Wrote => want \subseteq maps
    /\ kpc \in {"perform", "exec", "exited"} => writeEnd = {}
    /\ ppc = "clone" => kpc = "none"

(* Nothing is written or closed when the parent starts. *)
LEMMA UCInit == UC!Init => UCInv
  BY Zenon DEF UC!Init, UCInv, Wrote

(* Every step of parent and child keeps UCInv. *)
LEMMA UCNext == UCInv /\ [UC!Next]_(UC!usVars) => UCInv'
  <1> SUFFICES ASSUME UCInv, [UC!Next]_(UC!usVars) PROVE UCInv' BY Zenon
  <1> USE DEF UCInv, Wrote, UC!given
  <1>1. CASE UC!Clone
    BY <1>1, Zenon DEF UC!Clone
  <1>2. CASE UC!UidMap
    BY <1>2, Zenon DEF UC!UidMap
  <1>3. CASE UC!SetGroups
    BY <1>3, Zenon DEF UC!SetGroups
  <1>4. CASE UC!GidMap
    BY <1>4, Zenon DEF UC!GidMap
  <1>5. CASE UC!GidMapRefused \/ UC!ClosePipe \/ UC!WaitChild
    BY <1>5, Zenon DEF UC!GidMapRefused, UC!ClosePipe, UC!WaitChild
  <1>6. CASE UC!ChildStep
    BY <1>6, Zenon DEF UC!ChildStep, UC!ChildCloses, UC!ChildReads, UC!ChildExecs, UC!ChildEnds
  <1>7. CASE UC!ParentFails
    BY <1>7, Zenon DEF UC!ParentFails
  <1>8. CASE UNCHANGED UC!usVars
    BY <1>8, Zenon DEF UC!usVars
  <1> QED
    BY <1>1, <1>2, <1>3, <1>4, <1>5, <1>6, <1>7, <1>8, Zenon DEF UC!Next, UC!ParentStep

(* So the command runs with the maps, or the parent has failed. *)
LEMMA UCMeans == UCInv => UC!MapsFirst
  BY Zenon DEF UCInv, UC!MapsFirst, Wrote

-----------------------------------------------------------------------------
(* The system: one program is run (prog); the variables of the others stay *)
(* at a fixed value.                                                       *)

VARIABLE prog

pfVars == <<dpc, lock, content>>
faVars == <<useLseek, apc, off, j, file>>
fcVars == <<cprog, cpc, source, target, stdout, rdOff, wrOff, buffer, numRead, oldLen, short>>
lrVars == <<fn, n, streamLen, newlines, got, left, out, results, fpc>>
auVars == <<opt, recalcMask, useDefaultACL, aclist, lpc, fileAcl, acl, fno, en, orig>>
secVars == <<argv, secondFilter, delay, tpc, ap, spc, id, resp, notif, socket, handler, pending,
             ints, made, result>>
ucVars == <<want, deny_setgroups, privileged, setgroupsFile, ppc, kpc, writeEnd, maps, setgroups>>
sqVars == <<npc, cfd, seqNum, backlog, cpcs, reqLen, arrived, answer>>
vars == <<prog, pfVars, faVars, fcVars, auVars, secVars, ucVars, lrVars, sqVars>>

NoPF == dpc = 0 /\ lock = 0 /\ content = 0
NoFA == useLseek = 0 /\ apc = 0 /\ off = 0 /\ j = 0 /\ file = 0
NoFC == /\ cprog = 0 /\ cpc = 0 /\ source = 0 /\ target = 0 /\ stdout = 0 /\ rdOff = 0
        /\ wrOff = 0 /\ buffer = 0 /\ numRead = 0 /\ oldLen = 0 /\ short = 0
NoLR == /\ fn = 0 /\ n = 0 /\ streamLen = 0 /\ newlines = 0 /\ got = 0 /\ left = 0 /\ out = 0
        /\ results = 0 /\ fpc = 0
NoAU == /\ opt = 0 /\ recalcMask = 0 /\ useDefaultACL = 0 /\ aclist = 0 /\ lpc = 0
        /\ fileAcl = 0 /\ acl = 0 /\ fno = 0 /\ en = 0 /\ orig = 0
NoSN == /\ argv = 0 /\ secondFilter = 0 /\ delay = 0 /\ tpc = 0 /\ ap = 0 /\ spc = 0 /\ id = 0
        /\ resp = 0 /\ notif = 0 /\ socket = 0 /\ handler = 0 /\ pending = 0 /\ ints = 0
        /\ made = 0 /\ result = 0
NoUC == /\ want = 0 /\ deny_setgroups = 0 /\ privileged = 0 /\ setgroupsFile = 0 /\ ppc = 0
        /\ kpc = 0 /\ writeEnd = 0 /\ maps = 0 /\ setgroups = 0
NoSQ == /\ npc = 0 /\ cfd = 0 /\ seqNum = 0 /\ backlog = 0 /\ cpcs = 0 /\ reqLen = 0
        /\ arrived = 0 /\ answer = 0

(* The variables of the programs that are not run *)
Others ==
    /\ prog # "pid_file" => NoPF
    /\ prog # "append" => NoFA
    /\ prog # "copy" => NoFC
    /\ prog # "acl" => NoAU
    /\ prog # "seccomp" => NoSN
    /\ prog # "userns" => NoUC
    /\ prog # "lines" => NoLR
    /\ prog # "seqnum" => NoSQ

Init ==
    \/ prog = "pid_file" /\ PF!Init /\ Others
    \/ prog = "append" /\ FA!Init /\ Others
    \/ prog = "copy" /\ FC!Init /\ Others
    \/ prog = "acl" /\ AU!Init /\ Others
    \/ prog = "seccomp" /\ SN!Init /\ Others
    \/ prog = "userns" /\ UC!Init /\ Others
    \/ prog = "lines" /\ LR!Init /\ Others
    \/ prog = "seqnum" /\ SQ!Init /\ Others

(* And they stay as they are. *)
Frame ==
    /\ UNCHANGED prog
    /\ prog # "pid_file" => UNCHANGED pfVars
    /\ prog # "append" => UNCHANGED faVars
    /\ prog # "copy" => UNCHANGED fcVars
    /\ prog # "acl" => UNCHANGED auVars
    /\ prog # "seccomp" => UNCHANGED secVars
    /\ prog # "userns" => UNCHANGED ucVars
    /\ prog # "lines" => UNCHANGED lrVars
    /\ prog # "seqnum" => UNCHANGED sqVars

Watcher ==
    \/ prog = "seccomp" /\ SN!SupervisorStep /\ Frame
    \/ prog = "userns" /\ UC!ParentStep /\ Frame
    \/ prog = "seqnum" /\ SQ!ServerStep /\ Frame

Watched ==
    \/ prog = "seccomp" /\ SN!TargetStep /\ Frame
    \/ prog = "userns" /\ UC!ChildStep /\ Frame

Unforced ==
    \/ prog = "pid_file" /\ PF!Next /\ Frame
    \/ prog = "append" /\ FA!Next /\ Frame
    \/ prog = "copy" /\ FC!Next /\ Frame
    \/ prog = "acl" /\ AU!Next /\ Frame
    \/ prog = "seccomp" /\ (SN!Interrupt \/ SN!TargetDies) /\ Frame
    \/ prog = "userns" /\ UC!ParentFails /\ Frame
    \/ prog = "lines" /\ LR!Next /\ Frame
    \/ prog = "seqnum" /\ (\E c \in NetClient : SQ!Killed(c)) /\ Frame

Client(c) == prog = "seqnum" /\ SQ!ClientStep(c) /\ Frame

Next == Watcher \/ Watched \/ (\E c \in NetClient : Client(c)) \/ Unforced

(* The scheduler runs both a process and the one that watches over it, the *)
(* server and each of its clients.                                         *)
Spec == /\ Init /\ [][Next]_vars /\ WF_vars(Watcher) /\ WF_vars(Watched)
        /\ \A c \in NetClient : WF_vars(Client(c))

-----------------------------------------------------------------------------
(* createPidFile(): the program runs at most once at a time, and the file  *)
(* has the number of the process that runs.                                *)
RunsOnce == prog = "pid_file" => PF!RunsOnce

(* atomic_append: no byte written with O_APPEND is lost or out of order    *)
(* unless another process uses lseek().                                    *)
AppendKeepsAll == prog = "append" => FA!AppendKeepsAll

(* copy, copy_sync, cp-holes, tee-practice: what success says of the       *)
(* target; readLine(), readLineBuf(), readn(): what the calls return;      *)
(* whatever the lengths of reads and writes.                               *)
BytesArrive ==
    /\ prog = "copy" => FC!SuccessIsCopy
    /\ prog = "lines" => LR!PiecesInOrder

(* acl_update: wherever it stops, every file has a valid list, with        *)
(* exactly the entries applied so far, and none gets a default list that   *)
(* had none.                                                               *)
AclsSound == prog = "acl" => AU!AclsValid /\ AU!AclPrefix

(* seccomp_unotify_mkdir: what the target is told is what was done.        *)
(* is_seqnum: a number is given to one client only, and every client that  *)
(* asked properly gets one.                                                *)
AnswersMatch ==
    /\ prog = "seccomp" => SN!AnswersMatch
    /\ prog = "seqnum" => SQ!NumbersGranted

(* userns_child_exec: the command runs with the maps asked for, or its     *)
(* parent has failed.                                                      *)
MapsFirst == prog = "userns" => UC!MapsFirst

(* Nobody waits for ever: a blocked mkdir() returns; a supervisor told of  *)
(* its target's end ends; a child that waits for its maps goes on; a       *)
(* client is answered.                                                     *)
NobodyBlocked ==
    /\ (prog = "seccomp" /\ tpc = "blocked") ~> (prog = "seccomp" /\ tpc # "blocked")
    /\ (prog = "seccomp" /\ tpc = "exited" /\ pending) ~> (prog = "seccomp" /\ spc = "exited")
    /\ (prog = "userns" /\ kpc = "close") ~> (prog = "userns" /\ kpc = "exited")
    /\ \A c \in NetClient :
         (prog = "seqnum" /\ cpcs[c] = "answer") ~> (prog = "seqnum" /\ ~SQ!Alive(c))

-----------------------------------------------------------------------------
(* The invariant of the system *)

ToolInv ==
    /\ prog = "pid_file" => PFInv
    /\ prog = "append" => FAInv
    /\ prog = "copy" => FCInv
    /\ prog = "lines" => LRInv
    /\ prog = "acl" => AUInv
    /\ prog = "seccomp" => SNInv
    /\ prog = "seqnum" => SQInv
    /\ prog = "userns" => UCInv

(* At the start the program that is run is at its start. *)
LEMMA ToolInit == Init => ToolInv
  <1>1. Init /\ prog = "pid_file" => PF!Init
    BY Zenon DEF Init
  <1>2. Init /\ prog = "append" => FA!Init
    BY Zenon DEF Init
  <1>3. Init /\ prog = "copy" => FC!Init
    BY Zenon DEF Init
  <1>4. Init /\ prog = "lines" => LR!Init
    BY Zenon DEF Init
  <1>5. Init /\ prog = "acl" => AU!Init
    BY Zenon DEF Init
  <1>6. Init /\ prog = "seccomp" => SN!Init
    BY Zenon DEF Init
  <1>7. Init /\ prog = "seqnum" => SQ!Init
    BY Zenon DEF Init
  <1>8. Init /\ prog = "userns" => UC!Init
    BY Zenon DEF Init
  <1> QED
    BY <1>1, <1>2, <1>3, <1>4, <1>5, <1>6, <1>7, <1>8,
       PFInit, FAInit, FCInit, LRInit, AUInit, SNInit, SQInit, UCInit, Zenon DEF ToolInv

(* A step is one of the program that is run; none changes which that is. *)
LEMMA Steps ==
    ASSUME [Next]_vars
    PROVE  /\ prog' = prog
           /\ prog = "pid_file" => [PF!Next]_(PF!pidVars)
           /\ prog = "append" => [FA!Next]_(FA!appVars)
           /\ prog = "copy" => [FC!Next]_(FC!copyVars)
           /\ prog = "lines" => [LR!Next]_(LR!lineVars)
           /\ prog = "acl" => [AU!Next]_(AU!aclVars)
           /\ prog = "seccomp" => [SN!Next]_(SN!snVars)
           /\ prog = "seqnum" => [SQ!Next]_(SQ!seqVars)
           /\ prog = "userns" => [UC!Next]_(UC!usVars)
  <1>1. CASE Next
    <2>1. prog' = prog
      BY <1>1, Zenon DEF Next, Watcher, Watched, Client, Unforced, Frame
    <2>2. prog = "pid_file" => PF!Next
      BY <1>1, Zenon DEF Next, Watcher, Watched, Client, Unforced
    <2>3. prog = "append" => FA!Next
      BY <1>1, Zenon DEF Next, Watcher, Watched, Client, Unforced
    <2>4. prog = "copy" => FC!Next
      BY <1>1, Zenon DEF Next, Watcher, Watched, Client, Unforced
    <2>5. prog = "lines" => LR!Next
      BY <1>1, Zenon DEF Next, Watcher, Watched, Client, Unforced
    <2>6. prog = "acl" => AU!Next
      BY <1>1, Zenon DEF Next, Watcher, Watched, Client, Unforced
    <2>7. prog = "seccomp" => SN!Next
      BY <1>1, Zenon DEF Next, Watcher, Watched, Client, Unforced, SN!Next
    <2>8. prog = "seqnum" => SQ!Next
      BY <1>1, Zenon DEF Next, Watcher, Watched, Client, Unforced, SQ!Next
    <2>9. prog = "userns" => UC!Next
      BY <1>1, Zenon DEF Next, Watcher, Watched, Client, Unforced, UC!Next
    <2> QED
      BY <2>1, <2>2, <2>3, <2>4, <2>5, <2>6, <2>7, <2>8, <2>9, Zenon
  <1>2. CASE UNCHANGED vars
    BY <1>2, Zenon DEF vars, pfVars, faVars, fcVars, lrVars, auVars, secVars, sqVars, ucVars,
                PF!pidVars, FA!appVars, FC!copyVars, LR!lineVars, AU!aclVars, SN!snVars, SQ!seqVars, UC!usVars
  <1> QED
    BY <1>1, <1>2, Zenon

(* Every step of the suite keeps the invariant. *)
LEMMA ToolNext == ToolInv /\ [Next]_vars => ToolInv'
  <1> SUFFICES ASSUME ToolInv, [Next]_vars PROVE ToolInv' BY Zenon
  <1>0. prog' = prog
    BY Steps, Zenon
  <1>1. prog = "pid_file" => PFInv'
    <2>1. prog = "pid_file" => PFInv /\ [PF!Next]_(PF!pidVars)
      BY Steps, Zenon DEF ToolInv
    <2> QED
      BY <2>1, PFNext, Zenon
  <1>2. prog = "append" => FAInv'
    <2>1. prog = "append" => FAInv /\ [FA!Next]_(FA!appVars)
      BY Steps, Zenon DEF ToolInv
    <2> QED
      BY <2>1, FANext, Zenon
  <1>3. prog = "copy" => FCInv'
    <2>1. prog = "copy" => FCInv /\ [FC!Next]_(FC!copyVars)
      BY Steps, Zenon DEF ToolInv
    <2> QED
      BY <2>1, FCNext, Zenon
  <1>4. prog = "lines" => LRInv'
    <2>1. prog = "lines" => LRInv /\ [LR!Next]_(LR!lineVars)
      BY Steps, Zenon DEF ToolInv
    <2> QED
      BY <2>1, LRNext, Zenon
  <1>5. prog = "acl" => AUInv'
    <2>1. prog = "acl" => AUInv /\ [AU!Next]_(AU!aclVars)
      BY Steps, Zenon DEF ToolInv
    <2> QED
      BY <2>1, AUNext, Zenon
  <1>6. prog = "seccomp" => SNInv'
    <2>1. prog = "seccomp" => SNInv /\ [SN!Next]_(SN!snVars)
      BY Steps, Zenon DEF ToolInv
    <2> QED
      BY <2>1, SNNext, Zenon
  <1>7. prog = "seqnum" => SQInv'
    <2>1. prog = "seqnum" => SQInv /\ [SQ!Next]_(SQ!seqVars)
      BY Steps, Zenon DEF ToolInv
    <2> QED
      BY <2>1, SQNext, Zenon
  <1>8. prog = "userns" => UCInv'
    <2>1. prog = "userns" => UCInv /\ [UC!Next]_(UC!usVars)
      BY Steps, Zenon DEF ToolInv
    <2> QED
      BY <2>1, UCNext, Zenon
  <1> QED
    BY <1>0, <1>1, <1>2, <1>3, <1>4, <1>5, <1>6, <1>7, <1>8, Zenon DEF ToolInv

(* ToolInv holds throughout. *)
THEOREM ToolInvariant == Spec => []ToolInv
  BY ToolInit, ToolNext, PTL DEF Spec

(* At most one process runs the program, and the file has its number: the  *)
(* lock of createPidFile() excludes all others until that process ends.    *)
THEOREM OnlyOneRuns == Spec => []RunsOnce
  <1>1. ToolInv => RunsOnce
    BY PFMeans, Zenon DEF ToolInv, RunsOnce
  <1> QED
    BY <1>1, ToolInvariant, PTL

(* Any number of processes that write any number of bytes with O_APPEND    *)
(* keep every byte, in order; only a process that uses lseek() overwrites. *)
THEOREM NothingOverwritten == Spec => []AppendKeepsAll
  <1>1. ToolInv => AppendKeepsAll
    BY Zenon DEF ToolInv, FAInv, AppendKeepsAll
  <1> QED
    BY <1>1, ToolInvariant, PTL

(* Files of any length, a buffer of any size, reads and writes of any      *)
(* length: copy's success means an equal target, and the lines and blocks  *)
(* returned are those of the stream, in order.                             *)
THEOREM CopiesAreWhole == Spec => []BytesArrive
  <1>1. ToolInv => BytesArrive
    BY FCMeans, Zenon DEF ToolInv, BytesArrive, LRInv
  <1> QED
    BY <1>1, ToolInvariant, PTL

(* Any number of files and entries: each list is valid wherever acl_update *)
(* stops, with exactly the entries applied so far.                         *)
THEOREM ListsStaySound == Spec => []AclsSound
  <1>1. ToolInv => AclsSound
    BY AUMeans, Zenon DEF ToolInv, AclsSound
  <1> QED
    BY <1>1, ToolInvariant, PTL

(* Any number of directories and of clients: mkdir() returns what the      *)
(* supervisor did, in spite of signals; each number is given once, without *)
(* gap, although clients are killed at any point.                          *)
THEOREM ToldWhatWasDone == Spec => []AnswersMatch
  <1>1. ToolInv => AnswersMatch
    BY SNMeans, SQMeans, Zenon DEF ToolInv, AnswersMatch
  <1> QED
    BY <1>1, ToolInvariant, PTL

(* The pipe holds the child back until the maps are written, or the parent *)
(* has failed.                                                             *)
THEOREM CommandAfterMaps == Spec => []MapsFirst
  <1>1. ToolInv => MapsFirst
    BY UCMeans, Zenon DEF ToolInv, MapsFirst
  <1> QED
    BY <1>1, ToolInvariant, PTL
=============================================================================
