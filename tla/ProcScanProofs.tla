--------------------------- MODULE ProcScanProofs ---------------------------
(***************************************************************************)
(* The scanners of /proc, for any processes that start and exit, and any   *)
(* size of the directory buffer.                                           *)
(*                                                                         *)
(* What has been taken from the directory lies before the offset, and is   *)
(* in a buffer, looked at, or done with: so no entry is seen twice, by     *)
(* whichever process, and one that stays is never lost between the three.  *)
(***************************************************************************)
EXTENDS ProcScan, Integers, TLAPS

Entry == {[kind |-> k, pid |-> 0] : k \in DOMAIN Fixed} \cup {PidEntry(p) : p \in Pid}
PC == {"none", "start", "wait", "readdir", "statdir", "stat", "fopen", "fgets", "done", "failed"}

Typed ==
    /\ program \in Programs /\ alive \subseteq Pid /\ stayed \subseteq alive /\ Child \notin stayed
    /\ pos \in 0 .. End /\ pc \in [Scanner -> PC]
    /\ dirbuf \in [Scanner -> SUBSET Entry] /\ entry \in [Scanner -> Entry \cup {NoEntry}]
    /\ errno \in [Scanner -> Nat] /\ printed \in [Scanner -> Seq(Pid)]

(* The entries a scanner has taken and not done with. *)
Looking(i) == pc[i] \in {"statdir", "stat", "fopen", "fgets"}
Open(i, e) == e \in dirbuf[i] \/ (Looking(i) /\ e = entry[i])

(* An entry is opened once, by one scanner, and lies before the offset. *)
OpenOnce ==
    /\ \A i \in Scanner : Looking(i) => entry[i] \in Entry /\ entry[i] \notin dirbuf[i]
    /\ \A i \in Scanner, e \in Entry : Open(i, e) => Offset(e) <= pos
    /\ \A e \in Entry : ~(Open("parent", e) /\ Open("child", e))

Other == Pid \ {Parent, Child}

(* What is printed is done with. *)
Printed(i, p) == \E k \in DOMAIN printed[i] : printed[i][k] = p
PrintedDone ==
    \A i \in Scanner, p \in Other : Printed(i, p) =>
        Offset(PidEntry(p)) <= pos /\ \A j \in Scanner : ~Open(j, PidEntry(p))
PrintedApart ==
    /\ \A i \in Scanner : \A j, k \in DOMAIN printed[i] :
         printed[i][j] = printed[i][k] /\ printed[i][j] \in Other => j = k
    /\ \A p \in Other : ~(Printed("parent", p) /\ Printed("child", p))

(* p_id_cmdn_si: who stays is ahead, in the buffer, looked at or printed. *)
Found ==
    program = "p_id" =>
        /\ pc["child"] = "none"
        /\ pc["parent"] = "done" => pos = End /\ dirbuf["parent"] = {}
        /\ \A p \in stayed \cap User :
             Offset(PidEntry(p)) <= pos => Printed("parent", p) \/ Open("parent", PidEntry(p))

ScanInv == Typed /\ OpenOnce /\ PrintedDone /\ PrintedApart /\ Found

-----------------------------------------------------------------------------
(* Entries and their offsets. *)
LEMMA OffsetIs ==
    /\ \A e \in Entry : Offset(e) \in 1 .. End /\ Offset(e) < End
    /\ \A p \in Pid : PidEntry(p) \in Entry /\ Offset(PidEntry(p)) = 3 + p
    /\ \A p, q \in Pid : PidEntry(p) = PidEntry(q) => p = q
    /\ \A p \in Pid : PidEntry(p).kind = "pid" /\ PidEntry(p).pid = p
  <1>1. \A p \in Pid : p \in 1 .. MaxPid /\ MaxPid \in Nat
    BY PidAssumption
  <1>2. \A p \in Pid : PidEntry(p) \in Entry /\ Offset(PidEntry(p)) = 3 + p
    BY Zenon DEF Entry, PidEntry, Offset
  <1>3. \A p \in Pid : PidEntry(p).kind = "pid" /\ PidEntry(p).pid = p
    BY DEF PidEntry
  <1>4. ASSUME NEW e \in Entry PROVE Offset(e) \in 1 .. End /\ Offset(e) < End
    <2>1. CASE e \in {PidEntry(p) : p \in Pid}
      BY <1>1, <1>2, <2>1 DEF End
    <2>2. CASE e \in {[kind |-> k, pid |-> 0] : k \in DOMAIN Fixed}
      <3>1. e.kind \in {"dir", "file", "self"} /\ Offset(e) = Fixed[e.kind]
        BY <2>2 DEF Fixed, Offset
      <3> QED
        BY <3>1, PidAssumption DEF Fixed, End
    <2> QED
      BY <2>1, <2>2 DEF Entry
  <1> QED
    BY <1>2, <1>3, <1>4

(* At the start nothing was taken. *)
LEMMA ScanInit == Init => ScanInv
  <1> SUFFICES ASSUME Init PROVE ScanInv
    OBVIOUS
  <1>1. Typed
    BY PidAssumption DEF Init, Typed, Scanner, PC, End
  <1>2. /\ \A i \in Scanner : ~Looking(i) /\ dirbuf[i] = {} /\ printed[i] = <<>>
    BY DEF Init, Scanner, Looking
  <1>3. \A p \in Pid : ~(Offset(PidEntry(p)) <= 0)
    BY OffsetIs, PidAssumption
  <1>4. OpenOnce /\ PrintedDone /\ PrintedApart
    BY <1>2 DEF OpenOnce, PrintedDone, PrintedApart, Open, Printed, Scanner
  <1>5. Found
    BY <1>1, <1>3 DEF Init, Found, Typed
  <1> QED
    BY <1>1, <1>4, <1>5 DEF ScanInv
(* A step in which no entry is taken and nothing printed: who stays is not *)
(* dropped, and does not fall behind the offset.                           *)
LEMMA Quiet ==
    ASSUME ScanInv, Typed', UNCHANGED <<program, dirbuf, entry, printed>>, stayed' \subseteq stayed,
           \A i \in Scanner : Looking(i)' => Looking(i),
           \A e \in Entry : Offset(e) <= pos => Offset(e) <= pos',
           program = "p_id" =>
             /\ pc'["child"] = "none" /\ (pc'["parent"] = "done" => pos' = End /\ dirbuf["parent"] = {})
             /\ \A p \in stayed' \cap User :
                  /\ Offset(PidEntry(p)) <= pos' => Offset(PidEntry(p)) <= pos
                  /\ Looking("parent") /\ entry["parent"] = PidEntry(p) => Looking("parent")'
    PROVE  ScanInv'
  <1>1. \A i \in Scanner, e \in Entry : Open(i, e)' => Open(i, e)
    BY Zenon DEF Open
  <1>2. \A i \in Scanner, p \in Pid : Printed(i, p)' <=> Printed(i, p)
    BY Zenon DEF Printed
  <1>3. OpenOnce'
    BY <1>1, Zenon DEF ScanInv, OpenOnce, Scanner
  <1>4. PrintedDone'
    BY <1>1, <1>2, OffsetIs, Zenon DEF ScanInv, PrintedDone, Other
  <1>5. PrintedApart'
    BY <1>2, Zenon DEF ScanInv, PrintedApart, Other, Scanner
  <1>6. Found'
    <2> SUFFICES ASSUME program = "p_id", NEW p \in stayed' \cap User, Offset(PidEntry(p)) <= pos'
                 PROVE  Printed("parent", p)' \/ Open("parent", PidEntry(p))'
      BY Zenon DEF Found
    <2>1. p \in Pid /\ p \in stayed \cap User
      BY Zenon DEF ScanInv, Typed
    <2>2. Printed("parent", p) \/ Open("parent", PidEntry(p))
      BY <2>1, Zenon DEF ScanInv, Found
    <2> QED
      BY <1>2, <2>1, <2>2, Zenon DEF Open, Scanner
  <1> QED
    BY <1>3, <1>4, <1>5, <1>6, Zenon DEF ScanInv

(* Processes start and exit. *)
LEMMA WorldKeeps == ASSUME ScanInv, NEW p \in Pid, Start(p) \/ Exit(p) PROVE ScanInv'
  <1>1. /\ Typed' /\ stayed' \subseteq stayed
        /\ UNCHANGED <<program, pos, pc, dirbuf, entry, printed>>
    BY DEF ScanInv, Typed, Start, Exit
  <1> QED
    BY <1>1, Quiet, Zenon DEF ScanInv, Found, Looking

(* fork(), waitpid(), opendir(). *)
LEMMA MainKeeps == ASSUME ScanInv, Main PROVE ScanInv'
  <1>1. UNCHANGED <<program, pos, stayed, dirbuf, entry, printed>>
    BY Zenon DEF Main, Fork, waitpid, opendir, world
  <1>2. /\ pc' \in [Scanner -> PC] /\ \A i \in Scanner : Looking(i)' => Looking(i)
        /\ ~Looking("parent")
        /\ program = "p_id" => pc'["child"] = "none" /\ pc'["parent"] # "done"
    <2>1. pc \in [Scanner -> PC] /\ "parent" \in Scanner /\ "child" \in Scanner
      BY DEF ScanInv, Typed, Scanner
    <2>2. CASE Fork
      BY <2>1, <2>2 DEF Fork, PC, Looking, Scanner
    <2>3. CASE waitpid
      BY <2>1, <2>3 DEF ScanInv, Found, waitpid, Goto, PC, Looking
    <2>4. CASE opendir
      BY <2>1, <2>4 DEF ScanInv, Found, opendir, Goto, PC, Looking
    <2> QED
      BY <2>2, <2>3, <2>4, Zenon DEF Main
  <1>3. alive' \subseteq Pid /\ stayed' \subseteq alive' /\ Child \notin stayed'
    BY PidAssumption, Zenon DEF ScanInv, Typed, Main, Fork, waitpid, opendir, world
  <1>4. errno' \in [Scanner -> Nat]
    <2>1. errno \in [Scanner -> Nat]
      BY DEF ScanInv, Typed
    <2>2. \E i \in Scanner : errno' = [errno EXCEPT ![i] = 0] \/ errno' = errno
      BY Zenon DEF Main, Fork, waitpid, opendir, SetErrno, Scanner
    <2> QED
      BY <2>1, <2>2
  <1>5. Typed'
    BY <1>1, <1>2, <1>3, <1>4, Zenon DEF ScanInv, Typed
  <1> QED
    BY <1>1, <1>2, <1>5, Quiet, Zenon
(* Of a process that stays there is everything to be found. *)
LEMMA StaysThere ==
    ASSUME ScanInv, NEW p \in stayed
    PROVE  /\ p \in Pid /\ PidEntry(p) \in Entries
           /\ IsDir(PidEntry(p)) /\ HasStatus(PidEntry(p)) /\ Exists(PidEntry(p))
  <1>1. p \in alive /\ p \in Pid
    BY Zenon DEF ScanInv, Typed
  <1> QED
    BY <1>1, OffsetIs, Zenon DEF Entries, IsDir, HasStatus, Exists

(* The steps in which an entry is looked at, and dropped when it is not    *)
(* the one of a process, or of one that is gone.                           *)
LEMMA LooksKeep ==
    ASSUME ScanInv, NEW i \in Scanner,
           \/ statDir(i) \/ statDirFails(i) \/ stat(i) \/ statFails(i)
           \/ fopen(i) \/ fopenFails(i) \/ readfdataFails(i)
    PROVE  ScanInv'
  <1>1. UNCHANGED <<program, alive, stayed, pos, dirbuf, entry, printed>> /\ Looking(i)
    BY Zenon DEF statDir, statDirFails, stat, statFails, fopen, fopenFails, readfdataFails, world, Looking
  <1>2. PICK l \in {"stat", "fopen", "fgets", "readdir"} :
           /\ pc' = [pc EXCEPT ![i] = l]
           /\ l = "readdir" => ~IsDir(entry[i]) \/ ~HasStatus(entry[i]) \/ ~Exists(entry[i])
    BY Zenon DEF statDir, statDirFails, stat, statFails, fopen, fopenFails, readfdataFails, Goto
  <1>3. errno' = errno \/ \E e \in Nat : errno' = [errno EXCEPT ![i] = e]
    <2>1. 2 \in Nat /\ 3 \in Nat
      OBVIOUS
    <2> QED
      BY <2>1, Zenon DEF statDir, statDirFails, stat, statFails, fopen, fopenFails, readfdataFails, SetErrno
  <1>4. pc \in [Scanner -> PC] /\ errno \in [Scanner -> Nat]
    BY Zenon DEF ScanInv, Typed
  <1>5. pc' \in [Scanner -> PC] /\ errno' \in [Scanner -> Nat]
    BY <1>2, <1>3, <1>4 DEF PC
  <1>6. Typed'
    BY <1>1, <1>5, Zenon DEF ScanInv, Typed
  <1>7. /\ \A k \in Scanner : Looking(k)' => Looking(k)
        /\ l # "readdir" => Looking(i)'
        /\ \A k \in Scanner : k # i => pc'[k] = pc[k] /\ (Looking(k)' <=> Looking(k))
    BY <1>1, <1>2, <1>4, Zenon DEF Looking
  <1>8. ASSUME program = "p_id"
        PROVE  /\ pc'["child"] = "none" /\ pc'["parent"] # "done"
               /\ \A p \in stayed' \cap User :
                    Looking("parent") /\ entry["parent"] = PidEntry(p) => Looking("parent")'
    <2>1. i = "parent" /\ pc["child"] = "none"
      BY <1>1, <1>8, Zenon DEF ScanInv, Found, Looking, Scanner
    <2>2. pc'["child"] = "none" /\ pc'["parent"] = l
      BY <1>2, <1>4, <2>1, Zenon DEF Scanner
    <2> QED
      BY <1>1, <1>2, <1>7, <2>1, <2>2, StaysThere, Zenon
  <1> QED
    BY <1>1, <1>6, <1>7, <1>8, Quiet, Zenon

(* The end of the directory. *)
LEMMA EndKeeps == ASSUME ScanInv, NEW i \in Scanner, readdirEnd(i) \/ readdirError(i) PROVE ScanInv'
  <1>1. /\ UNCHANGED <<program, alive, stayed, dirbuf, entry, printed>> /\ pos' = End
        /\ pc[i] = "readdir" /\ dirbuf[i] = {} /\ Remaining = {}
    BY Zenon DEF readdirEnd, readdirError, AtEnd, world
  <1>2. PICK l \in {"done", "failed"} : pc' = [pc EXCEPT ![i] = l]
    BY Zenon DEF readdirEnd, readdirError, Goto
  <1>3. errno' = errno \/ errno' = [errno EXCEPT ![i] = 0]
    BY Zenon DEF readdirEnd, readdirError, SetErrno
  <1>4. pc \in [Scanner -> PC] /\ errno \in [Scanner -> Nat] /\ pos \in 0 .. End
    BY Zenon DEF ScanInv, Typed
  <1>5. pc' \in [Scanner -> PC] /\ errno' \in [Scanner -> Nat] /\ pos' \in 0 .. End
    BY <1>1, <1>2, <1>3, <1>4, PidAssumption DEF PC, End
  <1>6. Typed'
    BY <1>1, <1>5, Zenon DEF ScanInv, Typed
  <1>7. /\ \A k \in Scanner : Looking(k)' => Looking(k)
        /\ ~Looking(i) /\ \A k \in Scanner : k # i => pc'[k] = pc[k]
    BY <1>1, <1>2, <1>4, Zenon DEF Looking
  <1>8. \A e \in Entry : Offset(e) <= pos => Offset(e) <= pos'
    BY <1>1, <1>4, OffsetIs
  <1>9. \A p \in stayed : Offset(PidEntry(p)) <= pos
    <2>1. \A p \in stayed : ~(Offset(PidEntry(p)) > pos) /\ Offset(PidEntry(p)) \in Nat
      <3>1. ASSUME NEW p \in stayed PROVE ~(Offset(PidEntry(p)) > pos) /\ p \in Pid
        BY <1>1, StaysThere, Zenon DEF Remaining
      <3>2. \A p \in Pid : Offset(PidEntry(p)) \in Nat
        BY OffsetIs
      <3> QED
        BY <3>1, <3>2, Zenon
    <2> QED
      BY <1>4, <2>1
  <1>10. ASSUME program = "p_id" PROVE i = "parent" /\ pc'["child"] = "none"
    BY <1>1, <1>7, <1>10, Zenon DEF ScanInv, Found, Scanner
  <1> QED
    BY <1>1, <1>6, <1>7, <1>8, <1>9, <1>10, Quiet, Zenon

(* getdents() takes entries beyond the offset, none of which is open, and  *)
(* leaves none behind.                                                     *)
LEMMA FillKeeps == ASSUME ScanInv, NEW i \in Scanner, readdirFill(i) PROVE ScanInv'
  <1>1. /\ UNCHANGED <<program, alive, stayed, pc, entry, errno, printed>>
        /\ pc[i] = "readdir" /\ dirbuf[i] = {}
    BY Zenon DEF readdirFill, world
  <1>0. PICK buf \in SUBSET Remaining : \E last \in buf :
           Taken(buf, last) /\ dirbuf' = [dirbuf EXCEPT ![i] = buf] /\ pos' = Behind(buf, last)
    BY Zenon DEF readdirFill
  <1>2. PICK last \in buf :
           Taken(buf, last) /\ dirbuf' = [dirbuf EXCEPT ![i] = buf] /\ pos' = Behind(buf, last)
    BY <1>0
  <1>3. dirbuf \in [Scanner -> SUBSET Entry] /\ pos \in 0 .. End /\ pos \in Nat /\ alive \subseteq Pid
    BY PidAssumption DEF ScanInv, Typed, End
  <1>4. /\ Remaining \subseteq Entry /\ buf \subseteq Entry /\ last \in Entry
    <2>1. Entries \subseteq Entry
      BY <1>3, Zenon DEF Entries, Entry
    <2>2. Remaining \subseteq Entries
      BY Zenon DEF Remaining
    <2> QED
      BY <1>2, <2>1, <2>2, Zenon
  <1>5. \A e \in Remaining : Offset(e) > pos
    BY Zenon DEF Remaining
  <1>6. \A e \in Entry : Offset(e) \in Nat /\ Offset(e) \in 1 .. End
    BY OffsetIs
  <1>7. End \in Nat /\ pos' \in {End, Offset(last)} /\ (buf # Remaining => pos' = Offset(last))
    <2>1. End \in Nat
      BY PidAssumption DEF End
    <2> QED
      BY <1>2, <2>1, Zenon DEF Behind
  <1>8. pos' \in 0 .. End /\ \A e \in Entry : Offset(e) <= pos => Offset(e) <= pos'
    BY <1>2, <1>3, <1>4, <1>5, <1>6, <1>7
  <1>9. \A e \in buf : pos < Offset(e) /\ Offset(e) <= pos'
    <2>1. \A e \in buf : Offset(e) <= Offset(last)
      BY <1>2, Zenon DEF Taken
    <2> QED
      BY <1>2, <1>3, <1>4, <1>5, <1>6, <1>7, <2>1
  <1>10. ASSUME NEW p \in stayed, Offset(PidEntry(p)) <= pos' PROVE Offset(PidEntry(p)) <= pos \/ PidEntry(p) \in buf
    <2> DEFINE e == PidEntry(p)
    <2>1. e \in Entries /\ e \in Entry
      BY StaysThere, OffsetIs, Zenon
    <2>2. Offset(e) > pos => e \in Remaining
      BY <2>1, Zenon DEF Remaining
    <2>3. e \in Remaining \ buf => Offset(last) < Offset(e) /\ pos' = Offset(last)
      BY <1>2, <1>7, Zenon DEF Taken
    <2> HIDE DEF e
    <2>4. Offset(e) <= pos' => Offset(e) <= pos \/ e \in buf
      BY <1>3, <1>4, <1>6, <1>8, <2>1, <2>2, <2>3
    <2> QED
      BY <1>10, <2>4, Zenon DEF e
  <1>11. /\ dirbuf' \in [Scanner -> SUBSET Entry] /\ dirbuf'[i] = buf
         /\ \A k \in Scanner : k # i => dirbuf'[k] = dirbuf[k]
    BY <1>2, <1>3, <1>4, Zenon
  <1>12. Typed'
    BY <1>1, <1>8, <1>11, Zenon DEF ScanInv, Typed
  <1>13. ~Looking(i) /\ \A k \in Scanner : Looking(k)' <=> Looking(k)
    BY <1>1, Zenon DEF Looking
  <1>14. \A k \in Scanner, e \in Entry : Open(k, e)' <=> Open(k, e) \/ (k = i /\ e \in buf)
    BY <1>1, <1>11, <1>13, Zenon DEF Open
  <1>15. \A k \in Scanner, e \in buf : ~Open(k, e)
    <2>1. \A k \in Scanner, e \in Entry : Open(k, e) => Offset(e) <= pos
      BY Zenon DEF ScanInv, OpenOnce
    <2>2. \A e \in buf : ~(Offset(e) <= pos)
      BY <1>3, <1>4, <1>6, <1>9
    <2> QED
      BY <1>4, <2>1, <2>2, Zenon
  <1>16. OpenOnce'
    <2>1. \A k \in Scanner : Looking(k)' => entry'[k] \in Entry /\ entry'[k] \notin dirbuf'[k]
      BY <1>1, <1>11, <1>13, Zenon DEF ScanInv, OpenOnce
    <2>2. \A k \in Scanner, e \in Entry : Open(k, e)' => Offset(e) <= pos'
      BY <1>8, <1>9, <1>14, Zenon DEF ScanInv, OpenOnce
    <2>3. \A e \in Entry : ~(Open("parent", e)' /\ Open("child", e)')
      <3>1. "parent" \in Scanner /\ "child" \in Scanner /\ "parent" # "child"
        BY DEF Scanner
      <3> QED
        BY <1>14, <1>15, <3>1, Zenon DEF ScanInv, OpenOnce
    <2> QED
      BY <2>1, <2>2, <2>3, Zenon DEF OpenOnce, Offset, Fixed
  <1>17. \A k, p : Printed(k, p)' <=> Printed(k, p)
    BY <1>1, Zenon DEF Printed
  <1>18. PrintedDone'
    <2>1. ASSUME NEW k \in Scanner, NEW p \in Other, Printed(k, p)'
          PROVE  Offset(PidEntry(p)) <= pos' /\ \A j \in Scanner : ~Open(j, PidEntry(p))'
      <3>1. p \in Pid /\ PidEntry(p) \in Entry
        BY OffsetIs, Zenon DEF Other
      <3>2. Offset(PidEntry(p)) <= pos /\ \A j \in Scanner : ~Open(j, PidEntry(p))
        BY <1>17, <2>1, Zenon DEF ScanInv, PrintedDone
      <3>3. PidEntry(p) \notin buf
        BY <1>3, <1>6, <1>9, <3>1, <3>2
      <3> QED
        BY <1>8, <1>14, <3>1, <3>2, <3>3, Zenon
    <2> QED
      BY <2>1, Zenon DEF PrintedDone, Offset, Fixed, PidEntry
  <1>19. PrintedApart'
    BY <1>1, <1>17, Zenon DEF ScanInv, PrintedApart
  <1>20. Found'
    <2> SUFFICES ASSUME program = "p_id" PROVE Found'
      BY <1>1, Zenon DEF Found
    <2>1. pc["child"] = "none" /\ i = "parent" /\ "parent" \in Scanner
      BY <1>1, Zenon DEF ScanInv, Found, Scanner
    <2>2. ASSUME NEW p \in stayed \cap User, Offset(PidEntry(p)) <= pos'
          PROVE  Printed("parent", p)' \/ Open("parent", PidEntry(p))'
      <3>1. PidEntry(p) \in Entry
        BY StaysThere, OffsetIs, Zenon
      <3>2. Offset(PidEntry(p)) <= pos => Printed("parent", p) \/ Open("parent", PidEntry(p))
        BY Zenon DEF ScanInv, Found
      <3> QED
        BY <1>10, <1>14, <1>17, <2>1, <2>2, <3>1, <3>2, Zenon
    <2> QED
      BY <1>1, <2>1, <2>2, Zenon DEF Found, Offset, Fixed, PidEntry
  <1> QED
    BY <1>12, <1>16, <1>18, <1>19, <1>20, Zenon DEF ScanInv

(* An entry goes from the buffer to be looked at: it stays open. *)
LEMMA TakeKeeps == ASSUME ScanInv, NEW i \in Scanner, readdir(i) PROVE ScanInv'
  <1>1. UNCHANGED <<program, alive, stayed, pos, printed>> /\ pc[i] = "readdir"
    BY Zenon DEF readdir, world
  <1>2. PICK e \in dirbuf[i] :
           entry' = [entry EXCEPT ![i] = e] /\ dirbuf' = [dirbuf EXCEPT ![i] = @ \ {e}]
    BY Zenon DEF readdir
  <1>3. PICK l \in {"stat", "statdir"} : pc' = [pc EXCEPT ![i] = l]
    BY Zenon DEF readdir, Goto
  <1>4. errno' \in [Scanner -> Nat]
    <2>1. errno \in [Scanner -> Nat]
      BY Zenon DEF ScanInv, Typed
    <2>2. errno[i] \in Nat /\ 0 \in Nat
      BY <2>1
    <2>3. errnoAtReaddir(i) \in Nat
      BY <2>2, Zenon DEF errnoAtReaddir
    <2>4. errno' = [errno EXCEPT ![i] = errnoAtReaddir(i)]
      BY Zenon DEF readdir, SetErrno
    <2> QED
      BY <2>1, <2>3, <2>4, Zenon
  <1>5. /\ pc \in [Scanner -> PC] /\ dirbuf \in [Scanner -> SUBSET Entry]
        /\ entry \in [Scanner -> Entry \cup {NoEntry}]
    BY Zenon DEF ScanInv, Typed
  <1>6. e \in Entry /\ l \in PC
    BY <1>2, <1>3, <1>5, Zenon DEF PC
  <1>7. /\ pc' \in [Scanner -> PC] /\ pc'[i] = l /\ entry'[i] = e /\ dirbuf'[i] = dirbuf[i] \ {e}
        /\ \A k \in Scanner : k # i => pc'[k] = pc[k] /\ entry'[k] = entry[k] /\ dirbuf'[k] = dirbuf[k]
        /\ dirbuf' \in [Scanner -> SUBSET Entry] /\ entry' \in [Scanner -> Entry \cup {NoEntry}]
    BY <1>2, <1>3, <1>5, <1>6
  <1>8. Typed'
    BY <1>1, <1>4, <1>7, Zenon DEF ScanInv, Typed
  <1>9. ~Looking(i) /\ Looking(i)' /\ \A k \in Scanner : k # i => (Looking(k)' <=> Looking(k))
    BY <1>1, <1>3, <1>7, Zenon DEF Looking
  <1>10. \A k \in Scanner, f \in Entry : Open(k, f)' <=> Open(k, f)
    <2>1. \A f \in Entry : Open(i, f)' <=> Open(i, f)
      BY <1>2, <1>7, <1>9, Zenon DEF Open
    <2>2. \A k \in Scanner : k # i => \A f \in Entry : Open(k, f)' <=> Open(k, f)
      BY <1>7, <1>9, Zenon DEF Open
    <2> QED
      BY <2>1, <2>2, Zenon
  <1>11. \A k, p : Printed(k, p)' <=> Printed(k, p)
    BY <1>1, Zenon DEF Printed
  <1>12. \A f : Offset(f)' = Offset(f)
    BY Zenon DEF Offset, Fixed
  <1>13. OpenOnce'
    <2>1. \A k \in Scanner : Looking(k)' => entry'[k] \in Entry /\ entry'[k] \notin dirbuf'[k]
      BY <1>6, <1>7, <1>9, Zenon DEF ScanInv, OpenOnce
    <2>2. "parent" \in Scanner /\ "child" \in Scanner
      BY Zenon DEF Scanner
    <2>3. \A f \in Entry : ~(Open("parent", f)' /\ Open("child", f)')
      BY <1>10, <2>2, Zenon DEF ScanInv, OpenOnce
    <2>4. \A k \in Scanner, f \in Entry : Open(k, f)' => Offset(f) <= pos'
      BY <1>1, <1>10, Zenon DEF ScanInv, OpenOnce
    <2> QED
      BY <1>12, <2>1, <2>3, <2>4, Zenon DEF OpenOnce
  <1>14. \A p \in Pid : PidEntry(p) \in Entry
    BY OffsetIs, Zenon
  <1>15. PrintedDone' /\ PrintedApart'
    <2>1. \A p \in Other : p \in Pid
      BY Zenon DEF Other
    <2>2. \A k \in Scanner, p \in Other : Printed(k, p)' =>
             Offset(PidEntry(p)) <= pos' /\ \A j \in Scanner : ~Open(j, PidEntry(p))'
      BY <1>1, <1>10, <1>11, <1>14, <2>1, Zenon DEF ScanInv, PrintedDone
    <2>3. PrintedDone'
      BY <2>2, Zenon DEF PrintedDone, Offset, Fixed, PidEntry
    <2>4. PrintedApart'
      BY <1>1, <1>11, Zenon DEF ScanInv, PrintedApart
    <2> QED
      BY <2>3, <2>4
  <1>16. Found'
    <2> SUFFICES ASSUME program = "p_id" PROVE Found'
      BY <1>1, Zenon DEF Found
    <2>1. pc["child"] = "none" /\ i = "parent" /\ "parent" \in Scanner /\ "child" \in Scanner
      BY <1>1, Zenon DEF ScanInv, Found, Scanner
    <2>2. pc'["child"] = "none" /\ pc'["parent"] # "done"
      BY <1>3, <1>7, <2>1, Zenon
    <2>3. \A p \in stayed \cap User :
             Offset(PidEntry(p)) <= pos' => Printed("parent", p)' \/ Open("parent", PidEntry(p))'
      BY <1>1, <1>10, <1>11, <1>14, <2>1, StaysThere, Zenon DEF ScanInv, Found
    <2> QED
      BY <1>1, <2>2, <2>3, Zenon DEF Found, Offset, Fixed, PidEntry
  <1> QED
    BY <1>8, <1>13, <1>15, <1>16, Zenon DEF ScanInv

(* A process is printed, unless it is not wanted: its entry is done with. *)
LEMMA PrintKeeps == ASSUME ScanInv, NEW i \in Scanner, readfdata(i) PROVE ScanInv'
  <1>0. PICK q : q = Process(i, entry[i])
    OBVIOUS
  <1>1. /\ UNCHANGED <<program, alive, stayed, pos, dirbuf, entry>> /\ Looking(i)
        /\ pc' = [pc EXCEPT ![i] = "readdir"] /\ errno' = [errno EXCEPT ![i] = 0]
        /\ HasStatus(entry[i])
        /\ \/ printed' = [printed EXCEPT ![i] = Append(@, q)] /\ Wanted(q)
           \/ printed' = printed /\ ~Wanted(q)
    BY <1>0, Zenon DEF readfdata, world, Looking, Goto, SetErrno
  <1>2. /\ pc \in [Scanner -> PC] /\ errno \in [Scanner -> Nat] /\ printed \in [Scanner -> Seq(Pid)]
        /\ alive \subseteq Pid /\ entry[i] \in Entry
    BY <1>1, Zenon DEF ScanInv, Typed, OpenOnce
  <1>3. q \in Pid /\ (q \in Other => entry[i] = PidEntry(q))
    <2>1. CASE entry[i].kind = "self"
      BY <1>0, <2>1, PidAssumption, Zenon DEF Process, self, Other
    <2>2. CASE entry[i].kind = "pid" /\ entry[i].pid \in alive
      <3>1. q = entry[i].pid /\ q \in Pid
        <4>1. "pid" # "self"
          OBVIOUS
        <4> QED
          BY <1>0, <1>2, <2>2, <4>1, Zenon DEF Process
      <3>2. entry[i] \in {PidEntry(p) : p \in Pid}
        BY <1>2, <2>2 DEF Entry, Fixed
      <3>3. PICK p \in Pid : entry[i] = PidEntry(p)
        BY <3>2, Zenon
      <3>4. p = q
        BY <3>1, <3>3, OffsetIs, Zenon
      <3> QED
        BY <3>1, <3>3, <3>4, Zenon
    <2> QED
      BY <1>1, <2>1, <2>2, Zenon DEF HasStatus
  <1>4. \A p \in Pid : entry[i] = PidEntry(p) => q = p
    <2>1. "pid" # "self"
      OBVIOUS
    <2> QED
      BY <1>0, <2>1, OffsetIs, Zenon DEF Process
  <1>5. Wanted(q) <=> program = "pstree" \/ q \in User
    BY Zenon DEF Wanted
  <1>6. pc' \in [Scanner -> PC] /\ errno' \in [Scanner -> Nat] /\ printed' \in [Scanner -> Seq(Pid)]
    <2>1. pc' \in [Scanner -> PC] /\ errno' \in [Scanner -> Nat]
      BY <1>1, <1>2 DEF PC
    <2>2. \A s \in Seq(Pid) : Append(s, q) \in Seq(Pid)
      BY <1>3
    <2>3. printed' \in [Scanner -> Seq(Pid)]
      BY <1>1, <1>2, <2>2, Zenon
    <2> QED
      BY <2>1, <2>3
  <1>7. Typed'
    BY <1>1, <1>6, Zenon DEF ScanInv, Typed
  <1>8. ~Looking(i)' /\ \A k \in Scanner : k # i => pc'[k] = pc[k] /\ (Looking(k)' <=> Looking(k))
    BY <1>1, <1>2, Zenon DEF Looking
  <1>9. \A k \in Scanner, e \in Entry : Open(k, e)' <=> Open(k, e) /\ ~(k = i /\ e = entry[i])
    <2>1. entry[i] \notin dirbuf[i]
      BY <1>1, Zenon DEF ScanInv, OpenOnce
    <2>2. \A e \in Entry : Open(i, e)' <=> Open(i, e) /\ e # entry[i]
      BY <1>1, <1>8, <2>1, Zenon DEF Open
    <2>3. \A k \in Scanner : k # i => \A e \in Entry : Open(k, e)' <=> Open(k, e)
      BY <1>1, <1>8, Zenon DEF Open
    <2> QED
      BY <2>2, <2>3, Zenon
  <1>10. Open(i, entry[i])
    BY <1>1, Zenon DEF Open
  <1>11. /\ \A k \in Scanner : k # i => printed'[k] = printed[k]
         /\ printed'[i] = printed[i] \/ printed'[i] = Append(printed[i], q)
         /\ Wanted(q) => printed'[i] = Append(printed[i], q)
    BY <1>1, <1>2, Zenon
  <1>12. \A k \in Scanner : printed[k] \in Seq(Pid)
    BY <1>2, Zenon
  <1>13. /\ \A k \in Scanner, p \in Pid : Printed(k, p)' => Printed(k, p) \/ (k = i /\ p = q)
         /\ \A k \in Scanner, p \in Pid : Printed(k, p) => Printed(k, p)'
         /\ Wanted(q) => Printed(i, q)'
    <2>1. \A k \in Scanner, p \in Pid : k # i => (Printed(k, p)' <=> Printed(k, p))
      BY <1>11, Zenon DEF Printed
    <2>2. /\ \A p \in Pid : Printed(i, p)' => Printed(i, p) \/ p = q
          /\ \A p \in Pid : Printed(i, p) => Printed(i, p)'
      <3> DEFINE s == printed[i]
      <3>1. s \in Seq(Pid)
        BY <1>12
      <3> HIDE DEF s
      <3>2. /\ \A k \in DOMAIN Append(s, q) : (k \in DOMAIN s /\ Append(s, q)[k] = s[k]) \/ Append(s, q)[k] = q
            /\ \A k \in DOMAIN s : k \in DOMAIN Append(s, q) /\ Append(s, q)[k] = s[k]
        BY <1>3, <3>1
      <3>3. printed'[i] = s \/ printed'[i] = Append(s, q)
        BY <1>11 DEF s
      <3> QED
        BY <3>2, <3>3, Zenon DEF Printed, s
    <2>3. Wanted(q) => Printed(i, q)'
      <3>1. printed[i] \in Seq(Pid)
        BY <1>12
      <3>2. Append(printed[i], q)[Len(printed[i]) + 1] = q /\ Len(printed[i]) + 1 \in DOMAIN Append(printed[i], q)
        BY <1>3, <3>1
      <3> QED
        BY <1>11, <3>2, Zenon DEF Printed
    <2> QED
      BY <2>1, <2>2, <2>3, Zenon
  <1>14. q \in Other => \A k \in Scanner : ~Printed(k, q)
    BY <1>3, <1>10, Zenon DEF ScanInv, PrintedDone
  <1>15. \A f : Offset(f)' = Offset(f)
    BY Zenon DEF Offset, Fixed
  <1>16. "parent" \in Scanner /\ "child" \in Scanner /\ "parent" # "child" /\ Scanner = {"parent", "child"}
    BY DEF Scanner
  <1>17. OpenOnce'
    <2>1. \A k \in Scanner : Looking(k)' => entry'[k] \in Entry /\ entry'[k] \notin dirbuf'[k]
      BY <1>1, <1>8, Zenon DEF ScanInv, OpenOnce
    <2>2. \A e \in Entry : ~(Open("parent", e)' /\ Open("child", e)')
      BY <1>9, <1>16, Zenon DEF ScanInv, OpenOnce
    <2>3. \A k \in Scanner, e \in Entry : Open(k, e)' => Offset(e) <= pos'
      BY <1>1, <1>9, Zenon DEF ScanInv, OpenOnce
    <2> QED
      BY <1>15, <2>1, <2>2, <2>3, Zenon DEF OpenOnce
  <1>18. PrintedDone'
    <2>1. ASSUME NEW k \in Scanner, NEW p \in Other, Printed(k, p)'
          PROVE  Offset(PidEntry(p)) <= pos' /\ \A j \in Scanner : ~Open(j, PidEntry(p))'
      <3>1. p \in Pid /\ PidEntry(p) \in Entry
        BY OffsetIs, Zenon DEF Other
      <3>2. CASE Printed(k, p)
        BY <1>1, <1>9, <3>1, <3>2, Zenon DEF ScanInv, PrintedDone
      <3>3. CASE p = q
        <4>1. entry[i] = PidEntry(p)
          BY <1>3, <3>3, Zenon
        <4>2. Offset(PidEntry(p)) <= pos
          BY <1>10, <3>1, <4>1, Zenon DEF ScanInv, OpenOnce
        <4>3. \A j \in Scanner : j # i => ~Open(j, PidEntry(p))
          BY <1>10, <1>16, <3>1, <4>1, Zenon DEF ScanInv, OpenOnce
        <4> QED
          BY <1>1, <1>9, <3>1, <4>1, <4>2, <4>3, Zenon
      <3> QED
        BY <1>13, <2>1, <3>1, <3>2, <3>3, Zenon
    <2> QED
      BY <2>1, Zenon DEF PrintedDone, Offset, Fixed, PidEntry
  <1>19. PrintedApart'
    <2>1. \A p \in Other : ~(Printed("parent", p)' /\ Printed("child", p)')
      <3>1. \A p \in Other : p \in Pid
        BY Zenon DEF Other
      <3> QED
        BY <1>13, <1>14, <1>16, <3>1, Zenon DEF ScanInv, PrintedApart
    <2>2. ASSUME NEW k \in Scanner, k # i, NEW m \in DOMAIN printed'[k], NEW n \in DOMAIN printed'[k],
                 printed'[k][m] = printed'[k][n], printed'[k][m] \in Other
          PROVE  m = n
      BY <1>11, <2>2, Zenon DEF ScanInv, PrintedApart
    <2>3. ASSUME NEW m \in DOMAIN printed'[i], NEW n \in DOMAIN printed'[i],
                 printed'[i][m] = printed'[i][n], printed'[i][m] \in Other
          PROVE  m = n
      <3>1. CASE printed'[i] = printed[i]
        BY <2>3, <3>1, Zenon DEF ScanInv, PrintedApart
      <3>2. CASE printed'[i] = Append(printed[i], q)
        <4> DEFINE s == printed[i]
        <4>1. s \in Seq(Pid) /\ q \in Pid
          BY <1>3, <1>12, Zenon
        <4>2. \A a, b \in DOMAIN s : s[a] = s[b] /\ s[a] \in Other => a = b
          BY Zenon DEF ScanInv, PrintedApart
        <4>3. q \in Other => \A a \in DOMAIN s : s[a] # q
          BY <1>14, Zenon DEF Printed
        <4>4. /\ m \in DOMAIN Append(s, q) /\ n \in DOMAIN Append(s, q)
              /\ Append(s, q)[m] = Append(s, q)[n] /\ Append(s, q)[m] \in Other
          BY <2>3, <3>2, Zenon
        <4> HIDE DEF s
        <4>5. \A a \in DOMAIN Append(s, q) :
                 (a \in DOMAIN s /\ Append(s, q)[a] = s[a]) \/ (a = Len(s) + 1 /\ Append(s, q)[a] = q)
          BY <4>1
        <4> QED
          BY <4>2, <4>3, <4>4, <4>5, Zenon
      <3> QED
        BY <1>11, <3>1, <3>2, Zenon
    <2>4. \A k \in Scanner : \A m, n \in DOMAIN printed'[k] :
             printed'[k][m] = printed'[k][n] /\ printed'[k][m] \in Other => m = n
      BY <2>2, <2>3, Zenon
    <2> QED
      BY <2>1, <2>4, Zenon DEF PrintedApart, Other
  <1>20. Found'
    <2> SUFFICES ASSUME program = "p_id" PROVE Found'
      BY <1>1, Zenon DEF Found
    <2>1. pc["child"] = "none" /\ i = "parent"
      BY <1>1, Zenon DEF ScanInv, Found, Scanner, Looking
    <2>2. pc'["child"] = "none" /\ pc'["parent"] = "readdir"
      BY <1>1, <1>2, <1>16, <2>1, Zenon
    <2>3. ASSUME NEW p \in stayed \cap User, Offset(PidEntry(p)) <= pos'
          PROVE  Printed("parent", p)' \/ Open("parent", PidEntry(p))'
      <3>1. PidEntry(p) \in Entry /\ p \in Pid
        BY StaysThere, OffsetIs, Zenon
      <3>2. Printed("parent", p) \/ Open("parent", PidEntry(p))
        BY <1>1, <2>3, Zenon DEF ScanInv, Found
      <3> QED
        BY <1>4, <1>5, <1>9, <1>13, <1>16, <2>1, <3>1, <3>2, Zenon
    <2> QED
      BY <1>1, <2>2, <2>3, Zenon DEF Found, Offset, Fixed, PidEntry
  <1> QED
    BY <1>7, <1>17, <1>18, <1>19, <1>20, Zenon DEF ScanInv

-----------------------------------------------------------------------------
(* The invariant holds in every state of the two programs. *)
LEMMA ScanAlways == Spec => []ScanInv
  <1>1. ASSUME ScanInv, Next PROVE ScanInv'
    <2>1. ASSUME NEW i \in Scanner, Scan(i) PROVE ScanInv'
      BY <1>1, <2>1, FillKeeps, TakeKeeps, EndKeeps, LooksKeep, PrintKeeps, Zenon DEF Scan
    <2> QED
      BY <1>1, <2>1, MainKeeps, WorldKeeps, Zenon DEF Next, Main
  <1>2. ASSUME ScanInv, UNCHANGED vars PROVE ScanInv'
    <2>1. UNCHANGED <<program, alive, stayed, pos, pc, dirbuf, entry, errno, printed>>
      BY <1>2, Zenon DEF vars, world
    <2>2. Typed'
      BY <1>2, <2>1, Zenon DEF ScanInv, Typed
    <2>3. program = "p_id" =>
            pc["child"] = "none" /\ (pc["parent"] = "done" => pos = End /\ dirbuf["parent"] = {})
      BY <1>2, Zenon DEF ScanInv, Found
    <2> QED
      BY <1>2, <2>1, <2>2, <2>3, Quiet, Zenon DEF Looking
  <1> QED
    BY <1>1, <1>2, ScanInit, PTL DEF Spec

(* p_id_cmdn_si prints every process of the user that was there from the   *)
(* beginning of the scan to its end, whatever the others do meanwhile.     *)
THEOREM NobodyOverlooked == Spec => []NoneMissed
  <1>1. ScanInv => NoneMissed
    <2> SUFFICES ASSUME ScanInv, program = "p_id", pc["parent"] = "done", NEW p \in stayed \cap User
                 PROVE  Printed("parent", p)
      BY Zenon DEF NoneMissed, Printed
    <2>1. PidEntry(p) \in Entry
      BY StaysThere, OffsetIs, Zenon
    <2>2. pos = End /\ dirbuf["parent"] = {} /\ ~Looking("parent")
      BY Zenon DEF ScanInv, Found, Looking
    <2>3. Offset(PidEntry(p)) <= pos
      BY <2>1, <2>2, OffsetIs, PidAssumption DEF End
    <2> QED
      BY <2>2, <2>3, Zenon DEF ScanInv, Found, Open
  <1> QED
    BY <1>1, ScanAlways, PTL

(* Parent and child of pstree_implementation, which share one offset, and  *)
(* p_id_cmdn_si, print no process twice.                                   *)
THEOREM NobodyTwice == Spec => []PrintedOnce
  <1>1. ScanInv => PrintedOnce
    <2> SUFFICES ASSUME ScanInv PROVE PrintedOnce
      OBVIOUS
    <2> DEFINE c == printed["child"]  m == printed["parent"]  all == c \o m
    <2>1. c \in Seq(Pid) /\ m \in Seq(Pid)
      BY Zenon DEF ScanInv, Typed, Scanner
    <2>2. /\ \A j, k \in DOMAIN c : c[j] = c[k] /\ c[j] \in Other => j = k
          /\ \A j, k \in DOMAIN m : m[j] = m[k] /\ m[j] \in Other => j = k
      BY Zenon DEF ScanInv, PrintedApart, Scanner
    <2>3. \A j \in DOMAIN c, k \in DOMAIN m : c[j] = m[k] => c[j] \notin Other
      BY Zenon DEF ScanInv, PrintedApart, Printed
    <2> HIDE DEF c, m
    <2>4. ASSUME NEW j \in DOMAIN all
          PROVE  /\ all[j] \in Pid
                 /\ \/ j \in DOMAIN c /\ all[j] = c[j]
                    \/ j - Len(c) \in DOMAIN m /\ all[j] = m[j - Len(c)] /\ j \in Int
      BY <2>1
    <2>5. \A j \in DOMAIN all : all[j] \notin {Parent, Child} => all[j] \in Other
      BY <2>4, Zenon DEF Other
    <2>6. ASSUME NEW j \in DOMAIN all, NEW k \in DOMAIN all, all[j] = all[k], all[j] \in Other PROVE j = k
      <3>1. CASE j \in DOMAIN c /\ all[j] = c[j] /\ k \in DOMAIN c /\ all[k] = c[k]
        BY <2>2, <2>6, <3>1, Zenon
      <3>2. CASE /\ j - Len(c) \in DOMAIN m /\ all[j] = m[j - Len(c)] /\ j \in Int
                 /\ k - Len(c) \in DOMAIN m /\ all[k] = m[k - Len(c)] /\ k \in Int
        <4>1. j - Len(c) = k - Len(c)
          BY <2>2, <2>6, <3>2, Zenon
        <4>2. Len(c) \in Nat
          BY <2>1
        <4> QED
          BY <3>2, <4>1, <4>2
      <3> QED
        BY <2>3, <2>4, <2>6, <3>1, <3>2, Zenon
    <2> QED
      BY <2>5, <2>6, Zenon DEF PrintedOnce, c, m
  <1> QED
    BY <1>1, ScanAlways, PTL
=============================================================================
