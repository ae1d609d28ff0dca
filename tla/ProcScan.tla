------------------------------ MODULE ProcScan ------------------------------
(***************************************************************************)
(* Two programs that list /proc while processes come and go:               *)
(* p_id_cmdn_si prints the processes of a user, pstree_implementation, the *)
(* beginning of a pstree, prints all.  The second one forks after          *)
(* opendir(); parent and child then both run the loop, on one file offset. *)
(*                                                                         *)
(* The entries of /proc are, in this order, the names in Fixed and the     *)
(* processes by number.  "self" is the process that reads; "dir" is a      *)
(* directory without a file status, "file" is not a directory.  readdir()  *)
(* takes up to BufMax entries from the kernel at once and hands them out   *)
(* one by one.  A status file is one snapshot, made by the first fgets().  *)
(*                                                                         *)
(* Process numbers are not used again during a scan.  What is printed is   *)
(* the process; that p_id_cmdn_si keeps a pointer into its line buffer for *)
(* the name is left out.                                                   *)
(***************************************************************************)
EXTENDS Naturals, Sequences, FiniteSets

CONSTANTS
    MaxPid,      \* pid_max
    Pid,         \* process numbers
    Parent,      \* the number of the program
    Child,       \* the number its child gets
    User,        \* the processes that belong to the user of p_id_cmdn_si
    BufMax,      \* entries one getdents() returns
    Programs     \* which of the two programs are looked at

ASSUME PidAssumption == /\ MaxPid \in Nat /\ Pid \subseteq 1 .. MaxPid
                        /\ Parent \in Pid /\ Child \in Pid \ {Parent}
                        /\ User \subseteq Pid
ASSUME BufAssumption == BufMax \in Nat \ {0}
ASSUME ProgramAssumption == Programs \subseteq {"p_id", "pstree"}

Fixed == [dir |-> 1, file |-> 2, self |-> 3]
Scanner == {"parent", "child"}

VARIABLES
    program,   \* which program runs
    alive,     \* the processes there are
    used,      \* the processes there have been
    stayed,    \* those that were there when the scan began and have not left
    pos,       \* the offset of the directory: entries already handed out
    pc, dirbuf, entry, errno,   \* of each scanner
    printed    \* the processes each scanner has printed, in order

world == <<alive, used, stayed>>
vars == <<program, world, pos, pc, dirbuf, entry, errno, printed>>

-----------------------------------------------------------------------------
(* /proc. *)

NoEntry == [kind |-> "none", pid |-> 0]
PidEntry(p) == [kind |-> "pid", pid |-> p]

self(i) == IF i = "parent" THEN Parent ELSE Child
Process(i, e) == IF e.kind = "self" THEN self(i) ELSE e.pid

IsDir(e) == e.kind \in {"dir", "self"} \/ (e.kind = "pid" /\ e.pid \in alive)
HasStatus(e) == e.kind = "self" \/ (e.kind = "pid" /\ e.pid \in alive)
Exists(e) == e.kind # "pid" \/ e.pid \in alive

(* The offset of an entry, and the one behind the last. *)
Offset(e) == IF e.kind = "pid" THEN 3 + e.pid ELSE Fixed[e.kind]
End == 3 + MaxPid + 1

Entries == {[kind |-> k, pid |-> 0] : k \in DOMAIN Fixed} \cup {PidEntry(p) : p \in alive}
Remaining == {e \in Entries : Offset(e) > pos}

(* getdents(): the next entries, as many as the buffer takes or all there  *)
(* are, the last of them, and the offset behind it.                        *)
Taken(buf, last) ==
    /\ Cardinality(buf) <= BufMax /\ (Cardinality(buf) = BufMax \/ buf = Remaining)
    /\ \A e \in buf : Offset(e) <= Offset(last)
    /\ \A e \in Remaining \ buf : Offset(last) < Offset(e)
Behind(buf, last) == IF buf = Remaining THEN End ELSE Offset(last)

Start(p) ==
    /\ p \in Pid \ (used \cup {Parent, Child})
    /\ alive' = alive \cup {p} /\ used' = used \cup {p}
    /\ UNCHANGED <<program, stayed, pos, pc, dirbuf, entry, errno, printed>>

Exit(p) ==
    /\ p \in alive \ {Parent, Child}
    /\ alive' = alive \ {p} /\ stayed' = stayed \ {p}
    /\ UNCHANGED <<program, used, pos, pc, dirbuf, entry, errno, printed>>

-----------------------------------------------------------------------------
(* main(). *)

Goto(i, l) == pc' = [pc EXCEPT ![i] = l]
SetErrno(i, e) == errno' = [errno EXCEPT ![i] = e]

(* pstree_implementation: fork(); the parent waits for the child. *)
Fork ==
    /\ program = "pstree" /\ pc["parent"] = "start"
    /\ pc' = [pc EXCEPT !["parent"] = "wait", !["child"] = "readdir"]
    /\ alive' = alive \cup {Child} /\ used' = used \cup {Child}
    /\ errno' = [errno EXCEPT !["child"] = 0]
    /\ UNCHANGED <<program, stayed, pos, dirbuf, entry, printed>>

(* Mutant: the parent starts at the first entry again. *)
waitpidRewinds ==
    /\ pc["parent"] = "wait" /\ pc["child"] \in {"done", "failed"}
    /\ Goto("parent", "readdir")
    /\ alive' = alive \ {Child}
    /\ SetErrno("parent", 0) /\ pos' = 0
    /\ UNCHANGED <<program, used, stayed, dirbuf, entry, printed>>

waitpid ==
    /\ pc["parent"] = "wait" /\ pc["child"] \in {"done", "failed"}
    /\ Goto("parent", "readdir")
    /\ alive' = alive \ {Child}
    /\ SetErrno("parent", 0)
    /\ UNCHANGED <<program, used, stayed, pos, dirbuf, entry, printed>>

opendir ==
    /\ program = "p_id" /\ pc["parent"] = "start"
    /\ Goto("parent", "readdir")
    /\ UNCHANGED <<program, world, pos, dirbuf, entry, errno, printed>>

(* Mutant: errno is set to 0 once, before the loop. *)
errnoAtReaddirStale(i) == errno[i]

(* p_id_cmdn_si sets errno to 0 before every readdir(). *)
errnoAtReaddir(i) == IF program = "p_id" THEN 0 ELSE errno[i]

(* readdir() has to ask the kernel. *)
readdirFill(i) ==
    /\ pc[i] = "readdir" /\ dirbuf[i] = {}
    /\ \E buf \in SUBSET Remaining : \E last \in buf :
         Taken(buf, last) /\ dirbuf' = [dirbuf EXCEPT ![i] = buf] /\ pos' = Behind(buf, last)
    /\ UNCHANGED <<program, world, pc, entry, errno, printed>>

readdir(i) ==
    /\ pc[i] = "readdir"
    /\ \E e \in dirbuf[i] :
         /\ \A f \in dirbuf[i] : Offset(e) <= Offset(f)
         /\ entry' = [entry EXCEPT ![i] = e] /\ dirbuf' = [dirbuf EXCEPT ![i] = @ \ {e}]
    /\ Goto(i, IF program = "p_id" THEN "stat" ELSE "statdir")
    /\ SetErrno(i, errnoAtReaddir(i))
    /\ UNCHANGED <<program, world, pos, printed>>

(* The end of the directory, or what is taken for an error: errno tells.   *)
AtEnd(i) == pc[i] = "readdir" /\ dirbuf[i] = {} /\ Remaining = {}

readdirEnd(i) ==
    /\ AtEnd(i)
    /\ errnoAtReaddir(i) = 0
    /\ Goto(i, "done")
    /\ SetErrno(i, errnoAtReaddir(i))
    /\ pos' = End
    /\ UNCHANGED <<program, world, dirbuf, entry, printed>>

readdirError(i) ==
    /\ AtEnd(i)
    /\ errnoAtReaddir(i) # 0
    /\ Goto(i, "failed")
    /\ pos' = End
    /\ UNCHANGED <<program, world, dirbuf, entry, errno, printed>>

(* pstree_implementation looks at the directory first. *)
statDir(i) ==
    /\ pc[i] = "statdir" /\ Exists(entry[i])
    /\ Goto(i, IF IsDir(entry[i]) THEN "stat" ELSE "readdir")
    /\ UNCHANGED <<program, world, pos, dirbuf, entry, errno, printed>>

statDirFails(i) ==
    /\ pc[i] = "statdir" /\ ~Exists(entry[i])
    /\ Goto(i, "readdir") /\ SetErrno(i, 2)
    /\ UNCHANGED <<program, world, pos, dirbuf, entry, printed>>

stat(i) ==
    /\ pc[i] = "stat" /\ HasStatus(entry[i])
    /\ Goto(i, "fopen")
    /\ UNCHANGED <<program, world, pos, dirbuf, entry, errno, printed>>

(* Mutant: leaves the loop. *)
statFailsBreaks(i) ==
    /\ pc[i] = "stat" /\ ~HasStatus(entry[i])
    /\ Goto(i, "done") /\ SetErrno(i, 2)
    /\ UNCHANGED <<program, world, pos, dirbuf, entry, printed>>

statFails(i) ==
    /\ pc[i] = "stat" /\ ~HasStatus(entry[i])
    /\ Goto(i, "readdir") /\ SetErrno(i, 2)
    /\ UNCHANGED <<program, world, pos, dirbuf, entry, printed>>

-----------------------------------------------------------------------------
(* readfdata(). *)

fopen(i) ==
    /\ pc[i] = "fopen" /\ HasStatus(entry[i])
    /\ Goto(i, "fgets")
    /\ UNCHANGED <<program, world, pos, dirbuf, entry, errno, printed>>

fopenFails(i) ==
    /\ pc[i] = "fopen" /\ ~HasStatus(entry[i])
    /\ Goto(i, "readdir") /\ SetErrno(i, 2)
    /\ UNCHANGED <<program, world, pos, dirbuf, entry, printed>>

Wanted(p) == program = "pstree" \/ p \in User

(* The lines are read and printed; getInt() sets errno to 0. *)
readfdata(i) ==
    /\ pc[i] = "fgets" /\ HasStatus(entry[i])
    /\ Goto(i, "readdir") /\ SetErrno(i, 0)
    /\ printed' = IF Wanted(Process(i, entry[i]))
                  THEN [printed EXCEPT ![i] = Append(@, Process(i, entry[i]))] ELSE printed
    /\ UNCHANGED <<program, world, pos, dirbuf, entry>>

(* The process is gone: fgets() fails with ESRCH, which is not looked at.  *)
readfdataFails(i) ==
    /\ pc[i] = "fgets" /\ ~HasStatus(entry[i])
    /\ Goto(i, "readdir") /\ SetErrno(i, 3)
    /\ UNCHANGED <<program, world, pos, dirbuf, entry, printed>>

-----------------------------------------------------------------------------
Init ==
    /\ program \in Programs
    /\ \E S \in SUBSET (Pid \ {Parent, Child}) :
           alive = S \cup {Parent} /\ used = alive /\ stayed = alive
    /\ pos = 0
    /\ pc = [parent |-> "start", child |-> "none"]
    /\ dirbuf = [i \in Scanner |-> {}] /\ entry = [i \in Scanner |-> NoEntry]
    /\ errno = [i \in Scanner |-> 0] /\ printed = [i \in Scanner |-> <<>>]

Main == Fork \/ waitpid \/ opendir

Scan(i) ==
    \/ readdirFill(i) \/ readdir(i) \/ readdirEnd(i) \/ readdirError(i)
    \/ statDir(i) \/ statDirFails(i) \/ stat(i) \/ statFails(i)
    \/ fopen(i) \/ fopenFails(i) \/ readfdata(i) \/ readfdataFails(i)

Next ==
    \/ Main
    \/ \E i \in Scanner : Scan(i)
    \/ \E p \in Pid : Start(p) \/ Exit(p)

(* The scheduler runs every process. *)
Fairness == WF_vars(Main) /\ \A i \in Scanner : WF_vars(Scan(i))

Spec == Init /\ [][Next]_vars /\ Fairness

-----------------------------------------------------------------------------
(* Types; a scanner that looks at a file has an entry, and opens only what *)
(* has a status file.                                                      *)
TypeOK ==
    /\ program \in Programs
    /\ alive \subseteq used /\ used \subseteq Pid /\ stayed \subseteq alive
    /\ pos \in 0 .. End
    /\ \A i \in Scanner :
        /\ pc[i] \in {"none", "start", "wait", "readdir", "statdir", "stat", "fopen", "fgets",
                      "done", "failed"}
        /\ errno[i] \in {0, 2, 3}
        /\ Cardinality(dirbuf[i]) <= BufMax
        /\ \A k \in DOMAIN printed[i] : printed[i][k] \in Pid
        /\ pc[i] \in {"statdir", "stat", "fopen", "fgets"} => entry[i] # NoEntry
        /\ pc[i] \in {"fopen", "fgets"} => entry[i].kind \in {"pid", "self"}

(* When p_id_cmdn_si has finished, every process of the user that was      *)
(* there from beginning to end was printed, whatever the others did.       *)
NoneMissed ==
    program = "p_id" /\ pc["parent"] = "done"
        => \A p \in stayed \cap User : \E k \in DOMAIN printed["parent"] : printed["parent"][k] = p

(* No process is printed twice, neither by one scanner nor, as parent and  *)
(* child of pstree_implementation go through the directory on one offset,  *)
(* by both of them.  A scanner also finds itself as /proc/self.            *)
PrintedOnce ==
    LET all == printed["child"] \o printed["parent"]
    IN  \A j, k \in DOMAIN all : all[j] = all[k] /\ all[j] \notin {Parent, Child} => j = k

(* A process that is gone is only skipped ("handles the possibility that a *)
(* /proc/ PID directory disappears"): p_id_cmdn_si gets to the end of the  *)
(* directory and succeeds.  Both processes of pstree_implementation come   *)
(* to an end.                                                              *)
EndsWell ==
    /\ program = "p_id" ~> pc["parent"] = "done"
    /\ program = "pstree" ~> \A i \in Scanner : pc[i] \in {"done", "failed"}

(* pstree_implementation, too, takes the end of the directory for what it  *)
(* is: with readdir() in the condition of the loop, the errno that stat()  *)
(* leaves behind is said not to matter any more.                           *)
EndIsNoError == \A i \in Scanner : pc[i] # "failed"

=============================================================================
