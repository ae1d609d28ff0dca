------------------------------ MODULE PidFile ------------------------------
(***************************************************************************)
(* createPidFile(): a program that must run only once at a time locks a    *)
(* file and writes its process number into it.  The kernel gives the lock  *)
(* back when the process ends, however it ends; the number stays.          *)
(***************************************************************************)
EXTENDS ToolParams

VARIABLES
    dpc,          \* where each process is in createPidFile()
    lock,         \* who holds the lock
    content       \* the number in the file
pidVars == <<dpc, lock, content>>

At(p, from, to) == dpc[p] = from /\ dpc' = [dpc EXCEPT ![p] = to]

(* Mutant: truncates before it has the lock. *)
OpenTruncates(p) ==
    /\ At(p, "start", "lock")
    /\ content' = Nobody
    /\ UNCHANGED lock

(* open(), which creates the file and does not truncate it, and the        *)
(* close-on-exec flag                                                      *)
Open(p) ==
    /\ At(p, "start", "lock")
    /\ UNCHANGED <<lock, content>>

(* Mutant: locks only a file that has a number in it. *)
lockRegionIfNumber(p) ==
    /\ dpc[p] = "lock"
    /\ IF lock = Nobody \/ content = Nobody
       THEN dpc' = [dpc EXCEPT ![p] = "truncate"] /\ lock' = p
       ELSE dpc' = [dpc EXCEPT ![p] = "ended"] /\ UNCHANGED lock
    /\ UNCHANGED content

(* lockRegion(F_SETLK); if another holds the lock, it "is already running" *)
lockRegion(p) ==
    /\ dpc[p] = "lock"
    /\ IF lock = Nobody
       THEN dpc' = [dpc EXCEPT ![p] = "truncate"] /\ lock' = p
       ELSE dpc' = [dpc EXCEPT ![p] = "ended"] /\ UNCHANGED lock
    /\ UNCHANGED content

Truncate(p) ==
    /\ At(p, "truncate", "write")
    /\ content' = Nobody
    /\ UNCHANGED lock

Write(p) ==
    /\ At(p, "write", "running")
    /\ content' = p
    /\ UNCHANGED lock

(* The process ends, or is killed, at any point. *)
End(p) ==
    /\ dpc[p] # "ended"
    /\ dpc' = [dpc EXCEPT ![p] = "ended"]
    /\ lock' = IF lock = p THEN Nobody ELSE lock
    /\ UNCHANGED content

(* The program is started, by a process that may get an old number. *)
Start(p) ==
    /\ At(p, "ended", "start")
    /\ UNCHANGED <<lock, content>>

Init == dpc = [p \in Instance |-> "ended"] /\ lock = Nobody /\ content = Nobody
Next == \E p \in Instance : \/ Start(p) \/ Open(p) \/ lockRegion(p) \/ Truncate(p)
                            \/ Write(p) \/ End(p)
Spec == Init /\ [][Next]_pidVars

-----------------------------------------------------------------------------
PidPC == {"start", "lock", "truncate", "write", "running", "ended"}
Holding == {"truncate", "write", "running"}

TypeOK ==
    /\ dpc \in [Instance -> PidPC]
    /\ lock \in Instance \cup {Nobody} /\ content \in Instance \cup {Nobody}

(* The program runs at most once at a time, whatever processes start it    *)
(* and end at whatever point; and while it runs the file has its number.   *)
RunsOnce ==
    /\ \A p, d \in Instance : dpc[p] \in Holding /\ dpc[d] \in Holding => p = d
    /\ \A p \in Instance : dpc[p] = "running" => content = p
=============================================================================
