---------------------------- MODULE DaemonSighup ----------------------------
(***************************************************************************)
(* daemon_SIGHUP: the daemon sleeps in intervals; SIGHUP, whose handler    *)
(* sets a flag, cuts a sleep short and makes it reopen its log and read    *)
(* its configuration again.  Whoever changes the configuration sends the   *)
(* signal after that.                                                      *)
(***************************************************************************)
EXTENDS SigParams

VARIABLES
    pc,
    pend,          \* SIGHUP is pending
    hupReceived,
    unslept,
    config,        \* the version of the configuration file
    told,          \* the version of which SIGHUP has told
    loaded         \* the version the daemon has read last
vars == <<pc, pend, hupReceived, unslept, config, told, loaded>>

Change ==
    /\ config < MaxSignals /\ pc # "exit"
    /\ config' = config + 1
    /\ UNCHANGED <<pc, pend, hupReceived, unslept, told, loaded>>

Kill ==
    /\ told < config /\ pc # "exit"
    /\ told' = config /\ pend' = TRUE
    /\ UNCHANGED <<pc, hupReceived, unslept, config, loaded>>

(* sighupHandler(); it ends a sleep() in progress, which returns what is   *)
(* left of it, rounded.                                                    *)
Handler ==
    /\ pend /\ pc # "exit" /\ pend' = FALSE
    /\ hupReceived' = TRUE
    /\ IF pc = "sleeping" THEN pc' = "test" /\ unslept' \in 0 .. unslept
                          ELSE UNCHANGED <<pc, unslept>>
    /\ UNCHANGED <<config, told, loaded>>

(* logOpen() and readConfigFile() at the start; exit if the log cannot be  *)
(* opened.                                                                 *)
Start ==
    /\ pc = "start"
    /\ \/ pc' = "sleep" /\ loaded' = config
       \/ pc' = "exit" /\ UNCHANGED loaded
    /\ UNCHANGED <<pend, hupReceived, unslept, config, told>>

SleepStart ==
    /\ pc = "sleep" /\ pc' = "sleeping"
    /\ UNCHANGED <<pend, hupReceived, unslept, config, told, loaded>>

SleepEnd ==
    /\ pc = "sleeping" /\ pc' = "test" /\ unslept' = 0
    /\ UNCHANGED <<pend, hupReceived, config, told, loaded>>

TestHup ==
    /\ pc = "test"
    /\ pc' = IF hupReceived THEN "close" ELSE "count"
    /\ hupReceived' = FALSE
    /\ UNCHANGED <<pend, unslept, config, told, loaded>>

(* logClose(), and logOpen(), which may fail *)
Reopen ==
    /\ pc = "close" /\ pc' \in {"read", "exit"}
    /\ UNCHANGED <<pend, hupReceived, unslept, config, told, loaded>>

(* Mutant: the flag is reset after the file was read. *)
readConfigFileReset ==
    /\ pc \in {"read", "reset"}
    /\ pc' = IF pc = "read" THEN "reset" ELSE "count"
    /\ loaded' = IF pc = "read" THEN config ELSE loaded
    /\ hupReceived' = IF pc = "reset" THEN FALSE ELSE hupReceived
    /\ UNCHANGED <<pend, unslept, config, told>>

readConfigFile ==
    /\ pc = "read" /\ pc' = "count"
    /\ loaded' = config
    /\ UNCHANGED <<pend, hupReceived, unslept, config, told>>

(* On a completed interval, log it and begin the next. *)
Count ==
    /\ pc = "count" /\ pc' = "sleep"
    /\ unslept' = IF unslept = 0 THEN Sleep ELSE unslept
    /\ UNCHANGED <<pend, hupReceived, config, told, loaded>>

Init ==
    /\ pc = "start" /\ pend = FALSE /\ hupReceived = FALSE /\ unslept = Sleep
    /\ config = 0 /\ told = 0 /\ loaded = 0

Own == Start \/ SleepStart \/ SleepEnd \/ TestHup \/ Reopen \/ readConfigFile \/ Count
Next == Own \/ Handler \/ Change \/ Kill
Spec == Init /\ [][Next]_vars /\ WF_vars(Own) /\ WF_vars(Handler)

(* The configuration a SIGHUP tells of has been read, or the signal or the *)
(* flag still says so: none is swallowed by one that came just before.     *)
ToldIsKept == (loaded < told /\ pc # "exit") => pend \/ hupReceived \/ pc \in {"close", "read"}

(* It is read in the end, unless the log could not be opened. *)
Reloads == \A v \in 1 .. MaxSignals : told >= v ~> (loaded >= v \/ pc = "exit")
=============================================================================
