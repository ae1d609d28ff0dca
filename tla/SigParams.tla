----------------------------- MODULE SigParams -----------------------------
(* The environment of the signal programs, and its bounds. *)
EXTENDS Naturals

CONSTANTS
    NumKids,      \* multi_SIGCHLD: argc - 1
    PipeCap,      \* self_pipe: bytes the pipe holds
    MaxSignals,   \* signals the environment sends (bound)
    MaxMsgs,      \* mq_notify: messages the writers send (bound)
    Sleep         \* daemon_SIGHUP: SLEEP_TIME

ASSUME SigAssumption ==
    /\ NumKids \in Nat \ {0} /\ PipeCap \in Nat \ {0} /\ Sleep \in Nat \ {0}
    /\ MaxSignals \in Nat /\ MaxMsgs \in Nat
=============================================================================
