------------------------------ MODULE MqNotify ------------------------------
(***************************************************************************)
(* Readers of a POSIX message queue that are told of messages by a signal  *)
(* (mq_notify_sig waits with sigsuspend(), mq_notify_sigwaitinfo accepts   *)
(* it) or by a new thread (mq_notify_thread).                              *)
(*                                                                         *)
(* The kernel notifies when a message comes to an EMPTY queue, once: the   *)
(* registration is gone then.  So the readers register again first and     *)
(* drain the queue after that.                                             *)
(***************************************************************************)
EXTENDS SigParams

VARIABLES
    program,       \* "sig", "sigwaitinfo" or "thread"
    rpc,           \* where each reader is: the program, or threads of it
    q,             \* messages in the queue
    msgs,          \* messages sent so far
    registered,
    pend,          \* notifications on their way
    early          \* history: the queue was not empty when it registered first
vars == <<program, rpc, q, msgs, registered, pend, early>>

Reader == 1 .. MaxMsgs + 1      \* threads that can be there at a time

(* A writer; mq_send() *)
Send ==
    /\ msgs < MaxMsgs
    /\ msgs' = msgs + 1 /\ q' = q + 1
    /\ IF q = 0 /\ registered THEN registered' = FALSE /\ pend' = pend + 1
                              ELSE UNCHANGED <<registered, pend>>
    /\ UNCHANGED <<program, rpc, early>>

(* main(): registers, whatever the queue holds *)
Start ==
    /\ rpc[1] = "start" /\ rpc' = [rpc EXCEPT ![1] = "wait"]
    /\ registered' = TRUE /\ early' = (q > 0)
    /\ UNCHANGED <<program, q, msgs, pend>>

(* sigsuspend() or sigwaitinfo() returns; or a thread is started. *)
Notified ==
    /\ pend > 0 /\ pend' = pend - 1
    /\ \E t \in Reader :
         /\ IF program = "thread" THEN rpc[t] = "idle" /\ \A u \in 1 .. t - 1 : rpc[u] # "idle"
                                  ELSE rpc[t] = "wait"
         /\ rpc' = [rpc EXCEPT ![t] = "register"]
    /\ UNCHANGED <<program, q, msgs, registered, early>>

(* Mutant: drains before it registers again. *)
RegisterAfter(t) ==
    /\ rpc[t] \in {"register", "registered"}
    /\ IF rpc[t] = "register" /\ q > 0 THEN q' = q - 1 /\ UNCHANGED <<rpc, registered>>
       ELSE /\ rpc' = [rpc EXCEPT ![t] = IF @ = "register" THEN "registered"
                                         ELSE IF program = "thread" THEN "idle" ELSE "wait"]
            /\ registered' = (registered \/ rpc[t] = "registered")
            /\ UNCHANGED q
    /\ UNCHANGED <<program, msgs, pend, early>>

Register(t) ==
    /\ rpc[t] = "register" /\ rpc' = [rpc EXCEPT ![t] = "drain"]
    /\ registered' = TRUE
    /\ UNCHANGED <<program, q, msgs, pend, early>>

(* mq_receive(), or EAGAIN *)
Receive(t) ==
    /\ rpc[t] = "drain"
    /\ IF q > 0 THEN q' = q - 1 /\ UNCHANGED rpc
       ELSE /\ rpc' = [rpc EXCEPT ![t] = IF program = "thread" THEN "idle" ELSE "wait"]
            /\ UNCHANGED q
    /\ UNCHANGED <<program, msgs, registered, pend, early>>

Init ==
    /\ program \in {"sig", "sigwaitinfo", "thread"}
    /\ rpc = [t \in Reader |-> IF t = 1 THEN "start" ELSE "idle"]
    /\ q = 0 /\ msgs = 0 /\ registered = FALSE /\ pend = 0 /\ early = FALSE

Own == Start \/ Notified \/ \E t \in Reader : Register(t) \/ Receive(t)
Next == Own \/ Send
Spec == Init /\ [][Next]_vars /\ WF_vars(Own)

(* mq_notify() would fail with EBUSY. *)
RegisteredOnce == \A t \in Reader : rpc[t] = "register" => ~registered

(* A message is not left in the queue with nobody to read it: unless the   *)
(* queue had messages before the program first registered, somebody drains *)
(* it or is told to.                                                       *)
NotifiedOrEmpty ==
    (q > 0 /\ rpc[1] # "start" /\ ~early) =>
        pend > 0 \/ \E t \in Reader : rpc[t] \in {"register", "drain"}

(* All messages are read in the end. *)
Drained == <>[](q = 0 \/ early)
=============================================================================
