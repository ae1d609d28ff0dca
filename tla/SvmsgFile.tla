----------------------------- MODULE SvmsgFile -----------------------------
(***************************************************************************)
(* svmsg_file_server and svmsg_file_client: a concurrent server that sends *)
(* files over System V message queues.  Each request is served by a child; *)
(* terminated children are reaped by a SIGCHLD handler.                    *)
(*                                                                         *)
(* A file is a number of blocks of RESP_MSG_SIZE, or Unreadable; a data    *)
(* message carries the number of its block.  A queue holds at most QCap    *)
(* messages (msg_qbytes).  Each client runs once, so that a child is named *)
(* by its client.  SIGCHLD is not queued: sigchld is just pending or not.  *)
(***************************************************************************)
EXTENDS Naturals, Sequences, FiniteSets

CONSTANTS
    Client,  \* the clients
    MaxBlocks,   \* the length of the largest file
    Unreadable,  \* a file that open() refuses
    QCap,        \* capacity of a message queue
    Mortal,  \* clients that may be killed or stopped
    Faults       \* which calls of the server may fail: "fork", "read"

ASSUME FileAssumption == MaxBlocks \in Nat /\ Unreadable \notin Nat
ASSUME CapAssumption == QCap \in Nat \ {0}
ASSUME FaultAssumption == Mortal \subseteq Client /\ Faults \subseteq {"fork", "read"}

RESP_MT_FAILURE == 1
RESP_MT_DATA == 2
RESP_MT_END == 3

VARIABLES
    srvQ,      \* the server's queue exists
    reqs,      \* the requests in it
    spc,       \* where the server's main loop is
    sreq,      \* its req
    inHandler, \* grimReaper() is running
    sigchld,   \* SIGCHLD is pending
    child,     \* where the child serving each client is
    sent,      \* blocks a child has read from its file
    file,      \* the file each client asks for
    clQ,       \* the client queues that exist
    msgs,      \* the messages in each
    cpc,       \* where each client is
    got,       \* history: the blocks a client has received
    cut        \* history: the clients whose file could not be read to the end

server == <<srvQ, reqs, spc, sreq, inHandler>>
vars == <<srvQ, reqs, spc, sreq, inHandler, sigchld, child, sent, file, clQ, msgs, cpc, got, cut>>

ChildPC == {"none", "open", "read", "send", "sendEnd", "sendFailure", "zombie", "reaped"}
ClientPC == {"msggetServer", "msggetOwn", "msgsnd", "first", "loop", "ok", "refused", "failed", "killed"}

Ended == {"ok", "refused", "failed", "killed"}

-----------------------------------------------------------------------------
(* The server's main loop.  It stands still while the handler runs. *)

(* msgget(IPC_EXCL); the handler is installed before the first request. *)
SCreate ==
    /\ spc = "create" /\ spc' = "msgrcv"
    /\ srvQ' = TRUE
    /\ UNCHANGED <<reqs, sreq, inHandler, sigchld, child, sent, file, clQ, msgs, cpc, got, cut>>

(* msgrcv(); interrupted by the handler it returns EINTR and is called     *)
(* again, which changes nothing.                                           *)
SReceive ==
    /\ spc = "msgrcv" /\ ~inHandler /\ reqs # <<>>
    /\ spc' = "fork" /\ sreq' = {Head(reqs)} /\ reqs' = Tail(reqs)
    /\ UNCHANGED <<srvQ, inHandler, sigchld, child, sent, file, clQ, msgs, cpc, got, cut>>

SFork ==
    /\ spc = "fork" /\ ~inHandler
    /\ spc' = "msgrcv"
    /\ child' = [c \in Client |-> IF c \in sreq THEN "open" ELSE child[c]]
    /\ UNCHANGED <<srvQ, reqs, sreq, inHandler, sigchld, sent, file, clQ, msgs, cpc, got, cut>>

(* fork() fails: leave the loop. *)
SForkFails ==
    /\ "fork" \in Faults
    /\ spc = "fork" /\ ~inHandler /\ spc' = "rmid"
    /\ UNCHANGED <<srvQ, reqs, sreq, inHandler, sigchld, child, sent, file, clQ, msgs, cpc, got, cut>>

(* IPC_RMID: requests still in the queue are lost with it. *)
SRemove ==
    /\ spc = "rmid" /\ ~inHandler /\ spc' = "exit"
    /\ srvQ' = FALSE /\ reqs' = <<>>
    /\ UNCHANGED <<sreq, inHandler, sigchld, child, sent, file, clQ, msgs, cpc, got, cut>>

(* SIGCHLD is delivered; it is blocked until the handler returns. *)
Deliver ==
    /\ sigchld /\ ~inHandler /\ spc # "exit"
    /\ inHandler' = TRUE /\ sigchld' = FALSE
    /\ UNCHANGED <<srvQ, reqs, spc, sreq, child, sent, file, clQ, msgs, cpc, got, cut>>

(* waitpid(-1, WNOHANG) reaps one child, ... *)
grimReaper(c) ==
    /\ inHandler /\ child[c] = "zombie"
    /\ child' = [child EXCEPT ![c] = "reaped"]
    /\ UNCHANGED <<server, sigchld, sent, file, clQ, msgs, cpc, got, cut>>

(* Mutant: waitpid() is called once for a signal. *)
grimReaperOnce ==
    /\ inHandler
    /\ inHandler' = FALSE
    /\ UNCHANGED <<srvQ, reqs, spc, sreq, sigchld, child, sent, file, clQ, msgs, cpc, got, cut>>

(* ... and the handler returns when there is none. *)
grimReaperReturns ==
    /\ inHandler /\ \A c \in Client : child[c] # "zombie"
    /\ inHandler' = FALSE
    /\ UNCHANGED <<srvQ, reqs, spc, sreq, sigchld, child, sent, file, clQ, msgs, cpc, got, cut>>

-----------------------------------------------------------------------------
(* serveRequest(), executed by the child of client c. *)

ChildGoto(c, from, to) == child[c] = from /\ child' = [child EXCEPT ![c] = to]

(* msgsnd() waits for room; it fails when the client's queue is gone. *)
CanSend(c) == c \notin clQ \/ Len(msgs[c]) < QCap
msgsnd(c, type, block) ==
    msgs' = IF c \in clQ THEN [msgs EXCEPT ![c] = Append(@, <<type, block>>)] ELSE msgs

KOpen(c) ==
    /\ ChildGoto(c, "open", IF file[c] = Unreadable THEN "sendFailure" ELSE "read")
    /\ UNCHANGED <<server, sigchld, sent, file, clQ, msgs, cpc, got, cut>>

(* A terminated child becomes a zombie and SIGCHLD is sent. *)
Exits(c, from) == ChildGoto(c, from, "zombie") /\ sigchld' = TRUE

KSendFailure(c) ==
    /\ Exits(c, "sendFailure")
    /\ CanSend(c) /\ msgsnd(c, RESP_MT_FAILURE, 0)
    /\ UNCHANGED <<server, sent, file, clQ, cpc, got, cut>>

(* Mutant: the child stops one block before the end. *)
KReadShort(c) ==
    /\ ChildGoto(c, "read", IF sent[c] + 1 < file[c] THEN "send" ELSE "sendEnd")
    /\ sent' = IF sent[c] + 1 < file[c] THEN [sent EXCEPT ![c] = @ + 1] ELSE sent
    /\ UNCHANGED <<server, sigchld, file, clQ, msgs, cpc, got, cut>>

KRead(c) ==
    /\ ChildGoto(c, "read", IF sent[c] < file[c] THEN "send" ELSE "sendEnd")
    /\ sent' = IF sent[c] < file[c] THEN [sent EXCEPT ![c] = @ + 1] ELSE sent
    /\ UNCHANGED <<server, sigchld, file, clQ, msgs, cpc, got, cut>>

(* read() fails: the loop ends as at end of file. *)
KReadFails(c) ==
    /\ "read" \in Faults
    /\ ChildGoto(c, "read", "sendEnd")
    /\ cut' = cut \cup {c}
    /\ UNCHANGED <<server, sigchld, sent, file, clQ, msgs, cpc, got>>

(* Mutant: a failed msgsnd() is tried again. *)
KSendRetries(c) ==
    /\ ChildGoto(c, "send", IF c \in clQ THEN "read" ELSE "send")
    /\ CanSend(c) /\ msgsnd(c, RESP_MT_DATA, sent[c])
    /\ UNCHANGED <<server, sigchld, sent, file, clQ, cpc, got, cut>>

KSend(c) ==
    /\ ChildGoto(c, "send", IF c \in clQ THEN "read" ELSE "sendEnd")
    /\ CanSend(c) /\ msgsnd(c, RESP_MT_DATA, sent[c])
    /\ UNCHANGED <<server, sigchld, sent, file, clQ, cpc, got, cut>>

(* Mutant: no end message is sent. *)
KSendEndSkipped(c) ==
    /\ Exits(c, "sendEnd")
    /\ UNCHANGED <<server, sent, file, clQ, msgs, cpc, got, cut>>

KSendEnd(c) ==
    /\ Exits(c, "sendEnd")
    /\ CanSend(c) /\ msgsnd(c, RESP_MT_END, 0)
    /\ UNCHANGED <<server, sent, file, clQ, cpc, got, cut>>

-----------------------------------------------------------------------------
(* A client.  exit() runs removeQueue(); a killed client's queue stays. *)

CGoto(c, from, to) == cpc[c] = from /\ cpc' = [cpc EXCEPT ![c] = to]

removeQueue(c) == clQ' = clQ \ {c} /\ msgs' = [msgs EXCEPT ![c] = <<>>]

CGetServer(c) ==
    /\ CGoto(c, "msggetServer", IF srvQ THEN "msggetOwn" ELSE "failed")
    /\ UNCHANGED <<server, sigchld, child, sent, file, clQ, msgs, got, cut>>

CGetOwn(c) ==
    /\ CGoto(c, "msggetOwn", "msgsnd")
    /\ clQ' = clQ \cup {c}
    /\ UNCHANGED <<server, sigchld, child, sent, file, msgs, got, cut>>

CSend(c) ==
    /\ srvQ /\ Len(reqs) < QCap
    /\ CGoto(c, "msgsnd", "first")
    /\ reqs' = Append(reqs, c)
    /\ UNCHANGED <<srvQ, spc, sreq, inHandler, sigchld, child, sent, file, clQ, msgs, got, cut>>

CSendFails(c) ==
    /\ ~srvQ
    /\ CGoto(c, "msgsnd", "failed")
    /\ removeQueue(c)
    /\ UNCHANGED <<server, sigchld, child, sent, file, got, cut>>

(* The first response may be a failure notification. *)
CRefused(c) ==
    /\ msgs[c] # <<>> /\ Head(msgs[c])[1] = RESP_MT_FAILURE
    /\ CGoto(c, "first", "refused")
    /\ removeQueue(c)
    /\ UNCHANGED <<server, sigchld, child, sent, file, got, cut>>

(* A data message, the first one included; the loop goes on. *)
CData(c) ==
    /\ cpc[c] \in {"first", "loop"} /\ msgs[c] # <<>> /\ Head(msgs[c])[1] = RESP_MT_DATA
    /\ cpc' = [cpc EXCEPT ![c] = "loop"]
    /\ got' = [got EXCEPT ![c] = Append(@, Head(msgs[c])[2])]
    /\ msgs' = [msgs EXCEPT ![c] = Tail(@)]
    /\ UNCHANGED <<server, sigchld, child, sent, file, clQ, cut>>

(* Any other message ends the loop, and the client reports success. *)
CEnd(c) ==
    /\ msgs[c] # <<>>
    /\ \/ cpc[c] = "first" /\ Head(msgs[c])[1] = RESP_MT_END
       \/ cpc[c] = "loop" /\ Head(msgs[c])[1] # RESP_MT_DATA
    /\ cpc' = [cpc EXCEPT ![c] = "ok"]
    /\ removeQueue(c)
    /\ UNCHANGED <<server, sigchld, child, sent, file, got, cut>>

(* msgrcv() fails (EINTR after the client was stopped and continued). *)
CReceiveFails(c) ==
    /\ c \in Mortal /\ cpc[c] \in {"first", "loop"}
    /\ cpc' = [cpc EXCEPT ![c] = "failed"]
    /\ removeQueue(c)
    /\ UNCHANGED <<server, sigchld, child, sent, file, got, cut>>

CKill(c) ==
    /\ c \in Mortal /\ cpc[c] \notin Ended
    /\ cpc' = [cpc EXCEPT ![c] = "killed"]
    /\ UNCHANGED <<server, sigchld, child, sent, file, clQ, msgs, got, cut>>

-----------------------------------------------------------------------------
Init ==
    /\ srvQ = FALSE /\ reqs = <<>> /\ spc = "create" /\ sreq = {}
    /\ inHandler = FALSE /\ sigchld = FALSE
    /\ child = [c \in Client |-> "none"] /\ sent = [c \in Client |-> 0]
    /\ file \in [Client -> 0 .. MaxBlocks \cup {Unreadable}]
    /\ clQ = {} /\ msgs = [c \in Client |-> <<>>]
    /\ cpc = [c \in Client |-> "msggetServer"] /\ got = [c \in Client |-> <<>>]
    /\ cut = {}

MainStep == SCreate \/ SReceive \/ SFork \/ SRemove
HandlerStep == Deliver \/ grimReaperReturns \/ \E c \in Client : grimReaper(c)
ChildStep(c) == KOpen(c) \/ KSendFailure(c) \/ KRead(c) \/ KSend(c) \/ KSendEnd(c)
ClientStep(c) == \/ CGetServer(c) \/ CGetOwn(c) \/ CSend(c) \/ CSendFails(c)
                 \/ CRefused(c) \/ CData(c) \/ CEnd(c)

Next == \/ MainStep \/ SForkFails \/ HandlerStep
        \/ \E c \in Client : ChildStep(c) \/ KReadFails(c) \/ ClientStep(c) \/ CReceiveFails(c) \/ CKill(c)

(* Processes go on when their calls can return; pending signals are        *)
(* delivered.  A client gets SF: the room in the server's queue that its   *)
(* msgsnd() waits for comes and goes, and waiting senders take turns.      *)
Fairness == /\ WF_vars(MainStep) /\ WF_vars(HandlerStep)
            /\ \A c \in Client : WF_vars(ChildStep(c)) /\ SF_vars(ClientStep(c))

Spec == Init /\ [][Next]_vars /\ Fairness

-----------------------------------------------------------------------------
TypeOK ==
    /\ srvQ \in BOOLEAN /\ inHandler \in BOOLEAN /\ sigchld \in BOOLEAN
    /\ reqs \in Seq(Client) /\ Len(reqs) <= QCap /\ sreq \subseteq Client
    /\ spc \in {"create", "msgrcv", "fork", "rmid", "exit"}
    /\ child \in [Client -> ChildPC] /\ sent \in [Client -> 0 .. MaxBlocks]
    /\ clQ \subseteq Client /\ cut \subseteq Client
    /\ \A c \in Client : Len(msgs[c]) <= QCap
    /\ cpc \in [Client -> ClientPC]

(* A client that reports success has received every block of its file, in  *)
(* order, unless the child failed to read it; a short file is never taken  *)
(* for a whole one because of another client, child or signal.             *)
SuccessIsWholeFile ==
    \A c \in Client : cpc[c] = "ok" =>
        /\ file[c] # Unreadable
        /\ \A i \in 1 .. Len(got[c]) : got[c][i] = i
        /\ c \notin cut => Len(got[c]) = file[c]

(* SIGCHLD is lost while it is already pending, yet no zombie stays: each  *)
(* terminated child is reaped as long as the server runs.                  *)
NoZombieStays == \A c \in Client : (child[c] = "zombie") ~> (child[c] = "reaped" \/ spc = "exit")

(* A client that has sent its request gets an answer, unless the server    *)
(* leaves its loop, which drops the requests it has not served.            *)
Answered == \A c \in Client : (cpc[c] = "first") ~> (cpc[c] \in Ended \/ spc = "exit")

(* A child ends, unless its client was killed and left a full queue.       *)
ChildEnds == \A c \in Client :
    (child[c] = "open") ~> (child[c] \in {"zombie", "reaped"} \/ cpc[c] = "killed")

=============================================================================
