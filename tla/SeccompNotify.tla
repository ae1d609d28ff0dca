---------------------------- MODULE SeccompNotify ---------------------------
(***************************************************************************)
(* seccomp_unotify_mkdir: every mkdir() of the target process blocks until *)
(* a supervisor, its parent, has decided on it.  The target gives the      *)
(* supervisor the notification descriptor over a socket.  Directories are  *)
(* of the kinds the supervisor tells apart: below /tmp, which it makes     *)
(* itself, below ., which the target makes, "/bye", and others.  "bad" is  *)
(* a pathname without an end.                                              *)
(***************************************************************************)
EXTENDS ToolParams

Dir == 1 .. NumDirs
Kind == {"tmp", "dot", "bye", "other", "bad"}

VARIABLES
    argv, secondFilter, delay,   \* the arguments
    tpc, ap,     \* the target: where it is, and its directory
    spc,         \* the supervisor
    id,          \* the notification it has received
    resp,        \* its answer
    notif,       \* the kernel: "none", "sent" or "received", for ap
    socket,      \* the descriptor is in the socket
    handler,     \* the supervisor has installed sigchldHandler
    pending,     \* it has a SIGCHLD
    ints,        \* SIGINTs sent
    made,        \* the directories there are
    result       \* what mkdir() returned
snVars == <<argv, secondFilter, delay, tpc, ap, spc, id, resp, notif, socket, handler, pending,
            ints, made, result>>
args == <<argv, secondFilter, delay>>
sup == <<spc, id, resp, handler>>

(* Mutant: the target keeps its copy of the descriptor. *)
ListenerKept == tpc \notin {"install", "exited"} \/ (socket /\ spc # "exited")
                \/ spc \notin {"sigaction", "recvfd", "exited"}

(* Somebody has the notification descriptor. *)
Listener == tpc \in {"send", "closefd"} \/ (socket /\ spc # "exited")
            \/ spc \notin {"sigaction", "recvfd", "exited"}

Valid(n) == notif = "received" /\ tpc = "blocked" /\ ap = n

-----------------------------------------------------------------------------
(* The target *)

TargetExits == tpc' = "exited" /\ pending' = handler /\ notif' = "none"

(* The filters are installed: installNotifyFilter(), installFilter2() *)
Install ==
    /\ tpc = "install" /\ tpc' = "send"
    /\ UNCHANGED <<args, ap, sup, notif, socket, pending, ints, made, result>>

SendFd ==
    /\ tpc = "send" /\ tpc' = "closefd" /\ socket' = TRUE
    /\ UNCHANGED <<args, ap, sup, notif, pending, ints, made, result>>

CloseFd ==
    /\ tpc = "closefd" /\ tpc' = "mkdir"
    /\ UNCHANGED <<args, ap, sup, notif, socket, pending, ints, made, result>>

Return(r) ==
    /\ result' = [result EXCEPT ![ap] = r] /\ ap' = ap + 1
    /\ tpc' = "mkdir" /\ notif' = "none"

(* mkdir() of the next directory: SECCOMP_RET_ERRNO has precedence over    *)
(* the notification, SECCOMP_RET_TRACE has not.                            *)
Mkdir ==
    /\ tpc = "mkdir" /\ ap <= NumDirs
    /\ \/ secondFilter = "errno" /\ Return("error")
       \/ secondFilter # "errno" /\ ~Listener /\ Return("ENOSYS")
       \/ /\ secondFilter # "errno" /\ Listener
          /\ tpc' = "blocked" /\ notif' = "sent" /\ UNCHANGED <<ap, result>>
    /\ UNCHANGED <<args, sup, socket, pending, ints, made>>

(* The last descriptor is closed while mkdir() waits. *)
Abandoned ==
    /\ tpc = "blocked" /\ ~Listener /\ Return("ENOSYS")
    /\ UNCHANGED <<args, sup, socket, pending, ints, made>>

(* sigintHandler(), installed without SA_RESTART *)
Interrupt ==
    /\ tpc = "blocked" /\ ints < MaxInts /\ ints' = ints + 1 /\ Return("EINTR")
    /\ UNCHANGED <<args, sup, socket, pending, made>>

Terminate ==
    /\ tpc = "mkdir" /\ ap > NumDirs /\ TargetExits
    /\ UNCHANGED <<args, ap, sup, socket, ints, made, result>>

(* errExit(), or the target is killed *)
TargetDies ==
    /\ tpc # "exited" /\ TargetExits
    /\ UNCHANGED <<args, ap, sup, socket, ints, made, result>>

-----------------------------------------------------------------------------
(* The supervisor *)

target == <<args, tpc, ap, ints, result>>
Exits == spc' = "exited" /\ UNCHANGED <<id, resp>>

(* sigchldHandler() *)
sigchldHandler ==
    /\ pending /\ spc # "exited" /\ Exits /\ pending' = FALSE
    /\ UNCHANGED <<target, notif, socket, handler, made>>

sigaction ==
    /\ spc = "sigaction" /\ spc' = "recvfd" /\ handler' = TRUE
    /\ UNCHANGED <<target, id, resp, notif, socket, pending, made>>

(* It has both ends of the socket open: there is no end of file. *)
recvfd ==
    /\ spc = "recvfd" /\ socket /\ spc' = "recv" /\ socket' = FALSE
    /\ UNCHANGED <<target, id, resp, notif, handler, pending, made>>

(* SECCOMP_IOCTL_NOTIF_RECV *)
Receive ==
    /\ spc = "recv" /\ notif = "sent"
    /\ notif' = "received" /\ id' = ap /\ spc' = IF delay THEN "predelay" ELSE "open"
    /\ UNCHANGED <<target, resp, socket, handler, pending, made>>

(* checkNotificationIdIsValid(), before and after the delay and after the  *)
(* open() of /proc/PID/mem                                                 *)
Check(from, to) ==
    /\ spc = from
    /\ IF Valid(id) THEN spc' = to /\ UNCHANGED <<id, resp>> ELSE Exits
    /\ UNCHANGED <<target, notif, socket, handler, pending, made>>

CheckId == Check("predelay", "postdelay") \/ Check("postdelay", "open") \/ Check("open", "pread")

(* The pathname is read; a target that has ended gives the end of file. *)
getTargetPathname ==
    /\ spc = "pread"
    /\ IF tpc = "exited" THEN Exits ELSE spc' = "decide" /\ UNCHANGED <<id, resp>>
    /\ UNCHANGED <<target, notif, socket, handler, pending, made>>

(* Mutant: answers with success when its mkdir() has failed. *)
DecideAlwaysOk ==
    /\ spc = "decide" /\ spc' = "answer"
    /\ \/ argv[id] = "tmp" /\ resp' = "ok" /\ made' \in {made, made \cup {id}}
       \/ argv[id] = "dot" /\ resp' = "continue" /\ made' = made
       \/ argv[id] \notin {"tmp", "dot"} /\ resp' = "error" /\ made' = made
    /\ UNCHANGED <<target, id, notif, socket, handler, pending>>

(* The answer; a directory below /tmp is made, which may fail. *)
Decide ==
    /\ spc = "decide" /\ spc' = "answer"
    /\ \/ argv[id] = "tmp" /\ resp' = "ok" /\ made' = made \cup {id}
       \/ argv[id] = "tmp" /\ resp' = "error" /\ made' = made
       \/ argv[id] = "dot" /\ resp' = "continue" /\ made' = made
       \/ argv[id] \notin {"tmp", "dot"} /\ resp' = "error" /\ made' = made
    /\ UNCHANGED <<target, id, notif, socket, handler, pending>>

AfterAnswer == spc' = IF argv[id] = "bye" THEN "exited" ELSE "recv"

(* SECCOMP_IOCTL_NOTIF_SEND: mkdir() returns, or, with the flag CONTINUE,  *)
(* is executed, and may fail.                                              *)
Answer ==
    /\ spc = "answer" /\ Valid(id) /\ AfterAnswer
    /\ \/ resp # "continue" /\ Return(resp) /\ made' = made
       \/ resp = "continue" /\ Return("ok") /\ made' = made \cup {ap}
       \/ resp = "continue" /\ Return("error") /\ made' = made
    /\ UNCHANGED <<args, ints, id, resp, socket, handler, pending>>

(* ENOENT: nobody waits for the answer any more. *)
AnswerLate ==
    /\ spc = "answer" /\ ~Valid(id) /\ AfterAnswer
    /\ UNCHANGED <<target, id, resp, notif, socket, handler, pending, made>>

-----------------------------------------------------------------------------
Init ==
    /\ argv \in [Dir -> Kind] /\ secondFilter \in {"none", "errno", "trace"} /\ delay \in BOOLEAN
    /\ tpc = "install" /\ ap = 1 /\ spc = "sigaction" /\ id = 0 /\ resp = "none"
    /\ notif = "none" /\ socket = FALSE /\ handler = FALSE /\ pending = FALSE
    /\ ints = 0 /\ made = {} /\ result = [n \in Dir |-> "none"]

TargetStep == Install \/ SendFd \/ CloseFd \/ Mkdir \/ Abandoned \/ Terminate
SupervisorStep == sigchldHandler \/ sigaction \/ recvfd \/ Receive \/ CheckId
                  \/ getTargetPathname \/ Decide \/ Answer \/ AnswerLate
Next == TargetStep \/ SupervisorStep \/ Interrupt \/ TargetDies
Fairness == WF_snVars(TargetStep) /\ WF_snVars(SupervisorStep)
Spec == Init /\ [][Next]_snVars /\ Fairness

(* What the target is told is what was done: success only for a directory  *)
(* that is there, an error only for one that is not.  Only a call that was *)
(* interrupted, or whose caller has died, can leave a directory the target *)
(* does not know of.  No directory is made outside /tmp and the current.   *)
AnswersMatch ==
    \A n \in Dir :
        /\ result[n] = "ok" => n \in made
        /\ n \in made => argv[n] \in {"tmp", "dot"} /\ result[n] \in {"ok", "EINTR", "none"}
        /\ n \in made /\ result[n] = "none" =>
             tpc = "exited" \/ (tpc = "blocked" /\ ap = n /\ spc = "answer")

(* A blocked mkdir() returns: the supervisor answers or, having ended,     *)
(* leaves the kernel to answer.  And when the target has ended, so does    *)
(* the supervisor, unless the target ended before the handler for SIGCHLD  *)
(* was installed.                                                          *)
NobodyBlocked ==
    /\ tpc = "blocked" ~> tpc # "blocked"
    /\ (tpc = "exited" /\ pending) ~> spc = "exited"
=============================================================================
