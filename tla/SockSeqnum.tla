----------------------------- MODULE SockSeqnum -----------------------------
(***************************************************************************)
(* The sequence number server over TCP (is_seqnum, is_seqnum_v2): it       *)
(* serves one connection at a time and reads the request to its newline or *)
(* to the end of the connection.  A client sends its request in two        *)
(* write()s and may be killed at any point; the kernel then closes its     *)
(* connection.                                                             *)
(***************************************************************************)
EXTENDS ToolParams, Integers, Sequences

VARIABLES
    npc,          \* where the server is
    cfd,          \* the client it serves, or Nobody
    seqNum,
    backlog,      \* connections to be accepted, oldest first
    cpcs,         \* where each client is
    reqLen,       \* the length each client asks for
    arrived,      \* what has come from it: "nothing", "number" or "line"
    answer        \* what has been sent to it: a number, or NoAnswer, or EndOfFile
seqVars == <<npc, cfd, seqNum, backlog, cpcs, reqLen, arrived, answer>>
server == <<npc, cfd, seqNum>>

NoAnswer == -1
EndOfFile == -2

Alive(c) == cpcs[c] \notin {"done", "failed", "killed"}
CGoto(c, from, to) == cpcs[c] = from /\ cpcs' = [cpcs EXCEPT ![c] = to]

-----------------------------------------------------------------------------
(* Clients *)

connect(c) ==
    /\ CGoto(c, "connect", "number")
    /\ backlog' = Append(backlog, c)
    /\ UNCHANGED <<server, reqLen, arrived, answer>>

(* The server may have closed the connection: the write() fails, or what   *)
(* it wrote is never read.                                                 *)
SendNumber(c) ==
    /\ CGoto(c, "number", "newline")
    /\ arrived' = [arrived EXCEPT ![c] = "number"]
    /\ UNCHANGED <<server, backlog, reqLen, answer>>

SendNewline(c) ==
    /\ CGoto(c, "newline", "answer")
    /\ arrived' = [arrived EXCEPT ![c] = "line"]
    /\ UNCHANGED <<server, backlog, reqLen, answer>>

(* "Unexpected EOF from server" *)
ReadAnswer(c) ==
    /\ answer[c] # NoAnswer
    /\ CGoto(c, "answer", IF answer[c] = EndOfFile THEN "failed" ELSE "done")
    /\ UNCHANGED <<server, backlog, reqLen, arrived, answer>>

Killed(c) ==
    /\ Alive(c) /\ cpcs' = [cpcs EXCEPT ![c] = "killed"]
    /\ UNCHANGED <<server, backlog, reqLen, arrived, answer>>

-----------------------------------------------------------------------------
(* The server.  An error of accept() makes it try again. *)

accept ==
    /\ npc = "accept" /\ npc' = "read"
    /\ backlog # <<>> /\ cfd' = Head(backlog) /\ backlog' = Tail(backlog)
    /\ UNCHANGED <<seqNum, cpcs, reqLen, arrived, answer>>

(* readLine() returns at the newline, or when the client is gone; then it  *)
(* returns 0 if nothing had come.                                          *)
readRequest ==
    /\ npc = "read" /\ (arrived[cfd] = "line" \/ ~Alive(cfd))
    /\ npc' = IF arrived[cfd] = "nothing" \/ reqLen[cfd] = 0 THEN "close" ELSE "write"
    /\ UNCHANGED <<cfd, seqNum, backlog, cpcs, reqLen, arrived, answer>>

(* Mutant: the number is only advanced if the client could be told. *)
writeAnswerOrNot ==
    /\ npc = "write" /\ npc' = "close"
    /\ answer' = [answer EXCEPT ![cfd] = seqNum]
    /\ seqNum' = IF Alive(cfd) THEN seqNum + reqLen[cfd] ELSE seqNum
    /\ UNCHANGED <<cfd, backlog, cpcs, reqLen, arrived>>

(* A failed write() is reported; seqNum is advanced all the same. *)
writeAnswer ==
    /\ npc = "write" /\ npc' = "close"
    /\ answer' = [answer EXCEPT ![cfd] = seqNum]
    /\ seqNum' = seqNum + reqLen[cfd]
    /\ UNCHANGED <<cfd, backlog, cpcs, reqLen, arrived>>

close ==
    /\ npc = "close" /\ npc' = "accept" /\ cfd' = Nobody
    /\ answer' = [answer EXCEPT ![cfd] = IF @ = NoAnswer THEN EndOfFile ELSE @]
    /\ UNCHANGED <<seqNum, backlog, cpcs, reqLen, arrived>>

Init ==
    /\ npc = "accept" /\ cfd = Nobody /\ seqNum = 0 /\ backlog = <<>>
    /\ cpcs = [c \in NetClient |-> "connect"] /\ reqLen \in [NetClient -> 0 .. MaxReq]
    /\ arrived = [c \in NetClient |-> "nothing"] /\ answer = [c \in NetClient |-> NoAnswer]

ServerStep == accept \/ readRequest \/ writeAnswer \/ close
ClientStep(c) == connect(c) \/ SendNumber(c) \/ SendNewline(c) \/ ReadAnswer(c)
Next == ServerStep \/ \E c \in NetClient : ClientStep(c) \/ Killed(c)
Spec == /\ Init /\ [][Next]_seqVars /\ WF_seqVars(ServerStep)
        /\ \A c \in NetClient : WF_seqVars(ClientStep(c))

-----------------------------------------------------------------------------
Granted(c) == IF answer[c] \in {NoAnswer, EndOfFile} THEN {}
              ELSE answer[c] .. answer[c] + reqLen[c] - 1

(* No number is given to two clients, also when one is killed before it    *)
(* has read its answer, and every number below seqNum was given to one;    *)
(* a client that asked properly never finds the connection closed.         *)
NumbersGranted ==
    /\ \A c, d \in NetClient : c # d => Granted(c) \cap Granted(d) = {}
    /\ npc = "accept" => UNION {Granted(c) : c \in NetClient} = 0 .. seqNum - 1
    /\ \A c \in NetClient : cpcs[c] = "failed" => reqLen[c] = 0

(* Nobody waits for ever, although a slow client holds up all others. *)
AllServed == \A c \in NetClient : cpcs[c] = "answer" ~> ~Alive(c)
=============================================================================
