----------------------------- MODULE FifoSeqnum -----------------------------
(***************************************************************************)
(* fifo_seqnum_server and fifo_seqnum_client: an iterative server hands    *)
(* out ranges of sequence numbers.  A client writes its request to the     *)
(* server's well-known FIFO and waits for the answer on a FIFO of its own. *)
(*                                                                         *)
(* The kernel's part: open() of a FIFO for reading waits for a writer and  *)
(* open() for writing for a reader; a write with no reader gets SIGPIPE or *)
(* EPIPE; what is in a FIFO is discarded when nobody has it open.          *)
(* Requests and responses are shorter than PIPE_BUF, so they are atomic.   *)
(*                                                                         *)
(* A process may be killed (Mortal); then no exit handler runs.  A killed  *)
(* server may be started again (MaxLives).  Each client runs once.         *)
(***************************************************************************)
EXTENDS IpcParams

VARIABLES
    svFifo,    \* SERVER_FIFO exists
    requests,  \* what is in it: the clients whose requests were written
    spc,       \* where the server is
    life,      \* which server this is
    seqNum,    \* its counter
    req,       \* its current request
    clFifo,    \* the client FIFOs that exist
    cpc,       \* where each client is
    answered,  \* the server has opened the FIFO of this client for writing
    resp,      \* the response in the client's FIFO, or {}
    result     \* history: <<life, seqNum>> a client has printed, or {}

server == <<spc, life, seqNum, req>>
fifos == <<svFifo, requests, clFifo, answered, resp>>
vars == <<svFifo, requests, spc, life, seqNum, req, clFifo, cpc, answered, resp, result>>

ServerPC == {"mkfifo", "open", "openRead", "openDummy", "read", "openClient", "write", "killed"}
ClientPC == {"mkfifo", "openServer", "request", "open", "read", "done", "failed", "killed"}

(* The clients that have SERVER_FIFO open, or wait in open(). *)
Opening == {c \in Client : cpc[c] = "openServer"}
HaveOpen == {c \in Client : cpc[c] \in {"request", "open", "read"}}
ServerReads == spc \notin {"mkfifo", "open", "killed"}

-----------------------------------------------------------------------------
(* The server. *)

SGoto(from, to) == spc = from /\ spc' = to

(* EEXIST is not an error: a FIFO left by an earlier server is reused. *)
SMkfifo ==
    /\ SGoto("mkfifo", "open")
    /\ svFifo' = TRUE
    /\ UNCHANGED <<requests, life, seqNum, req, clFifo, cpc, answered, resp, result>>

(* open(O_RDONLY) makes the server a reader of the FIFO, and returns when  *)
(* some client has come to open it for writing.                            *)
SCallOpen ==
    /\ SGoto("open", "openRead")
    /\ UNCHANGED <<fifos, life, seqNum, req, cpc, result>>

SOpenRead ==
    /\ SGoto("openRead", "openDummy")
    /\ HaveOpen \cup Opening # {}
    /\ UNCHANGED <<fifos, life, seqNum, req, cpc, result>>

SOpenDummy ==
    /\ SGoto("openDummy", "read")
    /\ UNCHANGED <<fifos, life, seqNum, req, cpc, result>>

SRead ==
    /\ SGoto("read", "openClient")
    /\ requests # <<>>
    /\ req' = Head(requests)
    /\ requests' = Tail(requests)
    /\ UNCHANGED <<svFifo, life, seqNum, clFifo, cpc, answered, resp, result>>

(* open() of the client's FIFO waits until the client opens it too. *)
SOpenClient ==
    /\ SGoto("openClient", "write")
    /\ req \in clFifo
    /\ cpc[req] = "open"
    /\ answered' = answered \cup {req}
    /\ UNCHANGED <<svFifo, requests, clFifo, resp, life, seqNum, req, cpc, result>>

(* Mutant: the server stops at a client that has gone. *)
SOpenClientStuck ==
    /\ SGoto("openClient", "openClient")
    /\ req \notin clFifo
    /\ UNCHANGED <<fifos, life, seqNum, req, cpc, result>>

(* ENOENT: give up on the client; its numbers are not used up. *)
SOpenClientFails ==
    /\ SGoto("openClient", "read")
    /\ req \notin clFifo
    /\ UNCHANGED <<fifos, life, seqNum, req, cpc, result>>

(* Mutant: the counter is advanced by one, whatever was asked for. *)
SWriteByOne ==
    /\ SGoto("write", "read")
    /\ resp' = IF cpc[req] \in {"open", "read"}
               THEN [resp EXCEPT ![req] = {<<life, seqNum>>}] ELSE resp
    /\ seqNum' = seqNum + 1
    /\ UNCHANGED <<svFifo, requests, clFifo, answered, life, req, cpc, result>>

(* write(), close() and the update of seqNum.  Without a reader write()    *)
(* fails with EPIPE, SIGPIPE being ignored; seqNum advances all the same.  *)
SWrite ==
    /\ SGoto("write", "read")
    /\ resp' = IF cpc[req] \in {"open", "read"}
               THEN [resp EXCEPT ![req] = {<<life, seqNum>>}] ELSE resp
    /\ seqNum' = seqNum + SeqLen[req]
    /\ UNCHANGED <<svFifo, requests, clFifo, answered, life, req, cpc, result>>

(* The server is killed; if nobody else has its FIFO open, what is in it   *)
(* is lost.                                                                *)
SKill ==
    /\ life < MaxLives
    /\ spc # "killed" /\ spc' = "killed"
    /\ requests' = IF HaveOpen = {} THEN <<>> ELSE requests
    /\ UNCHANGED <<svFifo, life, seqNum, req, clFifo, cpc, answered, resp, result>>

SStart ==
    /\ SGoto("killed", "mkfifo")
    /\ life' = life + 1 /\ seqNum' = 0 /\ req' = NoClient
    /\ UNCHANGED <<fifos, cpc, result>>

-----------------------------------------------------------------------------
(* A client.  A client that exits runs removeFifo(); one that is killed    *)
(* does not.                                                               *)

CGoto(c, from, to) == cpc[c] = from /\ cpc' = [cpc EXCEPT ![c] = to]

(* When the last process that has SERVER_FIFO open goes, its content does. *)
LeaveServerFifo(c) ==
    requests' = IF ServerReads \/ HaveOpen \ {c} # {} THEN requests ELSE <<>>

removeFifo(c) == clFifo' = clFifo \ {c}

(* Mutant: the client's FIFO is not made before the request is sent. *)
CMkfifoLate(c) ==
    /\ CGoto(c, "mkfifo", "openServer")
    /\ UNCHANGED <<fifos, server, result>>

CMkfifo(c) ==
    /\ CGoto(c, "mkfifo", "openServer")
    /\ clFifo' = clFifo \cup {c}
    /\ UNCHANGED <<svFifo, requests, server, answered, resp, result>>

COpenServer(c) ==
    /\ CGoto(c, "openServer", "request")
    /\ svFifo /\ ServerReads
    /\ UNCHANGED <<fifos, server, result>>

COpenServerFails(c) ==
    /\ CGoto(c, "openServer", "failed")
    /\ ~svFifo
    /\ removeFifo(c)
    /\ UNCHANGED <<svFifo, requests, server, answered, resp, result>>

CRequest(c) ==
    /\ CGoto(c, "request", "open")
    /\ ServerReads
    /\ requests' = Append(requests, c)
    /\ UNCHANGED <<svFifo, clFifo, answered, resp, server, result>>

(* write() with no reader: SIGPIPE kills the client. *)
CRequestFails(c) ==
    /\ CGoto(c, "request", "killed")
    /\ ~ServerReads
    /\ LeaveServerFifo(c)
    /\ UNCHANGED <<svFifo, clFifo, answered, resp, server, result>>

COpen(c) ==
    /\ CGoto(c, "open", "read")
    /\ c \in answered
    /\ UNCHANGED <<fifos, server, result>>

(* The client's own open() fails, as any call may: errExit(). *)
COpenFails(c) ==
    /\ c \in Mortal
    /\ CGoto(c, "open", "failed")
    /\ removeFifo(c) /\ LeaveServerFifo(c)
    /\ UNCHANGED <<svFifo, answered, resp, server, result>>

CRead(c) ==
    /\ CGoto(c, "read", "done")
    /\ resp[c] # {}
    /\ result' = [result EXCEPT ![c] = resp[c]]
    /\ resp' = [resp EXCEPT ![c] = {}]
    /\ removeFifo(c) /\ LeaveServerFifo(c)
    /\ UNCHANGED <<svFifo, answered, server>>

(* End of file: the writer has gone without a response. *)
CReadFails(c) ==
    /\ CGoto(c, "read", "failed")
    /\ resp[c] = {} /\ ~(spc = "write" /\ req = c)
    /\ removeFifo(c) /\ LeaveServerFifo(c)
    /\ UNCHANGED <<svFifo, answered, resp, server, result>>

CKill(c) ==
    /\ c \in Mortal
    /\ cpc[c] \notin {"done", "failed", "killed"}
    /\ cpc' = [cpc EXCEPT ![c] = "killed"]
    /\ resp' = [resp EXCEPT ![c] = {}]
    /\ LeaveServerFifo(c)
    /\ UNCHANGED <<svFifo, clFifo, answered, server, result>>

-----------------------------------------------------------------------------
Init ==
    /\ svFifo = FALSE /\ requests = <<>>
    /\ spc = "mkfifo" /\ life = 1 /\ seqNum = 0 /\ req = NoClient
    /\ clFifo = {} /\ answered = {}
    /\ cpc = [c \in Client |-> "mkfifo"]
    /\ resp = [c \in Client |-> {}]
    /\ result = [c \in Client |-> {}]

ServerStep == \/ SMkfifo \/ SCallOpen \/ SOpenRead \/ SOpenDummy \/ SRead
              \/ SOpenClient \/ SOpenClientFails \/ SWrite

ClientStep(c) == \/ CMkfifo(c) \/ COpenServer(c) \/ COpenServerFails(c)
                 \/ CRequest(c) \/ CRequestFails(c)
                 \/ COpen(c) \/ CRead(c) \/ CReadFails(c)

Next == \/ ServerStep \/ SKill \/ SStart
        \/ \E c \in Client : ClientStep(c) \/ COpenFails(c) \/ CKill(c)

(* A process whose call can return goes on; nobody has to be killed.       *)
Fairness == WF_vars(ServerStep) /\ \A c \in Client : WF_vars(ClientStep(c))

Spec == Init /\ [][Next]_vars /\ Fairness

-----------------------------------------------------------------------------
TypeOK ==
    /\ svFifo \in BOOLEAN /\ requests \in Seq(Client)
    /\ spc \in ServerPC /\ life \in 1 .. MaxLives /\ seqNum \in Nat
    /\ req \in Client \cup {NoClient}
    /\ spc \in {"openClient", "write"} => req \in Client
    /\ clFifo \subseteq Client /\ answered \subseteq Client
    /\ cpc \in [Client -> ClientPC]
    /\ resp \in [Client -> SUBSET ((1 .. MaxLives) \X Nat)]
    /\ result \in [Client -> SUBSET ((1 .. MaxLives) \X Nat)]

(* The ranges c was promised: one it has printed, one waiting in its FIFO. *)
Given(c) == resp[c] \cup result[c]

(* No number is handed out twice by one server, whoever was killed when:   *)
(* the ranges of two clients do not meet, and what is promised lies below  *)
(* the server's counter.                                                   *)
RangesDisjoint ==
    \A c \in Client : \A r \in Given(c) :
        /\ r[1] = life => r[2] + SeqLen[c] <= seqNum
        /\ \A d \in Client \ {c} : \A t \in Given(d) :
               r[1] = t[1] => \/ r[2] + SeqLen[c] <= t[2]
                              \/ t[2] + SeqLen[d] <= r[2]

(* "Create our FIFO (before sending request, to avoid a race)": the server *)
(* finds no FIFO only for a client that has given up.                      *)
FifoBeforeRequest ==
    (spc = "openClient" /\ req \notin clFifo) => cpc[req] = "failed"

(* The only client that can hold the server up in open() is one that was   *)
(* killed between its request and its own open(): its FIFO is still there. *)
HeldUpOnlyByKilled ==
    (spc = "openClient") ~> (spc # "openClient" \/ cpc[req] = "killed")

AnyKilled == spc = "killed" \/ life > 1 \/ \E c \in Client : cpc[c] = "killed"

(* A client that has reached the server's FIFO gets its numbers, as long   *)
(* as nobody is killed and its own open() succeeds: the failure of another *)
(* client after its request does not stop the server.                      *)
Served ==
    \A c \in Client :
        (cpc[c] = "request") ~>
            (cpc[c] = "done" \/ (c \in Mortal /\ cpc[c] = "failed") \/ AnyKilled)

=============================================================================
