---------------------------- MODULE SvmsgProofs ----------------------------
(***************************************************************************)
(* svmsg_file: for any number of clients, files of any length, queues of   *)
(* any capacity and all faults of the model, a client that reports success *)
(* has its whole file.                                                     *)
(*                                                                         *)
(* A request is on one way: the client has yet to send it, or it is in the *)
(* queue, or the server is about to fork for it, or its child exists.      *)
(* What a client has received and what is in its queue are together the    *)
(* blocks its child has sent, in order, and behind them the last message   *)
(* once the child has ended.                                               *)
(***************************************************************************)
EXTENDS SvmsgFile, TLAPS

Message == {RESP_MT_FAILURE, RESP_MT_DATA, RESP_MT_END} \X Nat

Typed ==
    /\ reqs \in Seq(Client) /\ sreq \subseteq Client
    /\ child \in [Client -> ChildPC] /\ sent \in [Client -> Nat]
    /\ file \in [Client -> Nat \cup {Unreadable}]
    /\ clQ \subseteq Client /\ msgs \in [Client -> Seq(Message)]
    /\ cpc \in [Client -> ClientPC] /\ got \in [Client -> Seq(Nat)] /\ cut \subseteq Client

(* No client is served twice. *)
Asked(c) == cpc[c] \notin {"msggetServer", "msggetOwn", "msgsnd"}

ServedOnce ==
    /\ \A i, j \in 1 .. Len(reqs) : reqs[i] = reqs[j] => i = j
    /\ \A i \in 1 .. Len(reqs) : child[reqs[i]] = "none" /\ Asked(reqs[i])
    /\ spc = "fork" => /\ \A i \in 1 .. Len(reqs) : reqs[i] \notin sreq
                       /\ \A c \in sreq : child[c] = "none" /\ Asked(c)
    /\ \A c \in Client : ~Asked(c) => child[c] = "none"

(* Where a child is in its file. *)
ChildInv(c) ==
    /\ child[c] = "none" => msgs[c] = <<>> /\ got[c] = <<>>
    /\ child[c] \in {"none", "open", "sendFailure"} => sent[c] = 0
    /\ child[c] \in {"read", "send", "sendEnd"} => file[c] \in Nat /\ sent[c] <= file[c]
    /\ child[c] = "send" => sent[c] >= 1

(* The blocks received, g, and those in the queue, q, are 1 .. n. *)
InOrder(g) == \A i \in 1 .. Len(g) : g[i] = i
Blocks(g, q, n) ==
    /\ InOrder(g) /\ Len(g) + Len(q) = n
    /\ \A i \in 1 .. Len(q) : q[i] = <<RESP_MT_DATA, Len(g) + i>>

Over(c) == child[c] \in {"zombie", "reaped"}
Receiving(c) == cpc[c] \in {"first", "loop"}
NumSent(c) == IF child[c] = "send" THEN sent[c] - 1 ELSE sent[c]
AllRead(c) == file[c] \in Nat /\ (c \in cut \/ sent[c] = file[c])

(* What a child sends last. *)
Final(c, m) ==
    \/ m[1] = RESP_MT_FAILURE /\ sent[c] = 0
    \/ m[1] = RESP_MT_END /\ AllRead(c)

(* What a client has received and what it will receive. *)
Stream(c) ==
    /\ cpc[c] = "first" <=> got[c] = <<>>
    /\ child[c] = "sendEnd" => AllRead(c)
    /\ IF Over(c)
       THEN \E q \in Seq(Message), m \in Message :
                msgs[c] = Append(q, m) /\ Blocks(got[c], q, sent[c]) /\ Final(c, m)
       ELSE Blocks(got[c], msgs[c], NumSent(c))

Whole(c) ==
    /\ Over(c) /\ file[c] # Unreadable /\ InOrder(got[c])
    /\ c \notin cut => Len(got[c]) = file[c]

ClientInv(c) ==
    /\ cpc[c] \in {"msgsnd", "first", "loop"} => c \in clQ
    /\ Receiving(c) => Stream(c)
    /\ cpc[c] = "ok" => Whole(c)

SvInv == Typed /\ ServedOnce /\ \A c \in Client : ChildInv(c) /\ ClientInv(c)

-----------------------------------------------------------------------------
(* One more element at the end of a sequence. *)
LEMMA AppendIs ==
    ASSUME NEW S, NEW s \in Seq(S), NEW e \in S
    PROVE  /\ Append(s, e) \in Seq(S) /\ Len(Append(s, e)) = Len(s) + 1
           /\ \A i \in 1 .. Len(s) : Append(s, e)[i] = s[i]
           /\ Append(s, e)[Len(s) + 1] = e
  OBVIOUS

(* One less at its beginning. *)
LEMMA TailIs ==
    ASSUME NEW S, NEW s \in Seq(S), s # <<>>
    PROVE  /\ Len(s) >= 1 /\ Head(s) = s[1] /\ Head(s) \in S
           /\ Tail(s) \in Seq(S) /\ Len(Tail(s)) = Len(s) - 1
           /\ \A i \in 1 .. Len(s) - 1 : Tail(s)[i] = s[i + 1]
  OBVIOUS

(* The last element of a sequence with another one behind it. *)
LEMMA HeadAppend ==
    ASSUME NEW S, NEW s \in Seq(S), NEW e \in S
    PROVE  /\ s = <<>> => Head(Append(s, e)) = e
           /\ s # <<>> => Head(Append(s, e)) = Head(s) /\ Tail(Append(s, e)) = Append(Tail(s), e)
  OBVIOUS

(* A block that is sent. *)
LEMMA OneSent ==
    ASSUME NEW g \in Seq(Nat), NEW q \in Seq(Message), NEW n \in Nat, Blocks(g, q, n - 1)
    PROVE  Blocks(g, Append(q, <<RESP_MT_DATA, n>>), n)
  <1> DEFINE r == Append(q, <<RESP_MT_DATA, n>>)
  <1>1. /\ Len(r) = Len(q) + 1 /\ r[Len(q) + 1] = <<RESP_MT_DATA, n>>
        /\ \A i \in 1 .. Len(q) : r[i] = q[i]
    BY AppendIs DEF Message
  <1> HIDE DEF r
  <1>2. Len(g) + Len(q) = n - 1 /\ Len(g) \in Nat /\ Len(q) \in Nat
    BY DEF Blocks
  <1>3. ASSUME NEW i \in 1 .. Len(r) PROVE r[i] = <<RESP_MT_DATA, Len(g) + i>>
    <2>1. CASE i \in 1 .. Len(q)
      BY <1>1, <2>1, Zenon DEF Blocks
    <2>2. CASE i = Len(q) + 1
      BY <1>1, <1>2, <2>2
    <2> QED
      BY <1>1, <1>2, <2>1, <2>2
  <1>4. Len(g) + Len(r) = n
    BY <1>1, <1>2
  <1>5. Blocks(g, r, n)
    BY <1>3, <1>4, Zenon DEF Blocks
  <1> QED
    BY <1>5, Zenon DEF r

(* A block that is received. *)
LEMMA OneReceived ==
    ASSUME NEW g \in Seq(Nat), NEW q \in Seq(Message), NEW n \in Nat, q # <<>>, Blocks(g, q, n)
    PROVE  /\ Head(q) = <<RESP_MT_DATA, Len(g) + 1>>
           /\ Blocks(Append(g, Len(g) + 1), Tail(q), n)
  <1> DEFINE h == Append(g, Len(g) + 1)
             r == Tail(q)
  <1>1. Len(g) \in Nat /\ Len(q) \in Nat
    OBVIOUS
  <1>2. /\ Len(h) = Len(g) + 1 /\ h[Len(g) + 1] = Len(g) + 1 /\ \A i \in 1 .. Len(g) : h[i] = g[i]
    BY <1>1, AppendIs
  <1>3. /\ Len(q) >= 1 /\ Head(q) = q[1] /\ Len(r) = Len(q) - 1
        /\ \A i \in 1 .. Len(q) - 1 : r[i] = q[i + 1]
    BY TailIs, Zenon
  <1> HIDE DEF h, r
  <1>4. Head(q) = <<RESP_MT_DATA, Len(g) + 1>>
    BY <1>1, <1>3 DEF Blocks
  <1>5. InOrder(h)
    <2>1. ASSUME NEW i \in 1 .. Len(h) PROVE h[i] = i
      <3>1. CASE i \in 1 .. Len(g)
        BY <1>2, <3>1, Zenon DEF Blocks, InOrder
      <3>2. CASE i = Len(g) + 1
        BY <1>2, <3>2, Zenon
      <3> QED
        BY <1>1, <1>2, <3>1, <3>2
    <2> QED
      BY <2>1, Zenon DEF InOrder
  <1>6. Len(h) + Len(r) = n
    <2>1. Len(g) + Len(q) = n
      BY Zenon DEF Blocks
    <2>2. Len(h) = Len(g) + 1 /\ Len(r) = Len(q) - 1
      BY <1>2, <1>3, Zenon
    <2> QED
      BY <1>1, <2>1, <2>2
  <1>7. ASSUME NEW i \in 1 .. Len(r) PROVE r[i] = <<RESP_MT_DATA, Len(h) + i>>
    <2>1. i + 1 \in 1 .. Len(q) /\ r[i] = q[i + 1]
      BY <1>1, <1>3
    <2>2. q[i + 1] = <<RESP_MT_DATA, Len(g) + (i + 1)>>
      BY <2>1, Zenon DEF Blocks
    <2>3. Len(g) + (i + 1) = Len(h) + i
      BY <1>1, <1>2, <1>3
    <2> QED
      BY <2>1, <2>2, <2>3, Zenon
  <1>8. Blocks(h, r, n)
    BY <1>5, <1>6, <1>7, Zenon DEF Blocks
  <1> QED
    BY <1>4, <1>8, Zenon DEF h, r

(* A client whose own state stays as it is. *)
LEMMA Untouched ==
    ASSUME NEW d \in Client, ChildInv(d), ClientInv(d), file' = file,
           child'[d] = child[d], sent'[d] = sent[d], msgs'[d] = msgs[d], got'[d] = got[d],
           cpc'[d] = cpc[d], d \in clQ' <=> d \in clQ, d \in cut' <=> d \in cut
    PROVE  ChildInv(d)' /\ ClientInv(d)'
  <1>1. ChildInv(d)'
    BY Zenon DEF ChildInv
  <1>2. Stream(d) => Stream(d)'
    BY Zenon DEF Stream, Over, NumSent, AllRead, Final
  <1>3. Whole(d) => Whole(d)'
    BY Zenon DEF Whole, Over
  <1> QED
    BY <1>1, <1>2, <1>3, Zenon DEF ClientInv, Receiving

(* A child that exists goes on: its client is not served a second time. *)
LEMMA ChildMoves ==
    ASSUME Typed, ServedOnce, NEW c \in Client, NEW x, x # "none",
           child[c] # "none", child' = [child EXCEPT ![c] = x],
           UNCHANGED <<reqs, spc, sreq, cpc>>
    PROVE  ServedOnce'
  <1>1. /\ \A d \in Client : child'[d] = "none" <=> child[d] = "none"
        /\ \A i \in 1 .. Len(reqs) : reqs[i] \in Client
        /\ \A d \in sreq : d \in Client
    BY DEF Typed
  <1>2. \A d \in Client : Asked(d)' <=> Asked(d)
    BY Zenon DEF Asked
  <1> QED
    BY <1>1, <1>2, Zenon DEF ServedOnce

(* Nor is one that goes on itself. *)
LEMMA ClientMoves ==
    ASSUME Typed, ServedOnce, NEW c \in Client, NEW x, cpc' = [cpc EXCEPT ![c] = x],
           Asked(c) => x \notin {"msggetServer", "msggetOwn", "msgsnd"},
           UNCHANGED <<reqs, spc, sreq, child>>
    PROVE  ServedOnce'
  <1>1. /\ \A i \in 1 .. Len(reqs) : reqs[i] \in Client
        /\ \A d \in sreq : d \in Client
    BY DEF Typed
  <1>2. \A d \in Client : Asked(d) => Asked(d)'
    BY Zenon DEF Asked, Typed
  <1> QED
    BY <1>1, <1>2, Zenon DEF ServedOnce

(* Initially nobody has asked. *)
LEMMA SvInit == Init => SvInv
  <1> SUFFICES ASSUME Init PROVE SvInv BY Zenon
  <1>1. Typed
    <2>1. file \in [Client -> Nat \cup {Unreadable}]
      BY FileAssumption DEF Init
    <2> QED
      BY <2>1 DEF Init, Typed, ChildPC, ClientPC, Message
  <1>2. ServedOnce
    BY DEF Init, ServedOnce
  <1>3. ASSUME NEW c \in Client PROVE ChildInv(c) /\ ClientInv(c)
    BY Zenon DEF Init, ChildInv, ClientInv, Receiving
  <1> QED
    BY <1>1, <1>2, <1>3, Zenon DEF SvInv

(* The server takes requests in their order, and one child serves each. *)
LEMMA ServerStep ==
    ASSUME SvInv, MainStep \/ SForkFails \/ Deliver \/ grimReaperReturns
    PROVE  SvInv'
  <1> USE DEF SvInv
  <1>1. CASE SReceive
    <2>1. /\ reqs # <<>> /\ spc' = "fork" /\ sreq' = {Head(reqs)} /\ reqs' = Tail(reqs)
          /\ UNCHANGED <<child, sent, file, clQ, msgs, cpc, got, cut>>
      BY <1>1, Zenon DEF SReceive
    <2>2. /\ Len(reqs) \in Nat /\ Len(reqs) >= 1 /\ Head(reqs) = reqs[1] /\ Head(reqs) \in Client
          /\ reqs' \in Seq(Client) /\ Len(reqs') = Len(reqs) - 1
          /\ \A i \in 1 .. Len(reqs) - 1 : reqs'[i] = reqs[i + 1]
      BY <2>1, TailIs DEF Typed
    <2>3. Typed'
      BY <2>1, <2>2, Zenon DEF Typed
    <2>4. ServedOnce'
      BY <2>1, <2>2 DEF ServedOnce, Asked
    <2>5. ASSUME NEW d \in Client PROVE ChildInv(d)' /\ ClientInv(d)'
      BY <2>1, Untouched, Zenon
    <2> QED
      BY <2>3, <2>4, <2>5, Zenon
  <1>2. CASE SFork
    <2>1. /\ spc = "fork" /\ spc' = "msgrcv"
          /\ child' = [c \in Client |-> IF c \in sreq THEN "open" ELSE child[c]]
          /\ UNCHANGED <<reqs, sreq, sent, file, clQ, msgs, cpc, got, cut>>
      BY <1>2, Zenon DEF SFork
    <2>2. Typed'
      BY <2>1, Zenon DEF Typed, ChildPC
    <2>3. ServedOnce'
      BY <2>1 DEF ServedOnce, Asked, Typed
    <2>4. ASSUME NEW d \in Client PROVE ChildInv(d)' /\ ClientInv(d)'
      <3>1. CASE d \notin sreq
        BY <2>1, <3>1, Untouched, Zenon
      <3>2. CASE d \in sreq
        <4>1. child[d] = "none" /\ child'[d] = "open"
          BY <2>1, <3>2, Zenon DEF ServedOnce
        <4> QED
          BY <2>1, <4>1, Zenon DEF ChildInv, ClientInv, Receiving, Stream, Whole, Over, NumSent, AllRead
      <3> QED
        BY <3>1, <3>2, Zenon
    <2> QED
      BY <2>2, <2>3, <2>4, Zenon
  <1>3. CASE SRemove
    <2>1. /\ spc' = "exit" /\ reqs' = <<>>
          /\ UNCHANGED <<sreq, child, sent, file, clQ, msgs, cpc, got, cut>>
      BY <1>3, Zenon DEF SRemove
    <2>2. Typed' /\ ServedOnce'
      BY <2>1 DEF Typed, ServedOnce, Asked
    <2>3. ASSUME NEW d \in Client PROVE ChildInv(d)' /\ ClientInv(d)'
      BY <2>1, Untouched, Zenon
    <2> QED
      BY <2>2, <2>3, Zenon
  <1>4. CASE SCreate \/ SForkFails \/ Deliver \/ grimReaperReturns
    <2>1. /\ spc' # "fork" \/ spc' = spc
          /\ UNCHANGED <<reqs, sreq, child, sent, file, clQ, msgs, cpc, got, cut>>
      BY <1>4, Zenon DEF SCreate, SForkFails, Deliver, grimReaperReturns
    <2>2. Typed' /\ ServedOnce'
      BY <2>1 DEF Typed, ServedOnce, Asked
    <2>3. ASSUME NEW d \in Client PROVE ChildInv(d)' /\ ClientInv(d)'
      BY <2>1, Untouched, Zenon
    <2> QED
      BY <2>2, <2>3, Zenon
  <1> QED
    BY <1>1, <1>2, <1>3, <1>4, Zenon DEF MainStep

(* A child reads, sends and ends; the handler reaps it. *)
LEMMA ServeStep ==
    ASSUME SvInv, NEW c \in Client, ChildStep(c) \/ KReadFails(c) \/ grimReaper(c)
    PROVE  SvInv'
  <1>a. Typed /\ ServedOnce /\ \A d \in Client : ChildInv(d) /\ ClientInv(d)
    BY Zenon DEF SvInv
  <1>b. SvInv' <=> Typed' /\ ServedOnce' /\ \A d \in Client : ChildInv(d)' /\ ClientInv(d)'
    BY Zenon DEF SvInv
  <1>0. /\ child[c] # "none" /\ child' = [child EXCEPT ![c] = child'[c]]
        /\ child'[c] \in ChildPC \ {"none"}
        /\ UNCHANGED <<reqs, spc, sreq, cpc, file, clQ, got>>
    BY <1>a, Zenon DEF ChildStep, KOpen, KSendFailure, KRead, KSend, KSendEnd, KReadFails, grimReaper,
           ChildGoto, Exits, server, Typed, ChildPC
  <1>1. ServedOnce'
    BY <1>0, <1>a, ChildMoves, Zenon
  <1>2. ASSUME NEW d \in Client, d # c,
               sent'[d] = sent[d], msgs'[d] = msgs[d], d \in cut' <=> d \in cut
        PROVE  ChildInv(d)' /\ ClientInv(d)'
    BY <1>0, <1>2, <1>a, Untouched, Zenon DEF Typed
  <1>3. ASSUME sent' \in [Client -> Nat], msgs' \in [Client -> Seq(Message)], cut' \subseteq Client
        PROVE  Typed'
    BY <1>0, <1>3, <1>a, Zenon DEF Typed
  <1>4. Len(msgs[c]) \in Nat /\ Len(got[c]) \in Nat /\ sent[c] \in Nat /\ msgs[c] \in Seq(Message)
    BY <1>a DEF Typed
  <1>8. ChildInv(c) /\ ClientInv(c)
    BY <1>a, Zenon
  <1>5. CASE KOpen(c) \/ grimReaper(c)
    <2>1. /\ UNCHANGED <<sent, msgs, cut>>
          /\ \/ child[c] = "zombie" /\ child'[c] = "reaped"
             \/ child[c] = "open" /\ file[c] = Unreadable /\ child'[c] = "sendFailure"
             \/ child[c] = "open" /\ file[c] # Unreadable /\ child'[c] = "read"
      BY <1>5, <1>a, Zenon DEF KOpen, grimReaper, ChildGoto, Typed
    <2>2. file[c] # Unreadable => file[c] \in Nat
      BY <1>a, Zenon DEF Typed
    <2>3. ChildInv(c)'
      BY <1>0, <1>4, <1>8, <2>1, <2>2 DEF ChildInv
    <2>4. ClientInv(c)'
      BY <1>0, <1>4, <1>8, <2>1, Zenon DEF ClientInv, Receiving, Stream, Whole, Over, NumSent, AllRead, Final
    <2> QED
      BY <1>a, <1>b, <1>1, <1>2, <1>3, <2>1, <2>3, <2>4, Zenon DEF Typed
  <1>6. CASE KRead(c) \/ KReadFails(c)
    <2>1. /\ child[c] = "read" /\ UNCHANGED msgs
          /\ \/ /\ sent[c] < file[c] /\ child'[c] = "send" /\ cut' = cut
                /\ sent' = [sent EXCEPT ![c] = @ + 1]
             \/ /\ ~ (sent[c] < file[c]) /\ child'[c] = "sendEnd" /\ UNCHANGED <<sent, cut>>
             \/ child'[c] = "sendEnd" /\ cut' = cut \cup {c} /\ sent' = sent
      BY <1>6, <1>a, Zenon DEF KRead, KReadFails, ChildGoto, Typed
    <2>2. file[c] \in Nat /\ sent[c] <= file[c]
      BY <1>4, <1>8, <2>1, Zenon DEF ChildInv
    <2>3. CASE child'[c] = "send"
      <3>1. sent' \in [Client -> Nat] /\ sent'[c] = sent[c] + 1 /\ cut' = cut /\ sent'[c] <= file[c]
        BY <1>a, <1>4, <2>1, <2>2, <2>3 DEF Typed
      <3>2. ASSUME NEW d \in Client, d # c PROVE sent'[d] = sent[d]
        BY <1>a, <2>1, <2>3, <3>2, Zenon DEF Typed
      <3>3. ChildInv(c)'
        BY <1>0, <1>4, <1>8, <2>1, <2>2, <2>3, <3>1 DEF ChildInv
      <3>4. ClientInv(c)'
        <4>1. /\ got' = got /\ msgs' = msgs /\ cpc' = cpc /\ clQ' = clQ /\ child[c] = "read"
              /\ ~ Over(c) /\ ~ Over(c)' /\ cpc[c] # "ok"
          BY <1>0, <1>8, <2>1, <2>3, Zenon DEF Over, ClientInv, Whole
        <4>2. NumSent(c) = sent[c] /\ NumSent(c)' = sent[c]
          BY <1>4, <2>1, <2>3, <3>1 DEF NumSent
        <4>3. Stream(c) => Stream(c)'
          BY <2>3, <4>1, <4>2, Zenon DEF Stream
        <4> QED
          BY <1>8, <4>1, <4>3, Zenon DEF ClientInv, Receiving
      <3> QED
        BY <1>a, <1>b, <1>1, <1>2, <1>3, <2>1, <3>1, <3>2, <3>3, <3>4, Zenon DEF Typed
    <2>4. CASE child'[c] = "sendEnd"
      <3>1. /\ sent' = sent /\ cut' \subseteq Client /\ (c \in cut' \/ sent[c] = file[c])
            /\ \A d \in Client : d # c => (d \in cut' <=> d \in cut)
        BY <1>a, <1>4, <2>1, <2>2, <2>4 DEF Typed
      <3>2. ChildInv(c)'
        BY <1>0, <1>4, <1>8, <2>1, <2>2, <2>4, <3>1, Zenon DEF ChildInv
      <3>3. ClientInv(c)'
        BY <1>0, <1>4, <1>8, <2>1, <2>2, <2>4, <3>1, Zenon
           DEF ClientInv, Receiving, Stream, Whole, Over, NumSent, AllRead
      <3> QED
        BY <1>a, <1>b, <1>1, <1>2, <1>3, <2>1, <3>1, <3>2, <3>3, Zenon DEF Typed
    <2> QED
      BY <2>1, <2>3, <2>4, Zenon
  <1>7. CASE KSend(c) \/ KSendFailure(c) \/ KSendEnd(c)
    <2>1. PICK m \in Message :
            /\ msgs' = IF c \in clQ THEN [msgs EXCEPT ![c] = Append(@, m)] ELSE msgs
            /\ UNCHANGED <<sent, cut>>
            /\ \/ /\ child[c] = "send" /\ m = <<RESP_MT_DATA, sent[c]>>
                  /\ child'[c] = IF c \in clQ THEN "read" ELSE "sendEnd"
               \/ child[c] = "sendFailure" /\ m = <<RESP_MT_FAILURE, 0>> /\ child'[c] = "zombie"
               \/ child[c] = "sendEnd" /\ m = <<RESP_MT_END, 0>> /\ child'[c] = "zombie"
      BY <1>4, <1>7, <1>a, Zenon DEF KSend, KSendFailure, KSendEnd, ChildGoto, Exits, msgsnd, Typed, Message
    <2>2. ASSUME c \in clQ
          PROVE  /\ msgs'[c] \in Seq(Message) /\ Len(msgs'[c]) = Len(msgs[c]) + 1
                 /\ \A i \in 1 .. Len(msgs[c]) : msgs'[c][i] = msgs[c][i]
                 /\ msgs'[c][Len(msgs[c]) + 1] = m
      <3>1. msgs'[c] = Append(msgs[c], m)
        BY <1>a, <2>1, <2>2, Zenon DEF Typed
      <3> QED
        BY <1>4, <3>1, AppendIs
    <2>6. msgs' \in [Client -> Seq(Message)] /\ \A d \in Client : d # c => msgs'[d] = msgs[d]
      <3>1. Append(msgs[c], m) \in Seq(Message)
        BY <1>4, AppendIs, Zenon
      <3> QED
        BY <1>a, <2>1, <3>1, Zenon DEF Typed
    <2>3. ChildInv(c)'
      BY <1>0, <1>4, <1>8, <2>1, Zenon DEF ChildInv
    <2>4. Receiving(c)' => Stream(c)'
      <3> SUFFICES ASSUME Receiving(c)' PROVE Stream(c)' BY Zenon
      <3>1. c \in clQ /\ Stream(c) /\ got[c] \in Seq(Nat)
        BY <1>a, <1>0, <1>8, Zenon DEF ClientInv, Receiving, Typed
      <3>2. msgs'[c] = Append(msgs[c], m) /\ sent' = sent /\ got' = got /\ cpc' = cpc
        BY <1>a, <1>0, <2>1, <3>1, Zenon DEF Typed
      <3>3. CASE child[c] = "send"
        <4>1. child'[c] = "read" /\ m = <<RESP_MT_DATA, sent[c]>>
          BY <2>1, <3>1, <3>3, Zenon
        <4>2. Blocks(got[c], msgs[c], sent[c] - 1)
          BY <3>1, <3>3, Zenon DEF Stream, Over, NumSent
        <4>3. Blocks(got[c], msgs'[c], sent[c])
          BY <1>4, <3>1, <3>2, <4>1, <4>2, OneSent, Zenon
        <4> QED
          BY <3>1, <3>2, <4>1, <4>3, Zenon DEF Stream, Over, NumSent
      <3>4. CASE child[c] # "send"
        <4>1. child'[c] = "zombie" /\ child[c] \in {"sendFailure", "sendEnd"}
          BY <2>1, <3>4, Zenon
        <4>2. Blocks(got[c], msgs[c], sent[c])
          BY <3>1, <4>1, Zenon DEF Stream, Over, NumSent
        <4>3. Final(c, m)'
          BY <1>0, <1>4, <1>8, <2>1, <3>1, <3>4 DEF Final, AllRead, Stream, ChildInv
        <4> QED
          BY <1>4, <3>1, <3>2, <4>1, <4>2, <4>3, Zenon DEF Stream, Over
      <3> QED
        BY <3>3, <3>4, Zenon
    <2>5. ClientInv(c)'
      BY <1>0, <1>4, <1>8, <2>1, <2>4, Zenon DEF ClientInv, Whole, Over
    <2> QED
      BY <1>b, <1>1, <1>2, <1>3, <2>1, <2>3, <2>5, <2>6, <1>a, Zenon DEF Typed
  <1> QED
    BY <1>5, <1>6, <1>7, Zenon DEF ChildStep

(* A client asks, receives and ends, or is killed. *)
LEMMA ClientStepKeeps ==
    ASSUME SvInv, NEW c \in Client, ClientStep(c) \/ CReceiveFails(c) \/ CKill(c)
    PROVE  SvInv'
  <1>a. Typed /\ ServedOnce /\ \A d \in Client : ChildInv(d) /\ ClientInv(d)
    BY Zenon DEF SvInv
  <1>b. SvInv' <=> Typed' /\ ServedOnce' /\ \A d \in Client : ChildInv(d)' /\ ClientInv(d)'
    BY Zenon DEF SvInv
  <1>0. UNCHANGED <<spc, sreq, child, sent, file, cut>>
    BY Zenon DEF ClientStep, CGetServer, CGetOwn, CSend, CSendFails, CRefused, CData, CEnd, CReceiveFails,
           CKill, server
  <1>1. ASSUME NEW d \in Client, d # c, msgs'[d] = msgs[d], got'[d] = got[d], cpc'[d] = cpc[d],
               d \in clQ' <=> d \in clQ
        PROVE  ChildInv(d)' /\ ClientInv(d)'
    BY <1>a, <1>0, <1>1, Untouched, Zenon
  <1>2. /\ ChildInv(c) /\ ClientInv(c) /\ msgs[c] \in Seq(Message) /\ got[c] \in Seq(Nat)
        /\ sent[c] \in Nat
    BY <1>a, Zenon DEF Typed
  <1>3. CASE CGetServer(c) \/ CGetOwn(c) \/ CKill(c)
    <2>1. /\ UNCHANGED <<reqs, msgs, got>> /\ clQ' \subseteq clQ \cup {c}
          /\ cpc' = [cpc EXCEPT ![c] = cpc'[c]]
          /\ \/ cpc[c] = "msggetServer" /\ cpc'[c] \in {"msggetOwn", "failed"} /\ clQ' = clQ
             \/ cpc[c] = "msggetOwn" /\ cpc'[c] = "msgsnd" /\ clQ' = clQ \cup {c}
             \/ cpc'[c] = "killed" /\ clQ' = clQ
      BY <1>3, <1>a, Zenon DEF CGetServer, CGetOwn, CKill, CGoto, server, Typed
    <2>2. Typed'
      BY <1>a, <1>0, <2>1, Zenon DEF Typed, ClientPC
    <2>3. ServedOnce'
      BY <1>a, <1>0, <2>1, ClientMoves, Zenon DEF Asked
    <2>4. ChildInv(c)' /\ ClientInv(c)'
      BY <1>0, <1>2, <2>1, Zenon DEF ChildInv, ClientInv, Receiving
    <2>5. ASSUME NEW d \in Client, d # c PROVE ChildInv(d)' /\ ClientInv(d)'
      BY <1>a, <1>1, <2>1, <2>5, Zenon DEF Typed
    <2> QED
      BY <1>b, <2>2, <2>3, <2>4, <2>5, Zenon
  <1>4. CASE CSend(c)
    <2>1. /\ cpc[c] = "msgsnd" /\ cpc' = [cpc EXCEPT ![c] = "first"] /\ reqs' = Append(reqs, c)
          /\ UNCHANGED <<clQ, msgs, got>>
      BY <1>4, Zenon DEF CSend, CGoto
    <2>2. /\ reqs' \in Seq(Client) /\ Len(reqs') = Len(reqs) + 1 /\ reqs'[Len(reqs) + 1] = c
          /\ \A i \in 1 .. Len(reqs) : reqs'[i] = reqs[i]
          /\ Len(reqs) \in Nat
      BY <1>a, <2>1, AppendIs DEF Typed
    <2>3. Typed' /\ cpc'[c] = "first"
      BY <1>a, <1>0, <2>1, <2>2, Zenon DEF Typed, ClientPC
    <2>4. ServedOnce'
      <3>1. /\ child[c] = "none"
            /\ \A i \in 1 .. Len(reqs) : reqs[i] # c
        BY <1>a, <2>1, Zenon DEF ServedOnce, Asked
      <3>2. Asked(c)' /\ \A d \in Client : Asked(d) => Asked(d)'
        BY <1>a, <2>1, Zenon DEF Asked, Typed
      <3>3. \A i \in 1 .. Len(reqs) : reqs[i] \in Client
        BY <1>a DEF Typed
      <3>4. \A i, k \in 1 .. Len(reqs') : reqs'[i] = reqs'[k] => i = k
        BY <1>a, <2>2, <3>1 DEF ServedOnce
      <3>5. \A i \in 1 .. Len(reqs') : reqs'[i] \in Client /\ child'[reqs'[i]] = "none" /\ Asked(reqs[i])'
        <4> SUFFICES ASSUME NEW i \in 1 .. Len(reqs')
                     PROVE  /\ reqs'[i] \in Client /\ child'[reqs'[i]] = "none"
                            /\ cpc'[reqs'[i]] \notin {"msggetServer", "msggetOwn", "msgsnd"}
          BY Zenon DEF Asked
        <4>1. CASE i \in 1 .. Len(reqs)
          <5>1. reqs'[i] = reqs[i] /\ reqs[i] \in Client /\ child[reqs[i]] = "none" /\ Asked(reqs[i])
            BY <1>a, <2>2, <3>3, <4>1, Zenon DEF ServedOnce
          <5> QED
            BY <1>0, <3>2, <5>1, Zenon DEF Asked
        <4>2. CASE i = Len(reqs) + 1
          <5>1. reqs'[i] = c
            BY <2>2, <4>2, Zenon
          <5> QED
            BY <1>0, <2>3, <3>1, <5>1, Zenon
        <4> QED
          BY <2>2, <4>1, <4>2
      <3>6. ASSUME spc' = "fork"
            PROVE  /\ \A i \in 1 .. Len(reqs') : reqs'[i] \notin sreq'
                   /\ \A d \in sreq' : child'[d] = "none" /\ Asked(d)'
        <4>1. /\ \A i \in 1 .. Len(reqs) : reqs[i] \notin sreq
              /\ \A d \in sreq : d \in Client /\ child[d] = "none" /\ Asked(d)
          BY <1>a, <1>0, <3>6, Zenon DEF ServedOnce, Typed
        <4>2. c \notin sreq
          BY <2>1, <4>1, Zenon DEF Asked
        <4>3. \A i \in 1 .. Len(reqs') : reqs'[i] \notin sreq'
          BY <1>0, <2>2, <4>1, <4>2
        <4> QED
          BY <1>0, <3>2, <4>1, <4>3, Zenon
      <3>7. \A d \in Client : ~Asked(d)' => child'[d] = "none"
        BY <1>a, <1>0, <3>2, Zenon DEF ServedOnce
      <3> QED
        BY <3>4, <3>5, <3>6, <3>7, Zenon DEF ServedOnce
    <2>5. ChildInv(c)' /\ ClientInv(c)'
      <3>1. child[c] = "none" /\ msgs[c] = <<>> /\ got[c] = <<>> /\ sent[c] = 0 /\ c \in clQ
        BY <1>a, <1>2, <2>1, Zenon DEF ServedOnce, Asked, ChildInv, ClientInv
      <3>2. Blocks(<<>>, <<>>, 0)
        BY DEF Blocks, InOrder
      <3>3. Stream(c)'
        BY <1>0, <2>1, <2>3, <3>1, <3>2, Zenon DEF Stream, Over, NumSent
      <3> QED
        BY <1>0, <2>1, <2>3, <3>1, <3>3, Zenon DEF ChildInv, ClientInv
    <2>6. ASSUME NEW d \in Client, d # c PROVE ChildInv(d)' /\ ClientInv(d)'
      BY <1>a, <1>1, <2>1, <2>6, Zenon DEF Typed
    <2> QED
      BY <1>b, <2>3, <2>4, <2>5, <2>6, Zenon
  <1>5. CASE CSendFails(c) \/ CRefused(c) \/ CReceiveFails(c)
    <2>1. /\ cpc' = [cpc EXCEPT ![c] = cpc'[c]] /\ cpc'[c] \in {"failed", "refused"}
          /\ clQ' = clQ \ {c} /\ msgs' = [msgs EXCEPT ![c] = <<>>] /\ UNCHANGED <<reqs, got>>
      <3>1. CASE CSendFails(c)
        BY <3>1, <1>a, Zenon DEF CSendFails, CGoto, removeQueue, server, Typed
      <3>2. CASE CRefused(c)
        BY <3>2, <1>a, Zenon DEF CRefused, CGoto, removeQueue, server, Typed
      <3>3. CASE CReceiveFails(c)
        BY <3>3, <1>a, Zenon DEF CReceiveFails, removeQueue, server, Typed
      <3> QED
        BY <1>5, <3>1, <3>2, <3>3, Zenon
    <2>2. Typed'
      <3>1. msgs' \in [Client -> Seq(Message)]
        BY <1>a, <2>1 DEF Typed
      <3>2. cpc' \in [Client -> ClientPC]
        BY <1>a, <2>1, Zenon DEF Typed, ClientPC
      <3> QED
        BY <1>a, <1>0, <2>1, <3>1, <3>2, Zenon DEF Typed
    <2>3. ServedOnce'
      BY <1>a, <1>0, <2>1, ClientMoves, Zenon DEF Asked
    <2>4. ChildInv(c)' /\ ClientInv(c)'
      <3>1. msgs'[c] = <<>>
        BY <1>a, <2>1, Zenon DEF Typed
      <3> QED
        BY <1>0, <1>2, <2>1, <3>1, Zenon DEF ChildInv, ClientInv, Receiving
    <2>5. ASSUME NEW d \in Client, d # c PROVE ChildInv(d)' /\ ClientInv(d)'
      BY <1>a, <1>1, <2>1, <2>5, Zenon DEF Typed
    <2> QED
      BY <1>b, <2>2, <2>3, <2>4, <2>5, Zenon
  <1>6. CASE CData(c)
    <2> DEFINE b == Head(msgs[c])
    <2>1. /\ Receiving(c) /\ msgs[c] # <<>> /\ b[1] = RESP_MT_DATA
          /\ cpc' = [cpc EXCEPT ![c] = "loop"]
          /\ got' = [got EXCEPT ![c] = Append(got[c], b[2])]
          /\ msgs' = [msgs EXCEPT ![c] = Tail(msgs[c])]
          /\ UNCHANGED <<reqs, clQ>>
      BY <1>6, Zenon DEF CData, Receiving, server
    <2>2. b \in Message /\ b[2] \in Nat
      <3>1. b \in Message
        BY <1>2, <2>1, TailIs, Zenon
      <3> QED
        BY <3>1, Zenon DEF Message
    <2>3. /\ Stream(c) /\ c \in clQ
      BY <1>2, <2>1, Zenon DEF ClientInv, Receiving
    <2>4. /\ cpc'[c] = "loop" /\ got'[c] = Append(got[c], b[2]) /\ msgs'[c] = Tail(msgs[c])
          /\ got'[c] \in Seq(Nat) /\ got'[c] # <<>> /\ msgs'[c] \in Seq(Message)
      <3>1. cpc'[c] = "loop" /\ got'[c] = Append(got[c], b[2]) /\ msgs'[c] = Tail(msgs[c])
        BY <1>a, <2>1, Zenon DEF Typed
      <3>2. Append(got[c], b[2]) \in Seq(Nat) /\ Append(got[c], b[2]) # <<>>
        BY <1>2, <2>2
      <3>3. Tail(msgs[c]) \in Seq(Message)
        BY <1>2, <2>1, TailIs, Zenon
      <3> QED
        BY <3>1, <3>2, <3>3, Zenon
    <2> HIDE DEF b
    <2>5. Typed'
      BY <1>a, <1>0, <2>1, <2>4, Zenon DEF Typed, ClientPC
    <2>6. ServedOnce'
      BY <1>a, <1>0, <2>1, ClientMoves, Zenon DEF Asked, Receiving
    <2>7. Stream(c)'
      <3>1. (child[c] = "sendEnd" => AllRead(c)) /\ (AllRead(c)' <=> AllRead(c)) /\ (Over(c)' <=> Over(c))
        BY <1>0, <2>3, Zenon DEF Stream, AllRead, Over
      <3>2. CASE ~Over(c)
        <4>1. PICK n \in Nat : n = NumSent(c)
          BY <1>2 DEF NumSent, ChildInv
        <4>2. Blocks(got[c], msgs[c], n)
          BY <2>3, <3>2, <4>1, Zenon DEF Stream
        <4>3. b = <<RESP_MT_DATA, Len(got[c]) + 1>> /\ Blocks(Append(got[c], Len(got[c]) + 1), Tail(msgs[c]), n)
          BY <1>2, <2>1, <4>2, OneReceived, Zenon DEF b
        <4>4. b[2] = Len(got[c]) + 1
          BY <4>3, Zenon
        <4>5. Blocks(got'[c], msgs'[c], n) /\ NumSent(c)' = n
          BY <1>0, <2>4, <4>1, <4>3, <4>4, Zenon DEF NumSent
        <4> QED
          BY <1>0, <2>4, <3>1, <3>2, <4>5, Zenon DEF Stream
      <3>3. CASE Over(c)
        <4>1. PICK q \in Seq(Message), m \in Message :
                  msgs[c] = Append(q, m) /\ Blocks(got[c], q, sent[c]) /\ Final(c, m)
          BY <2>3, <3>3, Zenon DEF Stream
        <4>2. q # <<>>
          <5>1. m[1] # RESP_MT_DATA
            BY <4>1 DEF Final, RESP_MT_DATA, RESP_MT_FAILURE, RESP_MT_END
          <5> QED
            BY <2>1, <4>1, <5>1, HeadAppend DEF b
        <4>3. b = Head(q) /\ Tail(msgs[c]) = Append(Tail(q), m) /\ Tail(q) \in Seq(Message)
          BY <4>1, <4>2, HeadAppend, TailIs DEF b
        <4>4. b = <<RESP_MT_DATA, Len(got[c]) + 1>> /\ Blocks(Append(got[c], Len(got[c]) + 1), Tail(q), sent[c])
          BY <1>2, <4>1, <4>2, <4>3, OneReceived, Zenon
        <4>5. b[2] = Len(got[c]) + 1
          BY <4>4, Zenon
        <4>6. /\ msgs'[c] = Append(Tail(q), m) /\ Blocks(got'[c], Tail(q), sent'[c])
              /\ Final(c, m)'
          BY <1>0, <2>4, <3>1, <4>1, <4>3, <4>4, <4>5, Zenon DEF Final
        <4> QED
          BY <1>0, <2>4, <3>1, <3>3, <4>3, <4>6, Zenon DEF Stream
      <3> QED
        BY <3>2, <3>3, Zenon
    <2>8. ChildInv(c)' /\ ClientInv(c)'
      BY <1>0, <1>2, <2>1, <2>3, <2>4, <2>7, Zenon DEF ChildInv, ClientInv
    <2>9. ASSUME NEW d \in Client, d # c PROVE ChildInv(d)' /\ ClientInv(d)'
      BY <1>a, <1>1, <2>1, <2>9, Zenon DEF Typed
    <2> QED
      BY <1>b, <2>5, <2>6, <2>8, <2>9, Zenon
  <1>7. CASE CEnd(c)
    <2>1. /\ msgs[c] # <<>> /\ Receiving(c) /\ Head(msgs[c])[1] # RESP_MT_DATA
          /\ cpc[c] = "first" => Head(msgs[c])[1] = RESP_MT_END
          /\ cpc' = [cpc EXCEPT ![c] = "ok"] /\ clQ' = clQ \ {c}
          /\ msgs' = [msgs EXCEPT ![c] = <<>>] /\ UNCHANGED <<reqs, got>>
      BY <1>7 DEF CEnd, removeQueue, Receiving, server, RESP_MT_DATA, RESP_MT_END
    <2>2. /\ Stream(c) /\ cpc'[c] = "ok" /\ msgs'[c] = <<>>
      BY <1>a, <1>2, <2>1, Zenon DEF ClientInv, Typed
    <2>3. Typed'
      BY <1>a, <1>0, <2>1 DEF Typed, ClientPC
    <2>4. ServedOnce'
      BY <1>a, <1>0, <2>1, ClientMoves, Zenon DEF Asked, Receiving
    <2>5. Over(c)
      <3>1. SUFFICES ASSUME ~Over(c) PROVE FALSE
        BY Zenon
      <3>2. PICK n \in Nat : n = NumSent(c)
        BY <1>2 DEF NumSent, ChildInv
      <3>3. Blocks(got[c], msgs[c], n)
        BY <2>2, <3>1, <3>2, Zenon DEF Stream
      <3>4. Head(msgs[c]) = <<RESP_MT_DATA, Len(got[c]) + 1>>
        BY <1>2, <2>1, <3>3, OneReceived, Zenon
      <3> QED
        BY <2>1, <3>4
    <2>6. PICK q \in Seq(Message), m \in Message :
              msgs[c] = Append(q, m) /\ Blocks(got[c], q, sent[c]) /\ Final(c, m)
      BY <2>2, <2>5, Zenon DEF Stream
    <2>7. q = <<>>
      <3>1. SUFFICES ASSUME q # <<>> PROVE FALSE
        BY Zenon
      <3>2. Head(q) = <<RESP_MT_DATA, Len(got[c]) + 1>>
        BY <1>2, <2>6, <3>1, OneReceived, Zenon
      <3>3. Head(msgs[c]) = Head(q)
        BY <2>6, <3>1, HeadAppend, Zenon
      <3> QED
        BY <2>1, <3>2, <3>3
    <2>8. PICK g \in Seq(Nat) : g = got[c]
      BY <1>2, Zenon
    <2>9. InOrder(g) /\ Len(g) = sent[c]
      <3>1. Blocks(g, <<>>, sent[c])
        BY <2>6, <2>7, <2>8, Zenon
      <3>2. InOrder(g) /\ Len(g) + Len(<<>>) = sent[c]
        BY <3>1, Zenon DEF Blocks
      <3> QED
        BY <3>2
    <2>10. Head(msgs[c]) = m
      BY <2>6, <2>7, HeadAppend
    <2>11. m[1] = RESP_MT_END /\ AllRead(c)
      <3>1. ASSUME m[1] = RESP_MT_FAILURE, sent[c] = 0 PROVE FALSE
        <4>1. g = <<>>
          BY <2>9, <3>1
        <4>2. cpc[c] = "first"
          BY <2>2, <2>8, <4>1, Zenon DEF Stream
        <4> QED
          BY <2>1, <2>10, <3>1, <4>2 DEF RESP_MT_FAILURE, RESP_MT_END
      <3> QED
        BY <2>6, <3>1, Zenon DEF Final
    <2>12. Whole(c)'
      <3>1. Over(c)' /\ file'[c] # Unreadable /\ InOrder(got'[c])
        BY <1>0, <2>1, <2>5, <2>8, <2>9, <2>11, FileAssumption, Zenon DEF Over, AllRead
      <3>2. c \notin cut' => Len(got'[c]) = file'[c]
        BY <1>0, <2>1, <2>8, <2>9, <2>11, Zenon DEF AllRead
      <3> QED
        BY <3>1, <3>2, Zenon DEF Whole
    <2>13. ChildInv(c)' /\ ClientInv(c)'
      BY <1>0, <1>2, <2>1, <2>2, <2>12, Zenon DEF ChildInv, ClientInv, Receiving
    <2>14. ASSUME NEW d \in Client, d # c PROVE ChildInv(d)' /\ ClientInv(d)'
      BY <1>a, <1>1, <2>1, <2>14, Zenon DEF Typed
    <2> QED
      BY <1>b, <2>3, <2>4, <2>13, <2>14, Zenon
  <1> QED
    BY <1>3, <1>4, <1>5, <1>6, <1>7, Zenon DEF ClientStep

(* Every step keeps SvInv. *)
LEMMA SvNext == SvInv /\ [Next]_vars => SvInv'
  <1> SUFFICES ASSUME SvInv, [Next]_vars PROVE SvInv'
    BY Zenon
  <1>1. CASE MainStep \/ SForkFails \/ Deliver \/ grimReaperReturns
    BY <1>1, ServerStep, Zenon
  <1>2. ASSUME NEW c \in Client, ClientStep(c) \/ CReceiveFails(c) \/ CKill(c) PROVE SvInv'
    BY <1>2, ClientStepKeeps, Zenon
  <1>4. ASSUME NEW c \in Client, ChildStep(c) \/ KReadFails(c) \/ grimReaper(c) PROVE SvInv'
    BY <1>4, ServeStep, Zenon
  <1>3. CASE UNCHANGED vars
    BY <1>3 DEF vars, SvInv, Typed, ServedOnce, Asked, ChildInv, ClientInv, Receiving, Stream, Over, NumSent,
                AllRead, Final, Whole
  <1> QED
    BY <1>1, <1>2, <1>3, <1>4, Zenon DEF Next, HandlerStep

(* SvInv holds in every reachable state. *)
LEMMA SvAlways == Spec => []SvInv
  BY SvInit, SvNext, PTL DEF Spec

(* A client that reports success has every block of its file, in order,    *)
(* unless read() failed in its child: serveRequest() sends one message for *)
(* each block and the end message behind them, and no other process sends  *)
(* to the client's queue, whatever forks, signals and kills come between.  *)
THEOREM WholeFileOnSuccess == Spec => []SuccessIsWholeFile
  <1>1. SvInv => SuccessIsWholeFile
    BY Zenon DEF SvInv, ClientInv, Whole, InOrder, SuccessIsWholeFile
  <1> QED
    BY <1>1, SvAlways, PTL

=============================================================================
