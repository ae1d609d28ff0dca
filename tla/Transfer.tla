------------------------------ MODULE Transfer ------------------------------
(***************************************************************************)
(* What a transfer promises, whatever moves the bytes: the input arrives   *)
(* piece by piece and in order, success is reported only when all of it    *)
(* has arrived, and after a failure, which may come with a last piece,     *)
(* nothing arrives any more.                                               *)
(***************************************************************************)
EXTENDS Naturals, Sequences

CONSTANT Input

VARIABLES delivered, outcome

Init == delivered = <<>> /\ outcome = "running"

Extend == \E n \in Len(delivered) .. Len(Input) : delivered' = SubSeq(Input, 1, n)

Deliver == outcome = "running" /\ Extend /\ outcome' = "running"

Complete == /\ outcome = "running" /\ delivered = Input
            /\ outcome' = "complete" /\ delivered' = delivered

Fail == outcome = "running" /\ Extend /\ outcome' = "failed"

Next == Deliver \/ Complete \/ Fail

Safety == Init /\ [][Next]_<<delivered, outcome>>
=============================================================================
