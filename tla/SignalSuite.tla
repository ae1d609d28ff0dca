---------------------------- MODULE SignalSuite -----------------------------
(***************************************************************************)
(* The programs that live by signals, for every number of children, bytes  *)
(* of the pipe, signals, messages and seconds of sleep.                    *)
(*                                                                         *)
(* Each program is followed by its inductive invariant and by the lemmas   *)
(* that it holds at the start and that every step keeps it.  Then come the *)
(* system in which one of the programs is run, its properties, and the     *)
(* theorems: a step of the system is a step of the program that is run.    *)
(*                                                                         *)
(* In the run there are three children, so that two can end while a handler *)
(* is busy with the first; a pipe of two bytes and three signals, so that  *)
(* it fills up; three messages, so that one can come before, in and after  *)
(* the draining of another; two intervals; three signals for handlers that *)
(* interrupt each other.                                                   *)
(***************************************************************************)
EXTENDS SigParams, Sequences, TLAPS

VARIABLES pc, pend, kid, kpc

-----------------------------------------------------------------------------
VARIABLES tprog, ignored, sigs, stack, stopped, tty, userTermios, wish, posted, bare, overlap

TT == INSTANCE TtyStop

(* test_tty_functions and handling_SIGTSTP.  The stack of handlers: each   *)
(* signal has at most one.                                                 *)
Mode == {"u1", "u2", "own", "none"}
AtEnd == {"giveBack", "_exit"}
AtStop == {"ours", "give", "default", "raise", "unblock", "reblock", "again", "reread", "take"}
HandlerCall == [sig : TT!Sig, ours : Mode, at : AtEnd \cup AtStop]

(* The program has given the terminal back, in the handler of SIGTSTP. *)
AtGiven == {"default", "raise", "unblock", "reblock", "again", "reread"}

TTTyped ==
    /\ tprog \in {"SIGTSTP", "cbreak", "raw"} /\ ignored \in SUBSET {"INT", "TSTP"}
    /\ pc \in {"save", "set", "catchInt", "catchTstp", "catchTerm", "loop", "restore", "end", "exit"}
    /\ sigs \in [TT!Sig -> {"ignore", "default", "handler"}]
    /\ stack \in Seq(HandlerCall)
    /\ tty \in Mode /\ userTermios \in Mode \ {"own"} /\ wish \in {"u1", "u2"}
    /\ tprog = "SIGTSTP" => pc \in {"catchTstp", "loop", "exit"}
    /\ tprog = "raw" => pc \notin {"catchInt", "catchTstp"}

Calls == DOMAIN stack

StackInv ==
    /\ \A i, k \in Calls : stack[i].sig = stack[k].sig => i = k
    /\ \A i \in Calls : stack[i].at \in (IF stack[i].sig = "TSTP" THEN AtStop ELSE AtEnd)
    /\ \A i \in Calls : stack[i].sig = "TSTP" =>
         sigs["TSTP"] = IF stack[i].at \in {"raise", "unblock", "reblock", "again"} THEN "default"
                        ELSE "handler"

(* What is caught when, if no handler runs. *)
Catching ==
    /\ \A s \in ignored : sigs[s] = "ignore"
    /\ pc \in {"save", "set"} => stack = <<>> /\ \A s \in TT!Sig : sigs[s] # "handler"
    /\ tprog = "SIGTSTP" => /\ sigs["INT"] # "handler" /\ sigs["TERM"] # "handler"
                            /\ \A i \in Calls : stack[i].sig = "TSTP" /\ stack[i].at \notin
                                 {"ours", "give", "reread", "take"}
    /\ \A i \in Calls : stack[i].sig \notin ignored
    /\ "TSTP" \notin ignored /\ tprog # "raw" /\ pc \in {"catchTerm", "loop", "restore", "end"} =>
         sigs["TSTP"] = "handler" \/ \E i \in Calls : stack[i].sig = "TSTP"

(* The terminal has the program's mode while main() goes on. *)
ModeInv ==
    /\ tprog = "SIGTSTP" => tty = wish
    /\ pc = "save" => tty # "own"
    /\ tprog # "SIGTSTP" /\ ~bare /\ pc \in {"catchInt", "catchTstp", "catchTerm", "loop", "restore"} =>
         /\ stack = <<>> => tty = "own"
         /\ Len(stack) = 1 /\ stack[1].sig = "TSTP" =>
              IF stack[1].at = "ours" THEN tty = "own" ELSE stack[1].ours = "own"

(* It has the user's when a handler has given it back, or main() has. *)
UserInv ==
    /\ tprog # "SIGTSTP" => \A i \in Calls : stack[i].at \in AtGiven => tty # "own"
    /\ \A i \in Calls : stack[i].at = "_exit" =>
         /\ tty # "own"
         /\ \A k \in Calls : k > i /\ stack[k].sig = "TSTP" => stack[k].ours # "own"
    /\ pc = "end" => tty # "own" /\ \A k \in Calls : stack[k].ours # "own"
    /\ stopped /\ ~bare => \E i \in Calls : stack[i].at = "reblock"
    /\ pc = "exit" => ~stopped /\ (bare \/ tty # "own")

(* It has the settings the user chose last, unless handlers overlap. *)
WishInv ==
    ~bare /\ ~overlap =>
        /\ Len(stack) <= 1
        /\ pc \in {"save", "end", "exit"} => tty = wish
        /\ pc = "end" => stack = <<>>
        /\ \A i \in Calls : stack[i].at \in AtGiven \cup {"_exit"} => tty = wish
        /\ tprog # "SIGTSTP" /\ pc # "save" /\ (\A i \in Calls : stack[i].at \notin {"reblock", "again", "reread"}) =>
             userTermios = wish

TTInv == TTTyped /\ StackInv /\ Catching /\ ModeInv /\ UserInv /\ WishInv

(* A function on 1 .. n is a sequence. *)
LEMMA FunctionIsSeq ==
    ASSUME NEW S, NEW n \in Nat, NEW t \in [1 .. n -> S]
    PROVE  t \in Seq(S) /\ Len(t) = n /\ DOMAIN t = 1 .. n
  OBVIOUS

(* The running handler goes on: only its own place on the stack changes. *)
LEMMA GotoFacts ==
    ASSUME NEW s \in Seq(HandlerCall), s # <<>>, NEW a \in AtEnd \cup AtStop, NEW t,
           t = [s EXCEPT ![Len(s)].at = a]
    PROVE  /\ t \in Seq(HandlerCall) /\ Len(t) = Len(s) /\ DOMAIN t = DOMAIN s /\ t # <<>>
           /\ \A i \in DOMAIN s : /\ t[i].sig = s[i].sig /\ t[i].ours = s[i].ours
                                  /\ t[i].at = IF i = Len(s) THEN a ELSE s[i].at
<1> DEFINE n == Len(s)
           f == [s[n] EXCEPT !.at = a]
<1>1. n \in Nat /\ n > 0 /\ s \in [1 .. n -> HandlerCall] /\ DOMAIN s = 1 .. n
  OBVIOUS
<1>2. f \in HandlerCall /\ f.at = a /\ f.sig = s[n].sig /\ f.ours = s[n].ours
  BY <1>1 DEF HandlerCall
<1> HIDE DEF f
<1>3. t = [i \in 1 .. n |-> IF i = n THEN f ELSE s[i]]
  BY <1>1, Zenon DEF f
<1>4. t \in [1 .. n -> HandlerCall]
  BY <1>1, <1>2, <1>3, Zenon
<1>5. t \in Seq(HandlerCall) /\ Len(t) = n /\ DOMAIN t = 1 .. n
  BY ONLY <1>1, <1>4, FunctionIsSeq, Zenon
<1>6. t # <<>>
  BY <1>1, <1>5
<1> QED BY <1>1, <1>2, <1>3, <1>5, <1>6, Zenon

(* The running handler returns. *)
LEMMA ReturnFacts ==
    ASSUME NEW s \in Seq(HandlerCall), s # <<>>, NEW t, t = SubSeq(s, 1, Len(s) - 1)
    PROVE  /\ t \in Seq(HandlerCall) /\ Len(t) = Len(s) - 1 /\ DOMAIN t = 1 .. Len(s) - 1
           /\ \A i \in DOMAIN t : i \in DOMAIN s /\ t[i] = s[i] /\ i # Len(s)
           /\ \A i \in DOMAIN s : i \in DOMAIN t \/ i = Len(s)
<1>1. Len(s) \in Nat /\ Len(s) > 0 /\ s \in [1 .. Len(s) -> HandlerCall] /\ DOMAIN s = 1 .. Len(s)
  OBVIOUS
<1>2. t \in Seq(HandlerCall) /\ Len(t) = Len(s) - 1
  BY <1>1
<1>3. DOMAIN t = 1 .. Len(s) - 1 /\ \A i \in 1 .. Len(s) - 1 : t[i] = s[i]
  BY <1>1, <1>2
<1> QED BY <1>1, <1>2, <1>3

(* A handler is called. *)
LEMMA CallFacts ==
    ASSUME NEW s \in Seq(HandlerCall), NEW e \in HandlerCall, NEW t, t = Append(s, e)
    PROVE  /\ t \in Seq(HandlerCall) /\ Len(t) = Len(s) + 1 /\ t # <<>>
           /\ \A i \in DOMAIN s : i \in DOMAIN t /\ t[i] = s[i] /\ i < Len(t)
           /\ \A i \in DOMAIN t : i \in DOMAIN s \/ i = Len(t)
           /\ Len(t) \in DOMAIN t /\ t[Len(t)] = e
  OBVIOUS

(* Where the running handler is tells which signal's it is. *)
LEMMA TopFacts ==
    ASSUME TTInv, NEW a, TT!InHandler(a)
    PROVE  /\ stack # <<>> /\ Len(stack) \in Calls /\ stack[Len(stack)].at = a
           /\ Calls = 1 .. Len(stack) /\ Len(stack) \in Nat
           /\ a \in AtStop => stack[Len(stack)].sig = "TSTP"
           /\ a \in AtEnd => stack[Len(stack)].sig # "TSTP"
           /\ ~stopped /\ pc # "exit"
<1>1. stack \in Seq(HandlerCall) /\ stack # <<>> /\ stack[Len(stack)].at = a /\ ~stopped /\ pc # "exit"
  BY Zenon DEF TT!InHandler, TT!Top, TT!Running, TTInv, TTTyped
<1>2. Len(stack) \in Calls /\ Calls = 1 .. Len(stack) /\ Len(stack) \in Nat
  BY <1>1 DEF Calls
<1> QED BY <1>1, <1>2, Zenon DEF TTInv, StackInv, AtStop, AtEnd

(* The program starts with no handler and the user's settings. *)
LEMMA TTStart == TT!Init => TTInv
<1> SUFFICES ASSUME TT!Init PROVE TTInv
  BY Zenon
<1>1. stack = <<>> /\ Calls = {} /\ Len(stack) = 0 /\ stack \in Seq(HandlerCall)
  BY DEF TT!Init, Calls
<1>2. TTTyped
  BY <1>1, Zenon DEF TT!Init, TTTyped, Mode, TT!Sig
<1>3. StackInv /\ Catching
  BY <1>1, Zenon DEF TT!Init, StackInv, Catching, TT!Sig
<1>4. ModeInv /\ UserInv /\ WishInv
  BY <1>1 DEF TT!Init, ModeInv, UserInv, WishInv
<1> QED BY <1>2, <1>3, <1>4, Zenon DEF TTInv

(* main() goes on when no handler runs: it has its own mode from the       *)
(* setting on, and the user's again at the end.                            *)
LEMMA TTMain == ASSUME TTInv, TT!MainStep \/ TT!Quit PROVE TTInv'
<1>1. stack = <<>> /\ Calls = {} /\ Len(stack) = 0 /\ stack' = <<>> /\ Calls' = {} /\ Len(stack') = 0
  BY DEF TT!MainStep, TT!Save, TT!Set, TT!CatchInt, TT!CatchTstp, TT!CatchTerm, TT!Quit, TT!Restore,
         TT!Exit, TT!Main, Calls
<1> USE DEF TT!Main, TT!Running, TT!setup, TT!outside, TT!history, TT!Catch
<1>2. TTTyped'
  <2>1. sigs' \in [TT!Sig -> {"ignore", "default", "handler"}]
    BY Zenon DEF TTInv, TTTyped, TT!MainStep, TT!Save, TT!Set, TT!CatchInt, TT!CatchTstp, TT!CatchTerm,
                 TT!Quit, TT!Restore, TT!Exit, TT!Sig
  <2>2. tty' \in Mode /\ userTermios' \in Mode \ {"own"}
    BY <1>1 DEF TTInv, TTTyped, TT!MainStep, TT!Save, TT!Set, TT!CatchInt, TT!CatchTstp, TT!CatchTerm,
                TT!Quit, TT!Restore, TT!Exit, ModeInv, Mode
  <2>3. /\ UNCHANGED <<tprog, ignored, wish>>
        /\ pc' \in {"save", "set", "catchInt", "catchTstp", "catchTerm", "loop", "restore", "end", "exit"}
        /\ tprog = "SIGTSTP" => pc' \in {"catchTstp", "loop", "exit"}
        /\ tprog = "raw" => pc' \notin {"catchInt", "catchTstp"}
    BY Zenon DEF TTInv, TTTyped, TT!MainStep, TT!Save, TT!Set, TT!CatchInt, TT!CatchTstp, TT!CatchTerm,
                 TT!Quit, TT!Restore, TT!Exit
  <2>4. stack' \in Seq(HandlerCall)
    BY <1>1
  <2> QED BY <2>1, <2>2, <2>3, <2>4, Zenon DEF TTInv, TTTyped
<1>3. StackInv'
  BY <1>1, Zenon DEF StackInv
<1>4. Catching'
  BY <1>1, Zenon DEF TTInv, TTTyped, Catching, TT!MainStep, TT!Save, TT!Set, TT!CatchInt, TT!CatchTstp,
              TT!CatchTerm, TT!Quit, TT!Restore, TT!Exit, TT!Sig
<1>5. ModeInv'
  BY <1>1 DEF TTInv, TTTyped, ModeInv, TT!MainStep, TT!Save, TT!Set, TT!CatchInt, TT!CatchTstp,
              TT!CatchTerm, TT!Quit, TT!Restore, TT!Exit
<1>6. UserInv'
  BY <1>1 DEF TTInv, TTTyped, UserInv, TT!MainStep, TT!Save, TT!Set, TT!CatchInt, TT!CatchTstp,
              TT!CatchTerm, TT!Quit, TT!Restore, TT!Exit
<1>7. WishInv'
  BY <1>1 DEF TTInv, TTTyped, WishInv, TT!MainStep, TT!Save, TT!Set, TT!CatchInt, TT!CatchTstp,
              TT!CatchTerm, TT!Quit, TT!Restore, TT!Exit
<1> QED BY <1>2, <1>3, <1>4, <1>5, <1>6, <1>7, Zenon DEF TTInv

(* What is left as it was when the running handler goes from a to b. *)
Moved(a, b) ==
    /\ stack # <<>> /\ Len(stack) \in Calls /\ stack[Len(stack)].at = a
    /\ Calls = 1 .. Len(stack) /\ Len(stack) \in Nat
    /\ a \in AtStop => stack[Len(stack)].sig = "TSTP"
    /\ a \in AtEnd => stack[Len(stack)].sig # "TSTP"
    /\ ~stopped /\ pc # "exit"
    /\ stack' \in Seq(HandlerCall) /\ Calls' = Calls /\ Len(stack') = Len(stack) /\ stack' # <<>>
    /\ \A i \in Calls : /\ stack'[i].sig = stack[i].sig
                        /\ stack'[i].at = IF i = Len(stack) THEN b ELSE stack[i].at

SameOurs == \A i \in Calls : stack'[i].ours = stack[i].ours

(* One step of the running handler. *)
LEMMA TTGoto ==
    ASSUME TTInv, NEW a, NEW b \in AtEnd \cup AtStop, TT!InHandler(a), TT!Goto(b)
    PROVE  Moved(a, b) /\ SameOurs
<1>1. stack \in Seq(HandlerCall) /\ stack # <<>>
  BY TopFacts, Zenon DEF TTInv, TTTyped
<1>2. stack' = [stack EXCEPT ![Len(stack)].at = b]
  BY Zenon DEF TT!Goto
<1> QED BY <1>1, <1>2, TopFacts, GotoFacts DEF Moved, SameOurs, Calls

(* The handlers of SIGINT and SIGTERM, and tstpHandler() when it gives the *)
(* terminal back.                                                          *)
LEMMA TTGives == ASSUME TTInv, TT!GiveBack \/ TT!Give PROVE TTInv'
<1>1. PICK a \in {"giveBack", "give"}, b \in {"_exit", "default"} :
        Moved(a, b) /\ SameOurs /\ (a = "give" <=> b = "default")
  BY TTGoto, Zenon DEF TT!GiveBack, TT!Give, AtEnd, AtStop
<1>2. /\ UNCHANGED <<pc, tprog, ignored, sigs, stopped, userTermios, wish, bare, overlap>>
      /\ tty' = userTermios
  BY Zenon DEF TT!GiveBack, TT!Give, TT!setup, TT!outside, TT!history
<1>3. TTTyped'
  BY <1>1, <1>2, Zenon DEF TTInv, TTTyped, Moved
<1>4. StackInv'
  BY <1>1, <1>2 DEF TTInv, StackInv, Moved, AtEnd, AtStop
<1>5. tprog # "SIGTSTP" /\ pc # "save"
  BY <1>1, Zenon DEF TTInv, Catching, Moved, AtEnd, AtStop
<1>6. Catching'
  BY <1>1, <1>2, <1>5 DEF TTInv, Catching, Moved
<1>7. ModeInv'
  BY <1>1, <1>2, <1>5 DEF TTInv, ModeInv, Moved, SameOurs
<1>8. UserInv'
  BY <1>1, <1>2, <1>5 DEF TTInv, TTTyped, UserInv, Moved, SameOurs, AtGiven
<1>9. WishInv'
  BY <1>1, <1>2, <1>5 DEF TTInv, WishInv, Moved, AtGiven
<1> QED BY <1>3, <1>4, <1>6, <1>7, <1>8, <1>9 DEF TTInv

(* tstpHandler() on its way to the stop and back; the terminal is the      *)
(* user's.                                                                 *)
StopSteps == {<<"default", "raise">>, <<"raise", "unblock">>, <<"unblock", "reblock">>, <<"reblock", "again">>}

(* The settings do not change on this way. *)
LEMMA TTStops == ASSUME TTInv, TT!Default \/ TT!Raise \/ TT!Unblock \/ TT!Reblock PROVE TTInv'
<1>1. PICK a \in AtStop, b \in AtStop :
        /\ Moved(a, b) /\ SameOurs /\ <<a, b>> \in StopSteps
        /\ sigs' = IF b = "raise" THEN [sigs EXCEPT !["TSTP"] = "default"] ELSE sigs
        /\ b = "reblock" \/ UNCHANGED stopped
  BY TTGoto, Zenon DEF TT!Default, TT!Raise, TT!Unblock, TT!Reblock, AtStop, StopSteps
<1>2. UNCHANGED <<pc, tprog, ignored, tty, userTermios, wish, bare, overlap>>
  BY Zenon DEF TT!Default, TT!Raise, TT!Unblock, TT!Reblock, TT!setup, TT!outside, TT!history
<1>3. TTTyped'
  BY <1>1, <1>2, Zenon DEF TTInv, TTTyped, Moved, TT!Sig
<1>4. StackInv'
  BY <1>1, <1>2 DEF TTInv, TTTyped, StackInv, Moved, AtEnd, AtStop, StopSteps, TT!Sig
<1>5. Catching'
  BY <1>1, <1>2 DEF TTInv, TTTyped, Catching, Moved, AtStop, StopSteps, TT!Sig
<1>6. ModeInv'
  BY <1>1, <1>2 DEF TTInv, ModeInv, Moved, SameOurs, AtStop, StopSteps
<1>7. UserInv'
  BY <1>1, <1>2 DEF TTInv, UserInv, Moved, SameOurs, AtGiven, AtStop, StopSteps
<1>8. WishInv'
  BY <1>1, <1>2, Zenon DEF TTInv, WishInv, Moved, AtGiven, AtStop, StopSteps
<1> QED BY <1>3, <1>4, <1>5, <1>6, <1>7, <1>8, Zenon DEF TTInv

(* It reads the user's settings, which may be new ones. *)
LEMMA TTReread == ASSUME TTInv, TT!Reread PROVE TTInv'
<1>1. Moved("reread", "take") /\ SameOurs
  BY TTGoto, Zenon DEF TT!Reread, AtEnd, AtStop
<1>2. UNCHANGED <<pc, tprog, ignored, sigs, stopped, tty, wish, bare, overlap>> /\ userTermios' = tty
  BY Zenon DEF TT!Reread, TT!setup, TT!outside, TT!history
<1>3. tprog # "SIGTSTP" /\ pc # "save" /\ tty # "own"
  BY <1>1, Zenon DEF TTInv, Catching, UserInv, Moved, AtGiven
<1>4. TTTyped'
  BY <1>1, <1>2, <1>3, Zenon DEF TTInv, TTTyped, Moved
<1>5. StackInv'
  BY <1>1, <1>2 DEF TTInv, StackInv, Moved, AtEnd, AtStop
<1>6. Catching'
  BY <1>1, <1>2, <1>3, Zenon DEF TTInv, Catching, Moved
<1>7. ModeInv'
  BY <1>1, <1>2, <1>3 DEF TTInv, ModeInv, Moved, SameOurs
<1>8. UserInv'
  BY <1>1, <1>2, <1>3 DEF TTInv, UserInv, Moved, SameOurs, AtGiven
<1>9. WishInv'
  BY <1>1, <1>2, <1>3 DEF TTInv, WishInv, Moved, AtGiven
<1> QED BY <1>4, <1>5, <1>6, <1>7, <1>8, <1>9 DEF TTInv

(* It reads the program's own settings, to set them again. *)
LEMMA TTOurs == ASSUME TTInv, TT!Ours PROVE TTInv'
<1>1. stack \in Seq(HandlerCall) /\ tty \in Mode
  BY Zenon DEF TTInv, TTTyped
<1>2. stack' = [stack EXCEPT ![Len(stack)].at = "give", ![Len(stack)].ours = tty]
  BY Zenon DEF TT!Ours
<1>3. /\ Moved("ours", "give")
      /\ \A i \in Calls : stack'[i].ours = IF i = Len(stack) THEN tty ELSE stack[i].ours
  <2>1. TT!InHandler("ours") /\ "give" \in AtEnd \cup AtStop
    BY Zenon DEF TT!Ours, AtStop
  <2>2. stack # <<>>
    BY <2>1, TopFacts, Zenon
  <2>3. /\ stack' \in Seq(HandlerCall) /\ Len(stack') = Len(stack) /\ DOMAIN stack' = DOMAIN stack
        /\ stack' # <<>>
        /\ \A i \in DOMAIN stack : /\ stack'[i].sig = stack[i].sig
                                   /\ stack'[i].ours = IF i = Len(stack) THEN tty ELSE stack[i].ours
                                   /\ stack'[i].at = IF i = Len(stack) THEN "give" ELSE stack[i].at
    <3> DEFINE n == Len(stack)
               g == [stack[n] EXCEPT !.at = "give"]
               f == [g EXCEPT !.ours = tty]
    <3>1. n \in Nat /\ n > 0 /\ stack \in [1 .. n -> HandlerCall] /\ DOMAIN stack = 1 .. n
      BY <1>1, <2>2
    <3>2. g \in HandlerCall /\ g.at = "give" /\ g.sig = stack[n].sig
      BY <2>1, <3>1 DEF HandlerCall
    <3>3. stack' = [i \in 1 .. n |-> IF i = n THEN f ELSE stack[i]]
      BY <1>2, <3>1, Zenon
    <3> HIDE DEF g
    <3>4. f \in HandlerCall /\ f.at = "give" /\ f.sig = stack[n].sig /\ f.ours = tty
      BY <1>1, <3>2 DEF HandlerCall
    <3> HIDE DEF f
    <3>5. stack' \in [1 .. n -> HandlerCall]
      BY <3>1, <3>3, <3>4, Zenon
    <3>6. stack' \in Seq(HandlerCall) /\ Len(stack') = n /\ DOMAIN stack' = 1 .. n
      BY ONLY <3>1, <3>5, FunctionIsSeq
    <3>7. stack' # <<>>
      BY <3>1, <3>6
    <3> QED BY <3>1, <3>3, <3>4, <3>6, <3>7, Zenon
  <2>4. /\ Len(stack) \in Calls /\ stack[Len(stack)].at = "ours"
        /\ Calls = 1 .. Len(stack) /\ Len(stack) \in Nat
        /\ stack[Len(stack)].sig = "TSTP" /\ ~stopped /\ pc # "exit"
    BY <2>1, TopFacts, Zenon DEF AtStop
  <2> QED BY <2>2, <2>3, <2>4, Zenon DEF Moved, Calls, AtEnd
<1>4. UNCHANGED <<pc, tprog, ignored, sigs, stopped, tty, userTermios, wish, bare, overlap>>
  BY Zenon DEF TT!Ours, TT!setup, TT!outside, TT!history
<1>5. tprog # "SIGTSTP"
  BY <1>3, Zenon DEF TTInv, Catching, Moved
<1>6. TTTyped'
  BY <1>3, <1>4, Zenon DEF TTInv, TTTyped, Moved
<1>7. StackInv'
  BY <1>3, <1>4 DEF TTInv, StackInv, Moved, AtEnd, AtStop
<1>8. Catching'
  BY <1>3, <1>4, <1>5 DEF TTInv, Catching, Moved
<1>9. ModeInv'
  BY <1>3, <1>4, <1>5 DEF TTInv, ModeInv, Moved
<1>10. UserInv'
  BY <1>3, <1>4, <1>5 DEF TTInv, UserInv, Moved, AtGiven
<1>11. WishInv'
  BY <1>3, <1>4, <1>5 DEF TTInv, WishInv, Moved, AtGiven
<1> QED BY <1>6, <1>7, <1>8, <1>9, <1>10, <1>11, Zenon DEF TTInv

(* When tstpHandler() returns, no other call of it is on the stack. *)
Popped(a) ==
    /\ stack # <<>> /\ Len(stack) \in Calls /\ stack[Len(stack)].at = a /\ stack[Len(stack)].sig = "TSTP"
    /\ Calls = 1 .. Len(stack) /\ Len(stack) \in Nat /\ stack[Len(stack)].ours \in Mode
    /\ ~stopped /\ pc # "exit"
    /\ stack' \in Seq(HandlerCall) /\ Len(stack') = Len(stack) - 1 /\ Calls' = 1 .. Len(stack) - 1
    /\ stack' = <<>> <=> Len(stack) = 1
    /\ \A i \in Calls' : i \in Calls /\ i < Len(stack) /\ stack'[i] = stack[i] /\ stack'[i].sig # "TSTP"

(* The return of tstpHandler(). *)
LEMMA TTReturn ==
    ASSUME TTInv, NEW a \in AtStop, TT!InHandler(a), TT!Return
    PROVE  Popped(a)
<1>1. /\ stack # <<>> /\ Len(stack) \in Calls /\ stack[Len(stack)].at = a /\ stack[Len(stack)].sig = "TSTP"
      /\ Calls = 1 .. Len(stack) /\ Len(stack) \in Nat /\ ~stopped /\ pc # "exit"
  BY TopFacts, Zenon
<1>2. stack \in Seq(HandlerCall) /\ stack' = SubSeq(stack, 1, Len(stack) - 1)
  BY Zenon DEF TTInv, TTTyped, TT!Return
<1>3. /\ stack' \in Seq(HandlerCall) /\ Len(stack') = Len(stack) - 1 /\ Calls' = 1 .. Len(stack) - 1
      /\ \A i \in Calls' : i \in Calls /\ stack'[i] = stack[i] /\ i # Len(stack)
  BY <1>1, <1>2, ReturnFacts DEF Calls
<1>4. \A i \in Calls' : stack[i].sig # "TSTP"
  BY <1>1, <1>3 DEF TTInv, StackInv
<1>5. stack[Len(stack)].ours \in Mode
  <2>1. stack[Len(stack)] \in HandlerCall
    BY <1>1, <1>2
  <2> QED BY <2>1, Zenon DEF HandlerCall
<1>6. stack' = <<>> <=> Len(stack) = 1
  BY <1>1, <1>3
<1> QED BY <1>1, <1>3, <1>4, <1>5, <1>6, SMTT(30) DEF Popped

(* SIGTSTP is caught again; handling_SIGTSTP returns. *)
LEMMA TTAgain == ASSUME TTInv, TT!Again PROVE TTInv'
<1>1. /\ sigs' = [sigs EXCEPT !["TSTP"] = "handler"]
      /\ UNCHANGED <<pc, tprog, ignored, stopped, tty, userTermios, wish, bare, overlap>>
  BY Zenon DEF TT!Again, TT!setup, TT!outside, TT!history
<1>2. CASE tprog = "SIGTSTP"
  <2>1. Popped("again")
    BY <1>2, TTReturn, Zenon DEF TT!Again, AtStop
  <2>2. Calls' = {}
    <3>1. \A i \in Calls' : i \in Calls /\ stack'[i] = stack[i] /\ stack'[i].sig # "TSTP"
      BY <2>1, Zenon DEF Popped
    <3>2. \A i \in Calls : stack[i].sig = "TSTP"
      BY <1>2, Zenon DEF TTInv, Catching
    <3> QED BY <3>1, <3>2, Zenon
  <2>3. "TSTP" \notin ignored
    BY <1>2, <2>1, Zenon DEF TTInv, Catching, Popped
  <2>4. TTTyped'
    BY <1>1, <2>1, Zenon DEF TTInv, TTTyped, Popped, TT!Sig
  <2>5. StackInv' /\ Catching'
    BY <1>1, <1>2, <2>1, <2>2, <2>3, Zenon DEF TTInv, TTTyped, StackInv, Catching, Popped, TT!Sig
  <2>6. ModeInv' /\ UserInv'
    BY <1>1, <1>2, <2>1, <2>2 DEF TTInv, TTTyped, ModeInv, UserInv, Popped
  <2>7. WishInv'
    BY <1>1, <1>2, <2>1, <2>2 DEF TTInv, TTTyped, WishInv, Popped
  <2> QED BY <2>4, <2>5, <2>6, <2>7, Zenon DEF TTInv
<1>3. CASE tprog # "SIGTSTP"
  <2>1. Moved("again", "reread") /\ SameOurs
    BY <1>3, TTGoto, Zenon DEF TT!Again, AtEnd, AtStop
  <2>2. TTTyped'
    BY <1>1, <2>1, Zenon DEF TTInv, TTTyped, Moved, TT!Sig
  <2>3. StackInv'
    BY <1>1, <2>1 DEF TTInv, TTTyped, StackInv, Moved, AtEnd, AtStop, TT!Sig
  <2>4. Catching'
    BY <1>1, <1>3, <2>1 DEF TTInv, TTTyped, Catching, Moved, AtStop, TT!Sig
  <2>5. ModeInv'
    BY <1>1, <1>3, <2>1 DEF TTInv, ModeInv, Moved, SameOurs
  <2>6. UserInv'
    BY <1>1, <1>3, <2>1 DEF TTInv, UserInv, Moved, SameOurs, AtGiven
  <2>7. WishInv'
    BY <1>1, <1>3, <2>1 DEF TTInv, WishInv, Moved, AtGiven
  <2> QED BY <2>2, <2>3, <2>4, <2>5, <2>6, <2>7, Zenon DEF TTInv
<1> QED BY <1>2, <1>3, Zenon

(* tstpHandler() sets the mode it found, unless it found the user's, and   *)
(* returns.                                                                *)
LEMMA TTTake == ASSUME TTInv, TT!Take PROVE TTInv'
<1>1. Popped("take")
  BY TTReturn, Zenon DEF TT!Take, AtStop
<1>2. /\ tty' = stack[Len(stack)].ours
      /\ UNCHANGED <<pc, tprog, ignored, sigs, stopped, userTermios, wish, bare, overlap>>
  BY Zenon DEF TT!Take, TT!Top, TT!setup, TT!outside, TT!history
<1>3. tprog # "SIGTSTP" /\ pc # "save" /\ sigs["TSTP"] = "handler"
  BY <1>1, Zenon DEF TTInv, StackInv, Catching, Popped
<1>4. TTTyped'
  BY <1>1, <1>2, Zenon DEF TTInv, TTTyped, Popped
<1>5. StackInv'
  BY <1>1, <1>2 DEF TTInv, StackInv, Popped
<1>6. Catching'
  BY <1>1, <1>2, <1>3, Zenon DEF TTInv, Catching, Popped
<1>7. ModeInv'
  BY <1>1, <1>2, <1>3 DEF TTInv, ModeInv, Popped
<1>8. UserInv'
  <2>1. \A i \in Calls' : stack'[i].at \in AtEnd
    BY <1>1, SMTT(30) DEF TTInv, StackInv, Popped
  <2> QED BY <1>1, <1>2, <1>3, <2>1, Zenon DEF TTInv, UserInv, Popped, AtGiven, AtEnd
<1>9. WishInv'
  BY <1>1, <1>2, <1>3 DEF TTInv, WishInv, Popped, AtGiven
<1> QED BY <1>4, <1>5, <1>6, <1>7, <1>8, <1>9, Zenon DEF TTInv

(* A handler ends the program, or the world outside does something. *)
LEMMA TTRest ==
    ASSUME TTInv, TT!HandlerExit \/ (\E s \in TT!Sig : TT!Post(s)) \/ TT!Cont \/ UNCHANGED TT!ttyVars
    PROVE  TTInv'
<1>1. UNCHANGED <<tprog, ignored, sigs, stack, tty, userTermios, wish, bare, overlap>>
  BY Zenon DEF TT!HandlerExit, TT!Post, TT!Cont, TT!ttyVars, TT!setup, TT!outside, TT!history
<1>2. Calls' = Calls
  BY <1>1, Zenon DEF Calls
<1>3. CASE TT!HandlerExit
  <2>1. /\ stack # <<>> /\ Len(stack) \in Calls /\ stack[Len(stack)].at = "_exit" /\ ~stopped
        /\ pc' = "exit" /\ UNCHANGED stopped
    BY <1>3, TopFacts, Zenon DEF TT!HandlerExit
  <2>2. TTTyped' /\ StackInv'
    BY <1>1, <1>2, <2>1 DEF TTInv, TTTyped, StackInv
  <2>3. Catching' /\ ModeInv'
    BY <1>1, <1>2, <2>1, Zenon DEF TTInv, Catching, ModeInv
  <2>4. UserInv'
    BY <1>1, <1>2, <2>1, Zenon DEF TTInv, UserInv
  <2>5. WishInv'
    BY <1>1, <1>2, <2>1 DEF TTInv, TTTyped, WishInv, Catching
  <2> QED BY <2>2, <2>3, <2>4, <2>5 DEF TTInv
<1>4. CASE (\E s \in TT!Sig : TT!Post(s)) \/ TT!Cont \/ UNCHANGED TT!ttyVars
  <2>1. UNCHANGED pc /\ (stopped' = stopped \/ ~stopped')
    BY <1>4, Zenon DEF TT!Post, TT!Cont, TT!ttyVars
  <2>2. TTTyped' /\ StackInv'
    BY <1>1, <1>2, <2>1, Zenon DEF TTInv, TTTyped, StackInv
  <2>3. Catching' /\ ModeInv'
    BY <1>1, <1>2, <2>1, Zenon DEF TTInv, Catching, ModeInv
  <2>4. UserInv'
    BY <1>1, <1>2, <2>1 DEF TTInv, UserInv
  <2>5. WishInv'
    BY <1>1, <1>2, <2>1, Zenon DEF TTInv, WishInv
  <2> QED BY <2>2, <2>3, <2>4, <2>5, Zenon DEF TTInv
<1> QED BY <1>3, <1>4, Zenon

(* The user changes the settings while the program is stopped. *)
LEMMA TTUserSets == ASSUME TTInv, TT!UserSets PROVE TTInv'
<1>1. /\ stopped /\ wish' = "u2" /\ tty' = "u2"
      /\ UNCHANGED <<pc, tprog, ignored, sigs, stack, stopped, userTermios, bare, overlap>>
  BY Zenon DEF TT!UserSets, TT!setup, TT!history
<1>2. Calls' = Calls
  BY <1>1, Zenon DEF Calls
<1>3. pc # "exit" /\ (bare \/ \E i \in Calls : stack[i].at = "reblock")
  BY <1>1, Zenon DEF TTInv, UserInv
<1>4. TTTyped' /\ StackInv'
  BY <1>1, <1>2, Zenon DEF TTInv, TTTyped, StackInv, Mode
<1>5. Catching'
  BY <1>1, <1>2, Zenon DEF TTInv, Catching
<1>6. ModeInv'
  <2>1. bare \/ (stack # <<>> /\ (Len(stack) = 1 => stack[1].at = "reblock"))
    <3>1. stack \in Seq(HandlerCall)
      BY Zenon DEF TTInv, TTTyped
    <3> QED BY <1>3, <3>1 DEF Calls
  <2> QED BY <1>1, <2>1, Zenon DEF TTInv, ModeInv
<1>7. UserInv'
  BY <1>1, <1>2, <1>3 DEF TTInv, UserInv
<1>8. WishInv'
  <2>1. ~bare => stack # <<>> /\ pc # "save" /\ (~overlap => pc # "end")
    BY <1>3 DEF TTInv, Catching, WishInv, Calls
  <2> QED BY <1>1, <1>2, <1>3, <2>1, Zenon DEF TTInv, WishInv
<1> QED BY <1>4, <1>5, <1>6, <1>7, <1>8, Zenon DEF TTInv

(* The kernel calls a handler, on top of what runs; no signal has two. *)
LEMMA TTCall ==
    ASSUME TTInv, NEW s \in TT!Sig, TT!Deliver(s), sigs[s] = "handler"
    PROVE  TTInv'
<1> DEFINE e == [sig |-> s, ours |-> tty, at |-> IF s # "TSTP" THEN "giveBack"
                                                 ELSE IF tprog = "SIGTSTP" THEN "default" ELSE "ours"]
<1>1. /\ stack' = Append(stack, e) /\ s \notin TT!Blocked /\ pc # "exit" /\ ~stopped
      /\ UNCHANGED <<pc, tprog, ignored, sigs, stopped, tty, userTermios, wish, bare>>
      /\ stack # <<>> \/ pc = "end" => overlap'
      /\ overlap => overlap'
  BY Zenon DEF TT!Deliver, TT!Running, TT!setup, TT!outside, TT!history
<1>2. e \in HandlerCall /\ stack \in Seq(HandlerCall)
  BY Zenon DEF TTInv, TTTyped, HandlerCall, AtEnd, AtStop
<1>3. /\ e.sig = s /\ e.ours = tty
      /\ e.at \in IF s = "TSTP" THEN {"default", "ours"} ELSE {"giveBack"}
      /\ e.at = "default" => tprog = "SIGTSTP"
      /\ e.at = "ours" => tprog # "SIGTSTP"
  BY Zenon
<1> HIDE DEF e
<1>4. /\ stack' \in Seq(HandlerCall) /\ Len(stack') = Len(stack) + 1 /\ stack' # <<>>
      /\ \A i \in Calls : i \in Calls' /\ stack'[i] = stack[i] /\ i < Len(stack')
      /\ \A i \in Calls' : i \in Calls \/ i = Len(stack')
      /\ Len(stack') \in Calls' /\ stack'[Len(stack')] = e /\ Len(stack) \in Nat
      /\ Len(stack) = 0 <=> stack = <<>>
  BY <1>1, <1>2, CallFacts DEF Calls
<1>5. pc \notin {"save", "set"} /\ s \notin ignored
  BY Zenon DEF TTInv, Catching
<1>6. \A i \in Calls : stack[i].sig # s
  <2> SUFFICES ASSUME NEW i \in Calls, stack[i].sig = s PROVE FALSE
    BY Zenon
  <2>1. stack[i].at = "reblock"
    BY <1>1, Zenon DEF TT!Blocked, Calls
  <2> QED BY <2>1, Zenon DEF TTInv, StackInv, AtEnd
<1>7. TTTyped'
  BY <1>1, <1>4, Zenon DEF TTInv, TTTyped
<1>8. StackInv'
  <2>1. (\A i, k \in Calls : stack[i].sig = stack[k].sig => i = k)'
    BY <1>3, <1>4, <1>6 DEF TTInv, StackInv
  <2>2. e.at \in (IF e.sig = "TSTP" THEN AtStop ELSE AtEnd)
    BY <1>3, Zenon DEF AtEnd, AtStop
  <2>3. e.sig = "TSTP" => sigs["TSTP"] = "handler" /\ e.at \notin {"raise", "unblock", "reblock", "again"}
    BY <1>3, Zenon
  <2>4. (\A i \in Calls : stack[i].at \in (IF stack[i].sig = "TSTP" THEN AtStop ELSE AtEnd))'
    BY <1>4, <2>2 DEF TTInv, StackInv
  <2> QED BY <1>1, <1>4, <2>1, <2>3, <2>4, Zenon DEF TTInv, StackInv
<1>9. Catching'
  <2>1. tprog = "SIGTSTP" => s = "TSTP"
    BY Zenon DEF TTInv, Catching, TT!Sig
  <2>2. (tprog = "SIGTSTP" => \A i \in Calls : stack[i].sig = "TSTP" /\ stack[i].at \notin
                                 {"ours", "give", "reread", "take"})'
    BY <1>1, <1>3, <1>4, <2>1, ZenonT(60) DEF TTInv, Catching
  <2>3. (\A i \in Calls : stack[i].sig \notin ignored)'
    BY <1>1, <1>3, <1>4, <1>5, Zenon DEF TTInv, Catching
  <2>4. (\E i \in Calls : stack[i].sig = "TSTP") => (\E i \in Calls : stack[i].sig = "TSTP")'
    BY <1>4, Zenon
  <2> QED BY <1>1, <1>5, <2>2, <2>3, <2>4, Zenon DEF TTInv, Catching
<1>10. ModeInv'
  BY <1>1, <1>3, <1>4, <1>5 DEF TTInv, ModeInv
<1>11. UserInv'
  BY <1>1, <1>3, <1>4, <1>5, ZenonT(60) DEF TTInv, UserInv, AtGiven
<1>12. WishInv'
  <2>1. overlap' \/ (stack = <<>> /\ pc # "end" /\ ~overlap)
    BY <1>1, Zenon
  <2>2. CASE overlap'
    BY <2>2, Zenon DEF WishInv
  <2>3. CASE stack = <<>> /\ pc # "end" /\ ~overlap
    <3>1. Calls = {} /\ Len(stack') = 1 /\ \A i \in Calls' : stack'[i] = e
      BY <1>4, <2>3 DEF Calls
    <3>2. \A i \in Calls' : stack'[i].at \in {"default", "ours", "giveBack"}
      BY <1>3, <3>1, Zenon
    <3>3. \A i \in Calls' : stack'[i].at = "default" => tty = wish
      BY <1>3, <3>1, Zenon DEF TTInv, ModeInv
    <3>4. ~bare /\ tprog # "SIGTSTP" => userTermios = wish
      BY <1>5, <2>3, <3>1, Zenon DEF TTInv, WishInv
    <3> QED BY <1>1, <1>5, <2>3, <3>1, <3>2, <3>3, <3>4 DEF WishInv, AtGiven
  <2> QED BY <2>1, <2>2, <2>3, Zenon
<1> QED BY <1>7, <1>8, <1>9, <1>10, <1>11, <1>12 DEF TTInv

(* Or the signal has its default action, which the history notes unless    *)
(* tstpHandler() waits for it; or it is ignored.                           *)
LEMMA TTDefault ==
    ASSUME TTInv, NEW s \in TT!Sig, TT!Deliver(s), sigs[s] # "handler"
    PROVE  TTInv'
<1>1. /\ ~stopped /\ UNCHANGED <<tprog, ignored, sigs, stack, tty, userTermios, wish, overlap>>
      /\ pc' \in {pc, "exit"} /\ pc # "exit" /\ (bare => bare')
  <2>1. ~stopped /\ pc # "exit" /\ UNCHANGED <<tprog, ignored, sigs, tty, userTermios, wish>>
    BY Zenon DEF TT!Deliver, TT!Running, TT!setup, TT!outside
  <2>2. UNCHANGED <<stack, overlap>> /\ pc' \in {pc, "exit"}
    BY Zenon DEF TT!Deliver, TT!history
  <2>3. bare => bare'
    BY Zenon DEF TT!Deliver, TT!history
  <2> QED BY <2>1, <2>2, <2>3, Zenon
<1>2. Calls' = Calls
  BY <1>1, Zenon DEF Calls
<1>3. ~bare' /\ (stopped' \/ pc' = "exit") => \E i \in Calls : stack[i].at = "reblock"
  BY <1>1, Zenon DEF TT!Deliver, TT!history, Calls
<1>4. ~(stopped' /\ pc' = "exit")
  BY <1>1, Zenon DEF TT!Deliver, TT!history
<1>5. TTTyped' /\ StackInv'
  BY <1>1, <1>2, Zenon DEF TTInv, TTTyped, StackInv
<1>6. Catching'
  BY <1>1, <1>2, Zenon DEF TTInv, Catching
<1>7. ModeInv'
  BY <1>1, <1>2, Zenon DEF TTInv, ModeInv
<1>8. UserInv'
  BY <1>1, <1>2, <1>3, <1>4 DEF TTInv, UserInv, AtGiven, ModeInv, TTTyped
<1>9. WishInv'
  BY <1>1, <1>2, <1>3, Zenon DEF TTInv, WishInv, AtGiven, Catching, Calls
<1> QED BY <1>5, <1>6, <1>7, <1>8, <1>9, Zenon DEF TTInv

(* All steps. *)
LEMMA TTNext == TTInv /\ [TT!Next]_(TT!ttyVars) => TTInv'
  BY TTMain, TTGives, TTStops, TTReread, TTOurs, TTAgain, TTTake, TTRest, TTUserSets, TTCall, TTDefault
     DEF TT!Next, TT!Own, TT!MainStep, TT!HandlerStep, TT!Delivered, TT!Environment

(* What it says of the terminal. *)
LEMMA TTExit == TTInv => TT!TerminalGivenBack /\ TT!BackInForce
<1> SUFFICES ASSUME TTInv PROVE TT!TerminalGivenBack /\ TT!BackInForce
  BY Zenon
<1>1. TT!BackInForce
  BY DEF TTInv, TT!BackInForce, TT!Main, Catching, ModeInv, Calls
<1>2. (stopped \/ pc = "exit") /\ ~bare => tty # "own"
  BY Zenon DEF TTInv, TTTyped, UserInv, ModeInv, AtGiven
<1>3. (stopped \/ pc = "exit") /\ ~bare /\ ~overlap => tty = wish
  BY Zenon DEF TTInv, UserInv, WishInv, AtGiven
<1> QED BY <1>1, <1>2, <1>3, Zenon DEF TT!TerminalGivenBack

-----------------------------------------------------------------------------
VARIABLES program, rpc, q, msgs, registered, early

MQ == INSTANCE MqNotify

(* The readers of the message queue.  From the first registration on there *)
(* is one token: the registration, the notification on its way, or a       *)
(* reader that has to register again.                                      *)
MQTyped ==
    /\ rpc \in [MQ!Reader -> {"start", "wait", "idle", "register", "drain"}] /\ q \in Nat
    /\ pend \in {0, 1} /\ registered \in BOOLEAN /\ early \in BOOLEAN
    /\ \A t \in MQ!Reader : rpc[t] = "start" => t = 1

MQToken ==
    /\ registered => pend = 0
    /\ \A t \in MQ!Reader : rpc[t] = "register" => ~registered /\ pend = 0
    /\ \A t, u \in MQ!Reader : rpc[t] = "register" /\ rpc[u] = "register" => t = u
    /\ rpc[1] = "start" => /\ ~registered /\ pend = 0
                           /\ \A t \in MQ!Reader : rpc[t] # "register"
    /\ rpc[1] # "start" => registered \/ pend = 1 \/ \E t \in MQ!Reader : rpc[t] = "register"

MQInv == MQTyped /\ MQToken /\ MQ!NotifiedOrEmpty

(* There is a reader, whatever the bound. *)
LEMMA ReaderOne == 1 \in MQ!Reader
  BY SigAssumption DEF MQ!Reader

(* Nobody has registered at the start. *)
LEMMA MQStart == MQ!Init => MQInv
<1> SUFFICES ASSUME MQ!Init PROVE MQInv
  BY Zenon
<1>1. MQTyped
  BY Zenon DEF MQ!Init, MQTyped
<1>2. MQToken /\ MQ!NotifiedOrEmpty
  BY ReaderOne, Zenon DEF MQ!Init, MQToken, MQ!NotifiedOrEmpty
<1> QED BY <1>1, <1>2, Zenon DEF MQInv

(* The token is passed on by every step. *)
LEMMA MQNext == MQInv /\ [MQ!Next]_(MQ!vars) => MQInv'
<1> SUFFICES ASSUME MQInv, [MQ!Next]_(MQ!vars) PROVE MQInv'
  BY Zenon
<1> USE ReaderOne DEF MQInv, MQTyped
<1>1. CASE MQ!Send
  <2>1. MQTyped'
    <3>1. pend' \in {0, 1} /\ q' \in Nat /\ UNCHANGED <<rpc, early>>
      BY <1>1 DEF MQ!Send, MQToken
    <3>2. registered' \in BOOLEAN
      BY <1>1, Zenon DEF MQ!Send
    <3> QED BY <3>1, <3>2, Zenon DEF MQ!Reader
  <2>2. MQToken' /\ MQ!NotifiedOrEmpty'
    BY <1>1 DEF MQ!Send, MQToken, MQ!NotifiedOrEmpty, MQ!Reader
  <2> QED BY <2>1, <2>2, Zenon
<1>2. CASE MQ!Start
  <2>1. rpc' = [rpc EXCEPT ![1] = "wait"] /\ registered' = TRUE /\ pend' = pend /\ q' = q
        /\ early' = (q > 0) /\ rpc[1] = "start"
    BY <1>2, Zenon DEF MQ!Start
  <2>2. MQTyped' /\ MQToken'
    BY <2>1 DEF MQToken, MQ!Reader
  <2>3. MQ!NotifiedOrEmpty'
    BY <2>1, Zenon DEF MQ!NotifiedOrEmpty, MQ!Reader
  <2> QED BY <2>2, <2>3, Zenon
<1>3. CASE MQ!Notified
  <2>1. PICK t \in MQ!Reader : rpc[t] \in {"idle", "wait"} /\ rpc' = [rpc EXCEPT ![t] = "register"]
    BY <1>3, Zenon DEF MQ!Notified
  <2>2. pend = 1 /\ pend' = 0 /\ UNCHANGED <<q, registered, early>>
    BY <1>3 DEF MQ!Notified
  <2>3. MQTyped'
    BY <2>1, <2>2, Zenon DEF MQ!Reader
  <2>4. MQToken' /\ MQ!NotifiedOrEmpty'
    BY <2>1, <2>2 DEF MQToken, MQ!NotifiedOrEmpty, MQ!Reader
  <2> QED BY <2>3, <2>4, Zenon
<1>4. ASSUME NEW t \in MQ!Reader, MQ!Register(t) PROVE MQInv'
  <2>1. rpc[t] = "register" /\ rpc' = [rpc EXCEPT ![t] = "drain"] /\ registered' = TRUE
        /\ UNCHANGED <<q, pend, early>>
    BY <1>4, Zenon DEF MQ!Register
  <2>2. MQTyped' /\ MQToken'
    BY <2>1, Zenon DEF MQToken, MQ!Reader
  <2>3. MQ!NotifiedOrEmpty'
    BY <2>1, Zenon DEF MQ!NotifiedOrEmpty, MQ!Reader
  <2> QED BY <2>2, <2>3, Zenon
<1>5. ASSUME NEW t \in MQ!Reader, MQ!Receive(t) PROVE MQInv'
  <2>1. CASE q > 0
    <3>1. rpc[t] = "drain" /\ q' = q - 1 /\ UNCHANGED <<rpc, registered, pend, early>>
      BY <1>5, <2>1, Zenon DEF MQ!Receive
    <3> QED BY <2>1, <3>1 DEF MQToken, MQ!NotifiedOrEmpty, MQ!Reader
  <2>2. CASE ~(q > 0)
    <3>1. /\ rpc[t] = "drain" /\ UNCHANGED <<q, registered, pend, early>>
          /\ \E next \in {"idle", "wait"} : rpc' = [rpc EXCEPT ![t] = next]
      BY <1>5, <2>2, Zenon DEF MQ!Receive
    <3>2. MQTyped' /\ MQToken'
      BY <3>1 DEF MQToken, MQ!Reader
    <3>3. MQ!NotifiedOrEmpty'
      BY <2>2, <3>1, Zenon DEF MQ!NotifiedOrEmpty, MQ!Reader
    <3> QED BY <3>2, <3>3, Zenon
  <2> QED BY <2>1, <2>2, Zenon
<1>6. CASE UNCHANGED MQ!vars
  BY <1>6, Zenon DEF MQ!vars, MQToken, MQ!NotifiedOrEmpty, MQ!Reader
<1> QED BY <1>1, <1>2, <1>3, <1>4, <1>5, <1>6 DEF MQ!Next, MQ!Own

-----------------------------------------------------------------------------
VARIABLES mask, disp, orig, origMask, cdisp, cstatus, status, typed, killed

SF == INSTANCE SystemFn

(* system().  What the caller has changed at each point, and how far the   *)
(* child's dispositions are.                                               *)
Disp == {"DFL", "IGN", "handler"}
Ignored(s) == disp[s] = "IGN"
ForCommand(s) == cdisp[s] = "IGN" <=> orig[s] = "IGN"

CallerInv ==
    /\ pc \in {"call", "ignore INT"} => disp = orig
    /\ pc \in {"ignore QUIT", "fork", "wait", "restore mask", "restore INT"} => Ignored("INT")
    /\ pc \in {"fork", "wait", "restore mask", "restore INT", "restore QUIT"} => Ignored("QUIT")
    /\ pc = "ignore QUIT" => disp["QUIT"] = orig["QUIT"]
    /\ pc = "restore QUIT" => disp["INT"] = orig["INT"]
    /\ pc = "return" => disp = orig
    /\ pc \in {"ignore INT", "ignore QUIT", "fork", "wait", "restore mask"} => mask = TRUE
    /\ pc \in {"restore INT", "restore QUIT", "return"} => mask = origMask

KidInv ==
    /\ pc \in {"call", "ignore INT", "ignore QUIT", "fork"} => kid = "none"
    /\ pc = "wait" => kid \in {"int", "quit", "mask", "exec", "sh", "zombie"}
    /\ pc \in {"restore mask", "restore INT", "restore QUIT", "return"} =>
         /\ kid \in {"none", "reaped"}
         /\ status = IF kid = "none" THEN "-1" ELSE cstatus
    /\ kid \in {"int", "quit"} => cdisp["QUIT"] = "IGN"
    /\ kid = "int" => cdisp["INT"] = "IGN"
    /\ kid \in {"quit", "mask", "exec", "sh"} => ForCommand("INT")
    /\ kid \in {"mask", "exec", "sh"} => ForCommand("QUIT")

SFInv ==
    /\ pc \in {"call", "ignore INT", "ignore QUIT", "fork", "wait", "restore mask", "restore INT",
               "restore QUIT", "return"}
    /\ orig \in [SF!Typed -> Disp] /\ disp \in [SF!Typed -> Disp] /\ cdisp \in [SF!Typed -> Disp]
    /\ CallerInv /\ KidInv
    /\ killed => kid \in {"none", "reaped"}

(* system() has changed nothing at the start. *)
LEMMA SFStart == SF!Init => SFInv
  BY Zenon DEF SF!Init, SFInv, CallerInv, KidInv, Disp, Ignored, ForCommand, SF!Typed

(* The caller's steps change what CallerInv says they change. *)
LEMMA CallerNext == ASSUME SFInv, [SF!Next]_(SF!vars) PROVE CallerInv'
<1> USE DEF SFInv, CallerInv, Ignored, SF!Typed, SF!At, SF!caller, SF!child
<1>1. CASE SF!Block
  BY <1>1, Zenon DEF SF!Block
<1>2. CASE SF!Ignore
  BY <1>2, Zenon DEF SF!Ignore
<1>3. CASE SF!Fork \/ SF!Wait
  BY <1>3, Zenon DEF SF!Fork, SF!Wait
<1>4. CASE SF!Restore
  BY <1>4, Zenon DEF SF!Restore
<1>5. CASE SF!KidStep \/ SF!CallersHandler \/ (\E s \in SF!Typed : SF!Type(s)) \/ UNCHANGED SF!vars
  <2>1. UNCHANGED <<pc, disp, orig, mask, origMask>>
    BY <1>5, Zenon DEF SF!KidStep, SF!CallersHandler, SF!Type, SF!vars
  <2> QED BY <2>1, Zenon
<1> QED BY <1>1, <1>2, <1>3, <1>4, <1>5, Zenon DEF SF!Next, SF!Own

(* The child is reaped by its own waitpid(): while it is not, SIGCHLD is   *)
(* blocked and the caller's handler cannot.                                *)
LEMMA KidNext == ASSUME SFInv, [SF!Next]_(SF!vars) PROVE KidInv'
<1> USE DEF SFInv, CallerInv, KidInv, Ignored, ForCommand, SF!Typed, SF!At, SF!caller, SF!child, Disp
<1>1. CASE SF!Block \/ SF!Ignore \/ SF!Restore
  BY <1>1, Zenon DEF SF!Block, SF!Ignore, SF!Restore
<1>2. CASE SF!Fork
  BY <1>2, Zenon DEF SF!Fork
<1>3. CASE SF!Wait
  BY <1>3, Zenon DEF SF!Wait
<1>4. CASE SF!KidStep
  BY <1>4, Zenon DEF SF!KidStep, SF!KidEnds
<1>5. CASE SF!CallersHandler
  BY <1>5, Zenon DEF SF!CallersHandler
<1>6. ASSUME NEW s \in SF!Typed, SF!Type(s) PROVE KidInv'
  BY <1>6, Zenon DEF SF!Type, SF!KidEnds, SF!Alive
<1>7. CASE UNCHANGED SF!vars
  BY <1>7, Zenon DEF SF!vars
<1> QED BY <1>1, <1>2, <1>3, <1>4, <1>5, <1>6, <1>7, Zenon DEF SF!Next, SF!Own

(* The caller can be killed only while it has no child: as long as it has  *)
(* one, it ignores what is typed.                                          *)
LEMMA SFNext == SFInv /\ [SF!Next]_(SF!vars) => SFInv'
<1> SUFFICES ASSUME SFInv, [SF!Next]_(SF!vars) PROVE SFInv'
  BY Zenon
<1>1. /\ pc' \in {"call", "ignore INT", "ignore QUIT", "fork", "wait", "restore mask", "restore INT",
                  "restore QUIT", "return"}
      /\ orig' \in [SF!Typed -> Disp]
  BY Zenon DEF SFInv, SF!Next, SF!Own, SF!Block, SF!Ignore, SF!Fork, SF!Wait, SF!Restore, SF!KidStep,
         SF!CallersHandler, SF!Type, SF!vars, SF!At, SF!caller, SF!child
<1>2. disp' \in [SF!Typed -> Disp]
  BY Zenon DEF SFInv, SF!Next, SF!Own, SF!Block, SF!Ignore, SF!Fork, SF!Wait, SF!Restore, SF!KidStep,
         SF!CallersHandler, SF!Type, SF!vars, SF!At, SF!caller, SF!child, SF!Typed, Disp
<1>3. cdisp' \in [SF!Typed -> Disp]
  BY Zenon DEF SFInv, SF!Next, SF!Own, SF!Block, SF!Ignore, SF!Fork, SF!Wait, SF!Restore, SF!KidStep,
         SF!CallersHandler, SF!Type, SF!KidEnds, SF!vars, SF!At, SF!caller, SF!child, SF!Typed, Disp
<1>4. (killed => kid \in {"none", "reaped"})'
  <2> USE DEF SFInv, CallerInv, KidInv, Ignored, SF!Typed, SF!At, SF!caller, SF!child
  <2>1. CASE SF!Block \/ SF!Ignore \/ SF!Restore \/ SF!Fork \/ SF!Wait
    BY <2>1, Zenon DEF SF!Block, SF!Ignore, SF!Restore, SF!Fork, SF!Wait
  <2>2. CASE SF!KidStep \/ SF!CallersHandler \/ UNCHANGED SF!vars
    BY <2>2, Zenon DEF SF!KidStep, SF!KidEnds, SF!CallersHandler, SF!vars
  <2>3. ASSUME NEW s \in SF!Typed, SF!Type(s), kid \notin {"none", "reaped"} PROVE ~killed'
    BY <2>3, Zenon DEF SF!Type
  <2>4. ASSUME NEW s \in SF!Typed, SF!Type(s), kid \in {"none", "reaped"} PROVE UNCHANGED kid
    BY <2>4, Zenon DEF SF!Type, SF!Alive
  <2> QED BY <2>1, <2>2, <2>3, <2>4, Zenon DEF SF!Next, SF!Own
<1> QED BY <1>1, <1>2, <1>3, <1>4, CallerNext, KidNext, Zenon DEF SFInv

-----------------------------------------------------------------------------
VARIABLES uprog, kpend, sigmask, scnt, kscnt, gotSigquit, sentSigs

SS == INSTANCE SigSuspend

(* The sigsuspend() programs.  In sig_speed_sigsuspend one token goes      *)
(* round: the child is to send, its signal is pending, the parent is to    *)
(* send, its signal is pending; or the child has ended.                    *)
SpeedTurn ==
    \/ kpc = "kill" /\ pend = {} /\ ~kpend /\ scnt = kscnt /\ pc # "kill"
    \/ kpc = "suspend" /\ pend # {} /\ ~kpend /\ scnt = kscnt /\ pc # "kill"
    \/ kpc = "suspend" /\ pend = {} /\ ~kpend /\ scnt = kscnt /\ pc = "kill"
    \/ kpc = "suspend" /\ pend = {} /\ kpend /\ scnt = kscnt + 1 /\ pc # "kill"
    \/ kpc = "exit" /\ pend = {} /\ ~kpend /\ scnt = kscnt /\ pc # "kill" /\ scnt >= MaxSignals

SpeedInv ==
    /\ scnt \in Nat /\ kscnt \in Nat
    /\ pc \in {"block", "fork", "loop", "suspend", "kill", "exit"}
    /\ pc # "block" => sigmask
    /\ pc \in {"block", "fork"} => kpc = "none" /\ pend = {} /\ ~kpend /\ scnt = 0 /\ kscnt = 0
    /\ pc \notin {"block", "fork"} => SpeedTurn
    /\ pc \in {"suspend", "kill"} => scnt < MaxSignals
    /\ pc = "exit" => scnt >= MaxSignals

(* In fork_sig_sync a signal is pending only when the child has ended. *)
SyncInv ==
    /\ pc \in {"block", "fork", "suspend", "restore", "exit"}
    /\ pc \in {"block", "fork"} => kpc = "none"
    /\ pend # {} => kpc = "exit"
    /\ SS!ParentWaits

SSInv ==
    /\ uprog = "sig_speed" => SpeedInv
    /\ uprog = "fork_sync" => SyncInv

(* The sigsuspend() programs start with no child and no signal. *)
LEMMA SSStart == SS!Init => SSInv
  BY DEF SS!Init, SSInv, SpeedInv, SyncInv, SS!ParentWaits

(* Each step of sig_speed_sigsuspend passes the turn on, or is taken by    *)
(* the one whose turn it is.                                               *)
LEMMA SpeedNext ==
    ASSUME uprog = "sig_speed", SpeedInv, [SS!Next]_(SS!suspVars) PROVE SpeedInv'
<1> USE SigAssumption DEF SpeedInv, SpeedTurn, SS!numSigs
<1>1. CASE SS!Block \/ SS!Fork \/ SS!Loop
  BY <1>1 DEF SS!Block, SS!Fork, SS!Loop
<1>2. CASE SS!Suspend
  BY <1>2, Zenon DEF SS!Suspend
<1>3. CASE SS!Kill
  <2>1. pc = "kill" /\ pc' = "loop" /\ scnt' = scnt + 1 /\ UNCHANGED <<kpc, pend, sigmask, kscnt>>
    BY <1>3, Zenon DEF SS!Kill
  <2>2. kpc = "suspend" /\ pend = {} /\ scnt = kscnt
    BY <2>1, Zenon
  <2>3. kpend'
    BY <1>3, <2>2, Zenon DEF SS!Kill
  <2> QED BY <2>1, <2>2, <2>3
<1>4. CASE SS!KidKill
  BY <1>4, Zenon DEF SS!KidKill
<1>5. CASE SS!KidSuspend
  BY <1>5 DEF SS!KidSuspend
<1>6. CASE SS!Critical \/ SS!Unblock \/ UNCHANGED SS!suspVars
  BY <1>6 DEF SS!Critical, SS!Unblock, SS!suspVars
<1>7. ~(SS!Environment \/ SS!SyncBlock \/ SS!SyncFork \/ SS!KidWorks \/ SS!SyncKidKill
          \/ SS!SyncSuspend \/ SS!SyncRestore)
  BY Zenon DEF SS!Environment, SS!Post, SS!SyncBlock, SS!SyncFork, SS!KidWorks, SS!SyncKidKill,
         SS!SyncSuspend, SS!SyncRestore
<1> QED BY <1>1, <1>2, <1>3, <1>4, <1>5, <1>6, <1>7, Zenon DEF SS!Next, SS!Own, SS!KidStep

(* fork_sig_sync waits for a signal that only the end of the work sends. *)
LEMMA SyncNext ==
    ASSUME uprog = "fork_sync", SyncInv, [SS!Next]_(SS!suspVars) PROVE SyncInv'
<1> USE DEF SyncInv, SS!ParentWaits
<1>1. CASE SS!SyncBlock \/ SS!SyncFork \/ SS!KidWorks \/ SS!SyncKidKill \/ SS!SyncSuspend \/ SS!SyncRestore
  BY <1>1, Zenon DEF SS!SyncBlock, SS!SyncFork, SS!KidWorks, SS!SyncKidKill, SS!SyncSuspend, SS!SyncRestore,
              SS!syncRest
<1>2. CASE UNCHANGED SS!suspVars
  BY <1>2, Zenon DEF SS!suspVars
<1>3. ~(SS!Environment \/ SS!Block \/ SS!Fork \/ SS!Suspend \/ SS!Unblock \/ SS!KidKill)
  BY Zenon DEF SS!Environment, SS!Post, SS!Block, SS!Fork, SS!Suspend, SS!Unblock, SS!KidKill
<1>4. ~(SS!Loop \/ SS!Critical \/ SS!Kill)
  BY Zenon DEF SS!Loop, SS!Critical, SS!Kill
<1>5. CASE SS!KidSuspend
  BY <1>5, Zenon DEF SS!KidSuspend
<1> QED BY <1>1, <1>2, <1>3, <1>4, <1>5 DEF SS!Next, SS!Own, SS!KidStep

(* The programs keep to themselves. *)
LEMMA SSNext == SSInv /\ [SS!Next]_(SS!suspVars) => SSInv'
<1> SUFFICES ASSUME SSInv, [SS!Next]_(SS!suspVars) PROVE SSInv'
  BY Zenon
<1>1. UNCHANGED uprog
  BY Zenon DEF SS!Next, SS!Own, SS!KidStep, SS!Environment, SS!Post, SS!Block, SS!Fork, SS!Loop,
         SS!Critical, SS!Suspend, SS!Kill, SS!Unblock, SS!KidKill, SS!KidSuspend, SS!SyncBlock,
         SS!SyncFork, SS!KidWorks, SS!SyncKidKill, SS!SyncSuspend, SS!SyncRestore, SS!suspVars,
         SS!syncRest
<1> QED BY <1>1, SpeedNext, SyncNext DEF SSInv

-----------------------------------------------------------------------------
VARIABLES hupReceived, unslept, config, told, loaded

DH == INSTANCE DaemonSighup

(* daemon_SIGHUP. *)
DHInv ==
    /\ config \in Nat /\ told \in Nat /\ loaded \in Nat /\ told <= config
    /\ DH!ToldIsKept

(* daemon_SIGHUP has been told of nothing at the start. *)
LEMMA DHStart == DH!Init => DHInv
  BY DEF DH!Init, DHInv, DH!ToldIsKept

(* The flag is reset before the file is read, never after. *)
LEMMA DHNext == DHInv /\ [DH!Next]_(DH!vars) => DHInv'
<1> SUFFICES ASSUME DHInv, [DH!Next]_(DH!vars) PROVE DHInv'
  BY Zenon
<1> USE SigAssumption DEF DHInv, DH!ToldIsKept
<1>1. CASE DH!Change \/ DH!Kill
  BY <1>1 DEF DH!Change, DH!Kill
<1>2. CASE DH!Handler
  BY <1>2, Zenon DEF DH!Handler
<1>3. CASE DH!Start \/ DH!readConfigFile
  BY <1>3 DEF DH!Start, DH!readConfigFile
<1>4. CASE DH!TestHup
  BY <1>4, Zenon DEF DH!TestHup
<1>5. CASE DH!SleepStart \/ DH!SleepEnd \/ DH!Reopen \/ DH!Count \/ UNCHANGED DH!vars
  BY <1>5, Zenon DEF DH!SleepStart, DH!SleepEnd, DH!Reopen, DH!Count, DH!vars
<1> QED BY <1>1, <1>2, <1>3, <1>4, <1>5 DEF DH!Next, DH!Own

-----------------------------------------------------------------------------
VARIABLES sent, pipe, ready, isset, caught

SP == INSTANCE SelfPipe

(* self_pipe.  Until select() returns, what was caught is in the pipe. *)
SPInv ==
    /\ pipe \in Nat
    /\ pc \in {"setup", "select", "drain", "report", "exit"}
    /\ pc \in {"setup", "select"} /\ caught => pipe > 0
    /\ SP!CaughtIsReported

(* The pipe of self_pipe is empty at the start, and nothing caught. *)
LEMMA SPStart == SP!Init => SPInv
  BY DEF SP!Init, SPInv, SP!CaughtIsReported

(* What the handler writes stays in the pipe until select() has seen it. *)
LEMMA SPNext == SPInv /\ [SP!Next]_(SP!vars) => SPInv'
<1> SUFFICES ASSUME SPInv, [SP!Next]_(SP!vars) PROVE SPInv'
  BY Zenon
<1> USE SigAssumption DEF SPInv, SP!CaughtIsReported
<1>1. CASE SP!Handler
  <2>1. pipe' \in Nat /\ pipe' > 0 /\ UNCHANGED <<pc, isset>>
    BY <1>1 DEF SP!Handler
  <2>2. caught' = (caught \/ pc \in {"setup", "select"})
    BY <1>1, Zenon DEF SP!Handler
  <2>3. (pc \in {"drain", "report", "exit"} /\ caught') => isset
    BY <2>2, Zenon
  <2> QED BY <2>1, <2>3, Zenon
<1>2. ASSUME NEW timeout, SP!Select(timeout) PROVE SPInv'
  <2>1. pc = "select" /\ isset' = (pipe > 0) /\ UNCHANGED <<pipe, caught>>
        /\ pc' \in {"drain", "report"}
    BY <1>2, Zenon DEF SP!Select
  <2> QED BY <2>1, Zenon
<1>3. CASE SP!Drain
  BY <1>3 DEF SP!Drain
<1>4. CASE SP!Setup \/ SP!Report \/ SP!SendInt \/ SP!FdReady \/ UNCHANGED SP!vars
  BY <1>4 DEF SP!Setup, SP!Report, SP!SendInt, SP!FdReady, SP!vars
<1> QED BY <1>1, <1>2, <1>3, <1>4, Zenon DEF SP!Next, SP!Own

-----------------------------------------------------------------------------
(* The children are counted. *)
INSTANCE FiniteSetTheorems

-----------------------------------------------------------------------------
VARIABLE numLiveChildren

MS == INSTANCE MultiSigchld

(* multi_SIGCHLD.  A zombie has left a signal pending, unless the handler  *)
(* is just looking for zombies.                                            *)
LiveKids == {c \in MS!Kid : kid[c] # "reaped"}

MSInv ==
    /\ kid \in [MS!Kid -> {"none", "run", "zombie", "reaped"}]
    /\ pc \in {"fork", "test", "suspend", "handler", "sleep", "exit"}
    /\ pc # "handler" /\ (\E c \in MS!Kid : kid[c] = "zombie") => pend
    /\ numLiveChildren = Cardinality(LiveKids)
    /\ MS!ExitReaped

(* The number of children is what the suite's assumption says. *)
LEMMA KidsFinite == IsFiniteSet(MS!Kid) /\ Cardinality(MS!Kid) = NumKids
  BY SigAssumption, FS_Interval DEF MS!Kid

(* All children of multi_SIGCHLD are live at the start, and none has ended. *)
LEMMA MSStart == MS!Init => MSInv
<1> SUFFICES ASSUME MS!Init PROVE MSInv
  BY Zenon
<1>1. LiveKids = MS!Kid
  BY Zenon DEF MS!Init, LiveKids
<1>2. numLiveChildren = Cardinality(LiveKids)
  BY <1>1, KidsFinite DEF MS!Init
<1> QED BY <1>2 DEF MS!Init, MSInv, MS!ExitReaped

(* The handler reaps until there is no zombie; one that ends meanwhile     *)
(* leaves a signal pending.                                                *)
LEMMA MSNext == MSInv /\ [MS!Next]_(MS!vars) => MSInv'
<1> SUFFICES ASSUME MSInv, [MS!Next]_(MS!vars) PROVE MSInv'
  BY Zenon
<1>0. IsFiniteSet(LiveKids)
  BY KidsFinite, FS_Subset DEF LiveKids
<1>1. CASE MS!Fork
  <2>1. PICK c \in MS!Kid : kid[c] = "none" /\ kid' = [kid EXCEPT ![c] = "run"]
    BY <1>1, Zenon DEF MS!Fork
  <2>2. pc = "fork" /\ pc' \in {"fork", "test"} /\ UNCHANGED <<pend, numLiveChildren>>
    BY <1>1 DEF MS!Fork
  <2>3. LiveKids' = LiveKids
    BY <2>1, Zenon DEF LiveKids, MSInv
  <2>4. numLiveChildren' = Cardinality(LiveKids')
    BY <2>2, <2>3 DEF MSInv
  <2> QED BY <2>1, <2>2, <2>4 DEF MSInv, MS!ExitReaped
<1>2. ASSUME NEW c \in MS!Kid, MS!KidExit(c) PROVE MSInv'
  <2>1. kid[c] = "run" /\ kid' = [kid EXCEPT ![c] = "zombie"] /\ pend' = TRUE
        /\ UNCHANGED <<pc, numLiveChildren>>
    BY <1>2 DEF MS!KidExit
  <2>2. LiveKids' = LiveKids
    BY <2>1 DEF LiveKids, MSInv
  <2>3. numLiveChildren' = Cardinality(LiveKids')
    BY <2>1, <2>2 DEF MSInv
  <2> QED BY <2>1, <2>3 DEF MSInv, MS!ExitReaped
<1>3. CASE MS!Test
  <2>1. pc = "test" /\ UNCHANGED <<pend, kid, numLiveChildren>>
        /\ pc' = IF numLiveChildren > 0 THEN "suspend" ELSE "exit"
    BY <1>3 DEF MS!Test
  <2>2. UNCHANGED LiveKids
    BY <2>1 DEF LiveKids
  <2>3. MS!ExitReaped'
    <3>1. CASE numLiveChildren > 0
      BY <2>1, <3>1 DEF MS!ExitReaped
    <3>2. CASE ~(numLiveChildren > 0)
      <4>1. Cardinality(LiveKids) = 0
        BY <1>0, <3>2, FS_CardinalityType DEF MSInv
      <4>2. LiveKids = {}
        BY <1>0, <4>1, FS_EmptySet
      <4> QED BY <2>1, <4>2 DEF MS!ExitReaped, LiveKids
    <3> QED BY <3>1, <3>2
  <2> QED BY <2>1, <2>2, <2>3 DEF MSInv
<1>4. CASE MS!Deliver
  <2>1. UNCHANGED LiveKids
    BY <1>4 DEF MS!Deliver, LiveKids
  <2> QED BY <1>4, <2>1 DEF MS!Deliver, MSInv, MS!ExitReaped
<1>5. CASE MS!Reap
  <2>1. PICK c \in MS!Kid : kid[c] = "zombie" /\ kid' = [kid EXCEPT ![c] = "reaped"]
    BY <1>5, Zenon DEF MS!Reap
  <2>2. pc = "handler" /\ numLiveChildren' = numLiveChildren - 1 /\ UNCHANGED <<pc, pend>>
    BY <1>5 DEF MS!Reap
  <2>3. LiveKids' = LiveKids \ {c} /\ c \in LiveKids
    BY <2>1 DEF LiveKids, MSInv
  <2>4. Cardinality(LiveKids \ {c}) = Cardinality(LiveKids) - 1
    BY <1>0, <2>3, FS_RemoveElement
  <2>5. numLiveChildren' = Cardinality(LiveKids')
    BY <2>2, <2>3, <2>4 DEF MSInv
  <2> QED BY <2>1, <2>2, <2>5 DEF MSInv, MS!ExitReaped
<1>6. CASE MS!NoMore \/ MS!HandlerReturns \/ UNCHANGED MS!vars
  <2>1. UNCHANGED <<kid, pend, numLiveChildren>>
    BY <1>6 DEF MS!NoMore, MS!HandlerReturns, MS!vars
  <2>2. UNCHANGED LiveKids
    BY <2>1, Zenon DEF LiveKids
  <2> QED BY <1>6, <2>1, <2>2 DEF MS!NoMore, MS!HandlerReturns, MS!vars, MSInv, MS!ExitReaped
<1> QED BY <1>1, <1>2, <1>3, <1>4, <1>5, <1>6 DEF MS!Next, MS!Own

-----------------------------------------------------------------------------
VARIABLE wrEnd

PS == INSTANCE PipeSync

(* pipe_sync.  The parent reads when it has created all children. *)
PSInv ==
    /\ kid \in [PS!Kid -> {"none", "working", "closed"}]
    /\ pc \in {"fork", "close", "read", "exit", "failed"}
    /\ pc = "fork" => PS!Unborn # {}
    /\ pc \in {"close", "read", "exit"} => PS!Unborn = {}
    /\ PS!AllSynchronised

(* No child of pipe_sync is there at the start; there is one to create. *)
LEMMA PSStart == PS!Init => PSInv
<1> SUFFICES ASSUME PS!Init PROVE PSInv
  BY Zenon
<1>1. 1 \in PS!Unborn
  BY SigAssumption DEF PS!Init, PS!Unborn, PS!Kid
<1> QED BY <1>1 DEF PS!Init, PSInv, PS!AllSynchronised

(* fork() is called for the first child that is not there, until there is  *)
(* none; the end of file comes when every child has closed the pipe.       *)
LEMMA PSNext == PSInv /\ [PS!Next]_(PS!pipeVars) => PSInv'
<1> SUFFICES ASSUME PSInv, [PS!Next]_(PS!pipeVars) PROVE PSInv'
  BY Zenon
<1>1. CASE PS!Fork
  <2> DEFINE first == CHOOSE c \in PS!Unborn : \A d \in PS!Unborn : c <= d
  <2>1. PS!Unborn \subseteq Nat /\ PS!Unborn # {}
    BY <1>1 DEF PS!Fork, PSInv, PS!Unborn, PS!Kid
  <2>2. PICK m \in PS!Unborn : \A d \in PS!Unborn : m <= d
    <3>1. PICK m \in PS!Unborn : \A d \in PS!Unborn : ~(<<d, m>> \in OpToRel(<, Nat))
      BY <2>1, NatLessThanWellFounded, WFMin, Zenon
    <3>2. \A d \in PS!Unborn : d \in Nat /\ m \in Nat /\ ~(d < m)
      BY <2>1, <3>1, Zenon DEF OpToRel
    <3> QED BY <3>2
  <2>3. first \in PS!Unborn
    BY <2>2
  <2> HIDE DEF first
  <2>4. kid' = [kid EXCEPT ![first] = "working"]
    BY <1>1 DEF PS!Fork, first
  <2>5. pc = "fork" /\ pc' = IF PS!Cardinality(PS!Unborn) = 1 THEN "close" ELSE "fork"
    BY <1>1 DEF PS!Fork
  <2>6. PS!Cardinality(PS!Unborn) = Cardinality(PS!Unborn)
    BY Zenon DEF PS!Cardinality, Cardinality
  <2>7. PS!Unborn' = PS!Unborn \ {first} /\ first \in PS!Kid
    BY <2>3, <2>4 DEF PS!Unborn, PSInv
  <2>8. IsFiniteSet(PS!Unborn)
    <3>1. IsFiniteSet(PS!Kid)
      BY SigAssumption, FS_Interval DEF PS!Kid
    <3> QED BY <3>1, FS_Subset DEF PS!Unborn
  <2>9. Cardinality(PS!Unborn \ {first}) = Cardinality(PS!Unborn) - 1 /\ IsFiniteSet(PS!Unborn \ {first})
    BY <2>3, <2>8, FS_RemoveElement
  <2>10. CASE Cardinality(PS!Unborn) = 1
    <3>1. PS!Unborn' = {}
      BY <2>7, <2>9, <2>10, FS_EmptySet
    <3>2. pc' = "close"
      BY <2>5, <2>6, <2>10
    <3> QED BY <2>4, <2>7, <3>1, <3>2 DEF PSInv, PS!AllSynchronised
  <2>11. CASE Cardinality(PS!Unborn) # 1
    <3>0. Cardinality(PS!Unborn) \in Nat
      BY <2>8, FS_CardinalityType
    <3>1. Cardinality(PS!Unborn \ {first}) # 0
      BY <2>9, <2>11, <3>0
    <3>2. PS!Unborn' # {}
      BY <2>7, <3>1, FS_EmptySet
    <3>3. pc' = "fork"
      BY <2>5, <2>6, <2>11
    <3> QED BY <2>4, <2>7, <3>2, <3>3 DEF PSInv, PS!AllSynchronised
  <2> QED BY <2>10, <2>11
<1>2. CASE PS!KidStep
  <2>1. PICK c \in PS!Kid : kid[c] = "working" /\ kid' = [kid EXCEPT ![c] = "closed"]
    BY <1>2, Zenon DEF PS!KidStep
  <2>2. PS!Unborn' = PS!Unborn
    BY <2>1 DEF PS!Unborn, PSInv
  <2>3. UNCHANGED pc
    BY <1>2 DEF PS!KidStep
  <2> QED BY <2>1, <2>2, <2>3 DEF PSInv, PS!AllSynchronised
<1>3. CASE PS!Close \/ PS!ForkFails \/ UNCHANGED PS!pipeVars
  <2>1. UNCHANGED kid
    BY <1>3 DEF PS!Close, PS!ForkFails, PS!pipeVars
  <2>2. UNCHANGED PS!Unborn
    BY <2>1 DEF PS!Unborn
  <2> QED BY <1>3, <2>1, <2>2 DEF PS!Close, PS!ForkFails, PS!pipeVars, PSInv, PS!AllSynchronised
<1>4. CASE PS!Read
  <2>1. pc = "read" /\ UNCHANGED kid /\ \A c \in PS!Kid : kid[c] # "working"
    BY <1>4 DEF PS!Read
  <2>2. UNCHANGED PS!Unborn
    BY <2>1, Zenon DEF PS!Unborn
  <2>3. \A c \in PS!Kid : kid[c] = "closed"
    BY <2>1, Zenon DEF PSInv, PS!Unborn
  <2> QED BY <1>4, <2>1, <2>2, <2>3 DEF PS!Read, PSInv, PS!AllSynchronised
<1> QED BY <1>1, <1>2, <1>3, <1>4 DEF PS!Next, PS!Own

-----------------------------------------------------------------------------
(* The system: one program is run (prog); the variables of the others stay *)
(* at a fixed value.  timed_read and simple_init, of which only liveness is *)
(* claimed, come without lemmas.                                           *)

VARIABLES prog, restart, alarm, input, result, fg

TR == INSTANCE TimedRead
SI == INSTANCE SimpleInit

(* The variables that only the given program has. *)
spVars == <<sent, pipe, ready, isset, caught>>
dhVars == <<hupReceived, unslept, config, told, loaded>>
trVars == <<restart, alarm, input, result>>
mqVars == <<program, rpc, q, msgs, registered, early>>
sfVars == <<mask, disp, orig, origMask, cdisp, cstatus, status, typed, killed>>
ttVars == <<tprog, ignored, sigs, stack, stopped, tty, userTermios, wish, posted, bare, overlap>>
ssVars == <<uprog, kpend, sigmask, scnt, kscnt, gotSigquit, sentSigs>>
vars == <<prog, pc, pend, kid, kpc, numLiveChildren, spVars, dhVars, trVars, mqVars, sfVars,
          fg, ttVars, ssVars, wrEnd>>

NoKids == kid = 0
NoMS == numLiveChildren = 0
NoSP == sent = 0 /\ pipe = 0 /\ ready = 0 /\ isset = 0 /\ caught = 0
NoDH == hupReceived = 0 /\ unslept = 0 /\ config = 0 /\ told = 0 /\ loaded = 0
NoTR == restart = 0 /\ alarm = 0 /\ input = 0 /\ result = 0
NoMQ == program = 0 /\ rpc = 0 /\ q = 0 /\ msgs = 0 /\ registered = 0 /\ early = 0
NoSF == /\ mask = 0 /\ disp = 0 /\ orig = 0 /\ origMask = 0 /\ cdisp = 0 /\ cstatus = 0
        /\ status = 0 /\ typed = 0 /\ killed = 0
NoSI == fg = 0

NoTT == /\ tprog = 0 /\ ignored = 0 /\ sigs = 0 /\ stack = 0 /\ stopped = 0 /\ tty = 0
        /\ userTermios = 0 /\ wish = 0 /\ posted = 0 /\ bare = 0 /\ overlap = 0
NoSS == /\ uprog = 0 /\ kpend = 0 /\ sigmask = 0 /\ scnt = 0 /\ kscnt = 0 /\ gotSigquit = 0
        /\ sentSigs = 0
NoPS == wrEnd = 0

(* The variables of the programs that are not run *)
Others ==
    /\ prog # "multi_SIGCHLD" => NoMS
    /\ prog \notin {"multi_SIGCHLD", "system", "simple_init", "pipe_sync"} => NoKids
    /\ prog # "sigsuspend" => kpc = 0
    /\ prog # "self_pipe" => NoSP
    /\ prog # "daemon_SIGHUP" => NoDH
    /\ prog # "timed_read" => NoTR
    /\ prog # "mq_notify" => NoMQ
    /\ prog # "system" => NoSF
    /\ prog # "simple_init" => NoSI
    /\ prog # "tty" => NoTT
    /\ prog # "sigsuspend" => NoSS
    /\ prog # "pipe_sync" => NoPS

Init ==
    \/ prog = "multi_SIGCHLD" /\ MS!Init /\ Others
    \/ prog = "self_pipe" /\ SP!Init /\ Others
    \/ prog = "daemon_SIGHUP" /\ DH!Init /\ Others
    \/ prog = "timed_read" /\ TR!Init /\ pend = 0 /\ Others
    \/ prog = "mq_notify" /\ MQ!Init /\ pc = "none" /\ Others
    \/ prog = "system" /\ SF!Init /\ Others
    \/ prog = "simple_init" /\ SI!Init /\ Others
    \/ prog = "tty" /\ TT!Init /\ Others
    \/ prog = "sigsuspend" /\ SS!Init /\ Others
    \/ prog = "pipe_sync" /\ PS!Init /\ pend = 0 /\ Others

(* The variables that the program which is run does not have. *)
Frame ==
    /\ UNCHANGED prog
    /\ prog # "multi_SIGCHLD" => UNCHANGED numLiveChildren
    /\ prog \notin {"multi_SIGCHLD", "system", "simple_init", "pipe_sync"} => UNCHANGED kid
    /\ prog # "sigsuspend" => UNCHANGED kpc
    /\ prog # "self_pipe" => UNCHANGED spVars
    /\ prog # "daemon_SIGHUP" => UNCHANGED dhVars
    /\ prog # "timed_read" => UNCHANGED trVars
    /\ prog \in {"timed_read", "pipe_sync"} => UNCHANGED pend
    /\ prog # "mq_notify" => UNCHANGED mqVars
    /\ prog = "mq_notify" => UNCHANGED pc
    /\ prog # "system" => UNCHANGED sfVars
    /\ prog # "simple_init" => UNCHANGED fg
    /\ prog # "tty" => UNCHANGED ttVars
    /\ prog # "sigsuspend" => UNCHANGED ssVars
    /\ prog # "pipe_sync" => UNCHANGED wrEnd

(* What the program itself does when it can, and its children. *)
Own ==
    \/ prog = "multi_SIGCHLD" /\ MS!Own /\ Frame
    \/ prog = "self_pipe" /\ SP!Own /\ Frame
    \/ prog = "daemon_SIGHUP" /\ DH!Own /\ Frame
    \/ prog = "timed_read" /\ TR!Own /\ Frame
    \/ prog = "mq_notify" /\ MQ!Own /\ Frame
    \/ prog = "system" /\ SF!Own /\ Frame
    \/ prog = "simple_init" /\ SI!Own /\ Frame
    \/ prog = "tty" /\ TT!Own /\ Frame
    \/ prog = "sigsuspend" /\ SS!Own /\ Frame
    \/ prog = "pipe_sync" /\ PS!Own /\ Frame

Kids ==
    \/ prog = "multi_SIGCHLD" /\ (\E c \in MS!Kid : MS!KidExit(c)) /\ Frame
    \/ prog = "system" /\ SF!KidStep /\ Frame
    \/ prog = "simple_init" /\ SI!KidStep /\ Frame
    \/ prog = "sigsuspend" /\ SS!KidStep /\ Frame
    \/ prog = "pipe_sync" /\ PS!KidStep /\ Frame

(* The kernel delivers signals; an alarm goes off. *)
Delivery ==
    \/ prog = "daemon_SIGHUP" /\ DH!Handler /\ Frame
    \/ prog = "timed_read" /\ TR!Fire /\ Frame
    \/ prog = "tty" /\ TT!Delivered /\ Frame

(* What comes from outside, or does not come. *)
Environment ==
    \/ prog = "self_pipe" /\ (SP!SendInt \/ SP!FdReady \/ SP!Select(TRUE)) /\ Frame
    \/ prog = "daemon_SIGHUP" /\ (DH!Change \/ DH!Kill) /\ Frame
    \/ prog = "timed_read" /\ TR!Input /\ Frame
    \/ prog = "mq_notify" /\ MQ!Send /\ Frame
    \/ prog = "system" /\ (SF!CallersHandler \/ \E s \in SF!Typed : SF!Type(s)) /\ Frame
    \/ prog = "simple_init" /\ (SI!ReadCommand \/ SI!ForkFails \/ SI!Orphaned) /\ Frame
    \/ prog = "simple_init" /\ (\E c \in SI!Cmd : SI!KidStops(c)) /\ Frame
    \/ prog = "tty" /\ TT!Environment /\ Frame
    \/ prog = "sigsuspend" /\ SS!Environment /\ Frame
    \/ prog = "pipe_sync" /\ PS!ForkFails /\ Frame

Next == Own \/ Kids \/ Delivery \/ Environment

(* The programs run, their children end, signals that are not blocked are  *)
(* delivered.  Nothing from outside is owed to them.                       *)
Spec == Init /\ [][Next]_vars /\ WF_vars(Own) /\ WF_vars(Kids) /\ WF_vars(Delivery)

-----------------------------------------------------------------------------
(* No event is forgotten: a zombie has a SIGCHLD pending when the parent   *)
(* waits; a configuration told of by SIGHUP is read or the flag is set; a  *)
(* message in the queue has a reader that was told.                        *)
NothingForgotten ==
    /\ prog = "multi_SIGCHLD" => MS!ZombieSignalled
    /\ prog = "daemon_SIGHUP" => DH!ToldIsKept
    /\ prog = "mq_notify" => MQ!NotifiedOrEmpty /\ MQ!RegisteredOnce

(* The programs end, or go on, only when what they wait for has happened:  *)
(* all children reaped, the signal reported, the child's work done, the    *)
(* other's turn over.                                                      *)
WaitedFor ==
    /\ prog = "multi_SIGCHLD" => MS!ExitReaped
    /\ prog = "self_pipe" => SP!CaughtIsReported
    /\ prog = "sigsuspend" => SS!InTurn /\ SS!ParentWaits
    /\ prog = "pipe_sync" => PS!AllSynchronised

(* What was changed is put back: system() returns its own child's status,  *)
(* with the caller's mask and dispositions restored, and what is typed     *)
(* while the command runs is for the command; test_tty_functions gives the *)
(* terminal back whenever it stops or ends, and has it again, with its     *)
(* handler, when it goes on.                                               *)
Restored ==
    /\ prog = "system" => SF!ReturnsStatus /\ SF!TypedForCommand
    /\ prog = "tty" => TT!TerminalGivenBack /\ TT!BackInForce

(* The programs respond: they end, or do what the event asked for.         *)
Responds ==
    /\ (prog = "multi_SIGCHLD" \/ (prog = "sigsuspend" /\ uprog = "fork_sync")) ~> pc = "exit"
    /\ (prog = "self_pipe" /\ caught = TRUE) ~> pc = "exit"
    /\ (prog = "timed_read") ~> (prog = "timed_read" /\ (pc = "exit" \/ TR!Unlimited))
    /\ (prog = "mq_notify") ~> [](prog = "mq_notify" /\ (q = 0 \/ early))
    /\ (prog = "system") ~> (prog = "system" /\ (pc = "return" \/ killed))
    /\ \A v \in 1 .. MaxSignals :
         (prog = "daemon_SIGHUP" /\ told >= v)
            ~> (prog = "daemon_SIGHUP" /\ (loaded >= v \/ pc = "exit"))
    /\ (prog = "tty" /\ "TERM" \in pend) ~> (prog = "tty" /\ (pc = "exit" \/ stopped))
    /\ (prog = "sigsuspend" /\ uprog = "sig_speed") ~> (prog = "sigsuspend" /\ pc = "exit" /\ kpc = "exit")
    /\ (prog = "sigsuspend" /\ "QUIT" \in pend) ~> (pc = "exit")
    /\ (prog = "pipe_sync") ~> (pc \in {"exit", "failed"})
    /\ \A c \in 0 .. NumKids :
         (prog = "simple_init" /\ kid[c] = "zombie")
            ~> (prog = "simple_init" /\ (kid[c] = "reaped" \/ pc = "exit"))

-----------------------------------------------------------------------------
(* The invariant of the system. *)
SigInv ==
    /\ prog = "multi_SIGCHLD" => MSInv
    /\ prog = "self_pipe" => SPInv
    /\ prog = "daemon_SIGHUP" => DHInv
    /\ prog = "mq_notify" => MQInv
    /\ prog = "pipe_sync" => PSInv
    /\ prog = "sigsuspend" => SSInv
    /\ prog = "system" => SFInv
    /\ prog = "tty" => TTInv

(* Each program starts in a state of its invariant. *)
LEMMA SuiteStart == Init => SigInv
  BY MSStart, SPStart, DHStart, MQStart, PSStart, SSStart, SFStart, TTStart DEF Init, SigInv

(* A step of the suite is one of the program that is run. *)
LEMMA SuiteStep == SigInv /\ [Next]_vars => SigInv'
<1> SUFFICES ASSUME SigInv, [Next]_vars PROVE SigInv'
  BY Zenon
<1>1. UNCHANGED prog
  BY Zenon DEF Next, Own, Kids, Delivery, Environment, Frame, vars
<1>2. CASE prog = "multi_SIGCHLD"
  <2>1. [MS!Next]_(MS!vars)
    BY <1>2, Zenon DEF Next, Own, Kids, Delivery, Environment, MS!Next, vars, MS!vars
  <2>2. MSInv'
    BY <1>2, <2>1, MSNext DEF SigInv
  <2> QED BY <1>1, <1>2, <2>2 DEF SigInv
<1>3. CASE prog = "self_pipe"
  <2>1. [SP!Next]_(SP!vars)
    BY <1>3, Zenon DEF Next, Own, Kids, Delivery, Environment, SP!Next, vars, spVars, SP!vars
  <2>2. SPInv'
    BY <1>3, <2>1, SPNext DEF SigInv
  <2> QED BY <1>1, <1>3, <2>2 DEF SigInv
<1>4. CASE prog = "daemon_SIGHUP"
  <2>1. [DH!Next]_(DH!vars)
    BY <1>4, Zenon DEF Next, Own, Kids, Delivery, Environment, DH!Next, vars, dhVars, DH!vars
  <2>2. DHInv'
    BY <1>4, <2>1, DHNext DEF SigInv
  <2> QED BY <1>1, <1>4, <2>2 DEF SigInv
<1>5. CASE prog = "mq_notify"
  <2>1. [MQ!Next]_(MQ!vars)
    BY <1>5, Zenon DEF Next, Own, Kids, Delivery, Environment, MQ!Next, vars, mqVars, MQ!vars
  <2>2. MQInv'
    BY <1>5, <2>1, MQNext DEF SigInv
  <2> QED BY <1>1, <1>5, <2>2 DEF SigInv
<1>6. CASE prog = "pipe_sync"
  <2>1. [PS!Next]_(PS!pipeVars)
    BY <1>6, Zenon DEF Next, Own, Kids, Delivery, Environment, PS!Next, vars, PS!pipeVars
  <2>2. PSInv'
    BY <1>6, <2>1, PSNext DEF SigInv
  <2> QED BY <1>1, <1>6, <2>2 DEF SigInv
<1>7. CASE prog = "sigsuspend"
  <2>1. [SS!Next]_(SS!suspVars)
    BY <1>7 DEF Next, Own, Kids, Delivery, Environment, SS!Next, vars, ssVars, SS!suspVars
  <2>2. SSInv'
    BY <1>7, <2>1, SSNext DEF SigInv
  <2> QED BY <1>1, <1>7, <2>2 DEF SigInv
<1>8. CASE prog = "system"
  <2>1. [SF!Next]_(SF!vars)
    BY <1>8, Zenon DEF Next, Own, Kids, Delivery, Environment, SF!Next, vars, sfVars, SF!vars
  <2>2. SFInv'
    BY <1>8, <2>1, SFNext DEF SigInv
  <2> QED BY <1>1, <1>8, <2>2 DEF SigInv
<1>9. CASE prog = "tty"
  <2>1. [TT!Next]_(TT!ttyVars)
    BY <1>9, Zenon DEF Next, Own, Kids, Delivery, Environment, TT!Next, vars, ttVars, TT!ttyVars
  <2>2. TTInv'
    BY <1>9, <2>1, TTNext DEF SigInv
  <2> QED BY <1>1, <1>9, <2>2 DEF SigInv
<1>10. CASE prog \notin {"multi_SIGCHLD", "self_pipe", "daemon_SIGHUP", "mq_notify", "pipe_sync", "sigsuspend",
                         "system", "tty"}
  BY <1>1, <1>10 DEF SigInv
<1> QED BY <1>2, <1>3, <1>4, <1>5, <1>6, <1>7, <1>8, <1>9, <1>10

(* The invariants hold in all behaviours. *)
LEMMA SuiteInv == Spec => []SigInv
  BY SuiteStart, SuiteStep, PTL DEF Spec

(* No event is forgotten, for any number of children, signals and          *)
(* messages: multi_SIGCHLD's handler leaves no zombie without a signal,    *)
(* daemon_SIGHUP reads the configuration it was told of, and the readers   *)
(* of the message queue are told of every message and never refused their  *)
(* registration.                                                           *)
THEOREM NobodyForgotten == Spec => []NothingForgotten
<1>1. MSInv => MS!ZombieSignalled
  <2>1. MS!Cardinality({c \in MS!Kid : kid[c] # "reaped"}) = Cardinality(LiveKids)
    BY Zenon DEF MS!Cardinality, Cardinality, LiveKids
  <2> QED BY <2>1, Zenon DEF MSInv, MS!ZombieSignalled
<1>2. SigInv => NothingForgotten
  BY <1>1 DEF SigInv, NothingForgotten, DHInv, MQInv, MQToken, MQ!RegisteredOnce
<1> QED BY <1>2, SuiteInv, PTL

(* No program goes on before what it waits for has happened: the children  *)
(* of multi_SIGCHLD are reaped, those of pipe_sync have closed the pipe,   *)
(* self_pipe reports what it caught, parent and child of sig_speed keep to *)
(* their turns, and that of fork_sig_sync has done its work.               *)
THEOREM GoesOnInTime == Spec => []WaitedFor
<1>1. SSInv => SS!InTurn /\ SS!ParentWaits
  <2> SUFFICES ASSUME SSInv PROVE SS!InTurn /\ SS!ParentWaits
    BY Zenon
  <2>1. SS!ParentWaits
    BY Zenon DEF SSInv, SyncInv, SS!ParentWaits
  <2>2. SS!InTurn
    BY SigAssumption DEF SSInv, SpeedInv, SpeedTurn, SS!InTurn, SS!numSigs
  <2> QED BY <2>1, <2>2
<1>2. SigInv => WaitedFor
  BY <1>1 DEF SigInv, WaitedFor, MSInv, SPInv, PSInv
<1> QED BY <1>2, SuiteInv, PTL

(* system() puts mask and dispositions back and returns its own child's    *)
(* status, whatever is typed and whoever else waits for children; and      *)
(* test_tty_functions has the terminal in the user's mode whenever it      *)
(* stops or ends, however its handlers interrupt each other.               *)
THEOREM AllRestored == Spec => []Restored
<1>1. SFInv => SF!ReturnsStatus /\ SF!TypedForCommand
  BY Zenon DEF SFInv, CallerInv, KidInv, ForCommand, SF!ReturnsStatus, SF!TypedForCommand, SF!Typed
<1>2. SigInv => Restored
  BY <1>1, TTExit, Zenon DEF SigInv, Restored
<1> QED BY <1>2, SuiteInv, PTL
=============================================================================
