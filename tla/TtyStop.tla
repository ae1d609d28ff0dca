------------------------------ MODULE TtyStop ------------------------------
(***************************************************************************)
(* Job control: handling_SIGTSTP, and test_tty_functions in cbreak or raw  *)
(* mode, whose handlers give the terminal back before the process stops or *)
(* ends.  A handler blocks only its own signal, so handlers interrupt each *)
(* other: stack holds the calls that are in progress, the running one      *)
(* last.  "own" is the mode the program sets; the user wants "u1" and may  *)
(* choose "u2" while the program is stopped.                               *)
(***************************************************************************)
EXTENDS SigParams, Sequences

VARIABLES
    pc,           \* where main() is
    pend,         \* the set of pending signals
    tprog,        \* "SIGTSTP", "cbreak" or "raw"
    ignored,      \* signals that were ignored when the program started
    sigs,         \* the disposition of each signal
    stack,
    stopped,
    tty,          \* the settings of the terminal
    userTermios,
    wish,         \* the settings the user chose last
    posted,       \* signals sent so far
    bare,         \* history: a signal met its default action
    overlap       \* history: a handler met another, or main() at its end
ttyVars == <<pc, pend, tprog, ignored, sigs, stack, stopped, tty, userTermios, wish, posted, bare,
             overlap>>
setup == <<tprog, ignored>>
outside == <<wish, posted>>
history == <<bare, overlap>>

Sig == {"INT", "TSTP", "TERM"}
Running == pc # "exit" /\ ~stopped
Main == Running /\ stack = <<>>
Top == stack[Len(stack)]
InHandler(at) == Running /\ stack # <<>> /\ Top.at = at
Goto(at) == stack' = [stack EXCEPT ![Len(stack)].at = at]
Return == stack' = SubSeq(stack, 1, Len(stack) - 1)
Blocked == {stack[i].sig : i \in {k \in DOMAIN stack : stack[k].at # "reblock"}}

(* sigaction(), if the signal is not ignored *)
Catch(s) == sigs' = [sigs EXCEPT ![s] = IF s \in ignored THEN @ ELSE "handler"]

-----------------------------------------------------------------------------
(* main() *)

(* ttySetCbreak(), ttySetRaw(): the old settings are kept, then changed. *)
Save ==
    /\ Main /\ pc = "save" /\ pc' = "set"
    /\ userTermios' = tty
    /\ UNCHANGED <<pend, setup, sigs, stack, stopped, tty, outside, history>>

Set ==
    /\ Main /\ pc = "set"
    /\ pc' = IF tprog = "cbreak" THEN "catchInt" ELSE "catchTerm"
    /\ tty' = "own"
    /\ UNCHANGED <<pend, setup, sigs, stack, stopped, userTermios, outside, history>>

(* SIGQUIT is treated as SIGINT is. *)
CatchInt ==
    /\ Main /\ pc = "catchInt" /\ pc' = "catchTstp"
    /\ Catch("INT")
    /\ UNCHANGED <<pend, setup, stack, stopped, tty, userTermios, outside, history>>

CatchTstp ==
    /\ Main /\ pc = "catchTstp"
    /\ pc' = IF tprog = "SIGTSTP" THEN "loop" ELSE "catchTerm"
    /\ Catch("TSTP")
    /\ UNCHANGED <<pend, setup, stack, stopped, tty, userTermios, outside, history>>

CatchTerm ==
    /\ Main /\ pc = "catchTerm" /\ pc' = "loop"
    /\ sigs' = [sigs EXCEPT !["TERM"] = "handler"]
    /\ UNCHANGED <<pend, setup, stack, stopped, tty, userTermios, outside, history>>

(* read() returns 'q', end of file or an error; handling_SIGTSTP pauses    *)
(* for ever.                                                               *)
Quit ==
    /\ Main /\ pc = "loop" /\ tprog # "SIGTSTP" /\ pc' = "restore"
    /\ UNCHANGED <<pend, setup, sigs, stack, stopped, tty, userTermios, outside, history>>

Restore ==
    /\ Main /\ pc = "restore" /\ pc' = "end"
    /\ tty' = userTermios
    /\ UNCHANGED <<pend, setup, sigs, stack, stopped, userTermios, outside, history>>

Exit ==
    /\ Main /\ pc = "end" /\ pc' = "exit"
    /\ UNCHANGED <<pend, setup, sigs, stack, stopped, tty, userTermios, outside, history>>

-----------------------------------------------------------------------------
(* handler(): give the terminal back, _exit() *)

GiveBack ==
    /\ InHandler("giveBack") /\ Goto("_exit")
    /\ tty' = userTermios
    /\ UNCHANGED <<pc, pend, setup, sigs, stopped, userTermios, outside, history>>

HandlerExit ==
    /\ InHandler("_exit") /\ pc' = "exit"
    /\ UNCHANGED <<pend, setup, sigs, stack, stopped, tty, userTermios, outside, history>>

-----------------------------------------------------------------------------
(* tstpHandler(), of which handling_SIGTSTP has all but the terminal *)

(* Mutant: the terminal is not given back before the process stops. *)
OursKept ==
    /\ InHandler("ours")
    /\ stack' = [stack EXCEPT ![Len(stack)].at = "default", ![Len(stack)].ours = tty]
    /\ UNCHANGED <<pc, pend, setup, sigs, stopped, tty, userTermios, outside, history>>

Ours ==
    /\ InHandler("ours")
    /\ stack' = [stack EXCEPT ![Len(stack)].at = "give", ![Len(stack)].ours = tty]
    /\ UNCHANGED <<pc, pend, setup, sigs, stopped, tty, userTermios, outside, history>>

Give ==
    /\ InHandler("give") /\ Goto("default")
    /\ tty' = userTermios
    /\ UNCHANGED <<pc, pend, setup, sigs, stopped, userTermios, outside, history>>

(* signal(SIGTSTP, SIG_DFL); raise(SIGTSTP), which is blocked *)
Default ==
    /\ InHandler("default") /\ Goto("raise")
    /\ sigs' = [sigs EXCEPT !["TSTP"] = "default"]
    /\ UNCHANGED <<pc, pend, setup, stopped, tty, userTermios, outside, history>>

Raise ==
    /\ InHandler("raise") /\ Goto("unblock")
    /\ pend' = pend \cup {"TSTP"}
    /\ UNCHANGED <<pc, setup, sigs, stopped, tty, userTermios, outside, history>>

(* SIG_UNBLOCK: the process stops in this call, unless a SIGCONT has       *)
(* discarded the pending signal.                                           *)
Unblock ==
    /\ InHandler("unblock") /\ Goto("reblock")
    /\ stopped' = ("TSTP" \in pend)
    /\ pend' = pend \ {"TSTP"}
    /\ UNCHANGED <<pc, setup, sigs, tty, userTermios, outside, history>>

Reblock ==
    /\ InHandler("reblock") /\ Goto("again")
    /\ UNCHANGED <<pc, pend, setup, sigs, stopped, tty, userTermios, outside, history>>

(* The handler is established again; handling_SIGTSTP is done. *)
Again ==
    /\ InHandler("again")
    /\ sigs' = [sigs EXCEPT !["TSTP"] = "handler"]
    /\ IF tprog = "SIGTSTP" THEN Return ELSE Goto("reread")
    /\ UNCHANGED <<pc, pend, setup, stopped, tty, userTermios, outside, history>>

(* The settings may have been changed meanwhile. *)
Reread ==
    /\ InHandler("reread") /\ Goto("take")
    /\ userTermios' = tty
    /\ UNCHANGED <<pc, pend, setup, sigs, stopped, tty, outside, history>>

Take ==
    /\ InHandler("take") /\ Return
    /\ tty' = Top.ours
    /\ UNCHANGED <<pc, pend, setup, sigs, stopped, userTermios, outside, history>>

-----------------------------------------------------------------------------
(* The kernel delivers a signal that is not blocked.  Stop or end is the   *)
(* default.                                                                *)
Deliver(s) ==
    /\ Running /\ s \in pend \ Blocked /\ pend' = pend \ {s}
    /\ UNCHANGED <<setup, sigs, tty, userTermios, outside>>
    /\ \/ /\ sigs[s] = "handler"
          /\ stack' = Append(stack, [sig |-> s, ours |-> tty,
                                     at |-> IF s # "TSTP" THEN "giveBack"
                                            ELSE IF tprog = "SIGTSTP" THEN "default" ELSE "ours"])
          /\ overlap' = (overlap \/ stack # <<>> \/ pc = "end")
          /\ UNCHANGED <<pc, stopped, bare>>
       \/ /\ sigs[s] = "default"
          /\ stopped' = (s = "TSTP") /\ pc' = (IF s = "TSTP" THEN pc ELSE "exit")
          /\ bare' = (bare \/ \A i \in DOMAIN stack : stack[i].at # "reblock")
          /\ UNCHANGED <<stack, overlap>>
       \/ sigs[s] = "ignore" /\ UNCHANGED <<pc, stack, stopped, history>>

(* From the keyboard (not in raw mode) or another process *)
Post(s) ==
    /\ posted < MaxSignals /\ posted' = posted + 1 /\ pc # "exit"
    /\ pend' = pend \cup {s}
    /\ UNCHANGED <<pc, setup, sigs, stack, stopped, tty, userTermios, wish, history>>

(* SIGCONT discards a pending SIGTSTP. *)
Cont ==
    /\ pc # "exit" /\ (stopped \/ "TSTP" \in pend)
    /\ stopped' = FALSE /\ pend' = pend \ {"TSTP"}
    /\ UNCHANGED <<pc, setup, sigs, stack, tty, userTermios, outside, history>>

(* At the shell, while the program is stopped *)
UserSets ==
    /\ stopped /\ wish = "u1"
    /\ wish' = "u2" /\ tty' = "u2"
    /\ UNCHANGED <<pc, pend, setup, sigs, stack, stopped, userTermios, posted, history>>

Init ==
    /\ tprog \in {"SIGTSTP", "cbreak", "raw"} /\ ignored \in SUBSET {"INT", "TSTP"}
    /\ pc = (IF tprog = "SIGTSTP" THEN "catchTstp" ELSE "save")
    /\ pend = {} /\ stack = <<>> /\ stopped = FALSE
    /\ sigs = [s \in Sig |-> IF s \in ignored THEN "ignore" ELSE "default"]
    /\ tty = "u1" /\ wish = "u1" /\ userTermios = "none"
    /\ posted = 0 /\ bare = FALSE /\ overlap = FALSE

MainStep == Save \/ Set \/ CatchInt \/ CatchTstp \/ CatchTerm \/ Restore \/ Exit
HandlerStep == GiveBack \/ HandlerExit \/ Ours \/ Give \/ Default \/ Raise \/ Unblock
                 \/ Reblock \/ Again \/ Reread \/ Take
Own == MainStep \/ HandlerStep
Delivered == \E s \in Sig : Deliver(s)
Environment == Quit \/ (\E s \in Sig : Post(s)) \/ Cont \/ UserSets
Next == Own \/ Delivered \/ Environment
Spec == Init /\ [][Next]_ttyVars /\ WF_ttyVars(Own) /\ WF_ttyVars(Delivered)

-----------------------------------------------------------------------------
(* test_tty_functions stops or ends only with the terminal in the user's   *)
(* mode, and with the settings chosen last unless one handler interrupted  *)
(* another.  Signals it does not catch (yet) are excepted.                 *)
TerminalGivenBack ==
    (stopped \/ pc = "exit") /\ ~bare =>
        /\ tty # "own"
        /\ overlap \/ tty = wish

(* After tstpHandler() has returned, SIGTSTP is caught again and the       *)
(* program's mode is set.                                                  *)
BackInForce ==
    Main /\ pc = "loop" =>
        /\ "TSTP" \notin ignored /\ tprog # "raw" => sigs["TSTP"] = "handler"
        /\ tprog = "SIGTSTP" \/ bare \/ tty = "own"
=============================================================================
