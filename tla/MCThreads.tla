----------------------------- MODULE MCThreads -----------------------------
(***************************************************************************)
(* What threads share and what they do not: they log at the same time;     *)
(* when all messages are written, logging having been initialized before,  *)
(* they reach a conditional logging macro or one of them sets errors.      *)
(***************************************************************************)
EXTENDS LoggingThreads, LogMacros, ErrorHandling

MCMessages == {<<>>, <<"m">>, <<"n", "m", "o", "p">>}
MCFiles == {<<"f">>, <<"g", "h", "i">>}
MCThreadsVars == <<vars, macroVars, errorVars>>

ThreadsInit == Init /\ MacroInit /\ feature = "EMPTY" /\ ErrorInit
LogThreads(t) ==
  /\ MacroInit /\ feature = "EMPTY" /\ ErrorInit
  /\ Step(t) /\ UNCHANGED <<initFirst, macroVars, errorVars>>
AllWritten == initFirst /\ \A t \in Thread : pc[t] = "written"
ReachMacro(f) ==
  /\ AllWritten /\ MacroInit /\ feature = "EMPTY" /\ ErrorInit
  /\ feature' = f
  /\ UNCHANGED <<vars, siteVars, clock, step, conditions, now, calls, late, historyVars, undisturbed, errorVars>>
ThreadsNext ==
  \/ \E t \in Thread : LogThreads(t)
  \/ \E f \in DOMAIN Conditions : ReachMacro(f)
  \/ AllWritten /\ ErrorInit /\ MacroNext /\ UNCHANGED <<vars, errorVars>>
  \/ AllWritten /\ MacroInit /\ feature = "EMPTY" /\ ErrorNext /\ UNCHANGED <<vars, macroVars>>
\* The threads that log are scheduled again and again; no step of theirs waits.
ThreadsSpec ==
  ThreadsInit /\ [][ThreadsNext]_MCThreadsVars /\ \A t \in Thread : WF_MCThreadsVars(LogThreads(t))
=============================================================================
