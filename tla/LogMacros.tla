----------------------------- MODULE LogMacros -----------------------------
(***************************************************************************)
(* resource/logging_macros.h.em and the feature combinations of            *)
(* rcutils/logging.py: one place in the code with a conditional logging    *)
(* macro, which several threads reach.  The conditions keep static         *)
(* variables that nothing protects; a step of a thread reads or writes     *)
(* them once.  Data races are resolved as interleavings.                   *)
(***************************************************************************)
EXTENDS Integers, Sequences

CONSTANTS
  Caller,      \* the threads
  Duration,    \* of the throttle condition
  MaxClock,    \* bound: the time passes until then
  MaxCalls     \* bound: how often a thread gets there

ASSUME MacroAssumption == Duration \in Nat \ {0} /\ MaxClock \in Nat /\ MaxCalls \in Nat

VARIABLES
  feature,     \* the macro: the suffix of its name, see Conditions
  once, first, lastLogged,   \* the static variables of the conditions
  clock,       \* what get_time_point_value reads
  step,        \* what each thread does next: "idle", "test" or "set" a condition, or "log"
  conditions,  \* the conditions each thread has still to pass
  now,         \* __rcutils_logging_now of each thread
  calls,       \* how often each thread has got there
  late,        \* history: whether a call had been decided when the thread's call began
  outcomes,    \* history: how calls ended, [late, logged]
  undisturbed, \* history: no calls overlap, and the clock has not failed in this one
  stamps       \* history: when messages were logged since calls last overlapped, or
               \* the clock failed

siteVars == <<once, first, lastLogged>>
historyVars == <<outcomes, stamps>>
macroVars == <<feature, siteVars, clock, step, conditions, now, calls, late, historyVars, undisturbed>>

(* The condition_before macros, in the order feature_combinations gives them. *)
(* A function is an expression; a name changes nothing.                       *)
Conditions ==
  [EMPTY |-> <<>>, ONCE |-> <<"once">>, EXPRESSION |-> <<"expression">>, SKIPFIRST |-> <<"skip_first">>,
   THROTTLE |-> <<"throttle">>, SKIPFIRST_THROTTLE |-> <<"throttle", "skip_first">>]

MacroInit ==
  /\ feature \in DOMAIN Conditions
  /\ once = 0 /\ first = TRUE /\ lastLogged = 0 /\ clock = 0
  /\ step = [t \in Caller |-> "idle"]
  /\ conditions = [t \in Caller |-> <<>>]
  /\ now = [t \in Caller |-> 0] /\ calls = [t \in Caller |-> 0]
  /\ late = [t \in Caller |-> FALSE]
  /\ outcomes = {} /\ stamps = <<>> /\ undisturbed = TRUE

At(t, label, condition) == step[t] = label /\ conditions[t] # <<>> /\ Head(conditions[t]) = condition
\* The condition holds: the next one is tested.  It does not: the call ends.
Passes(t) ==
  /\ conditions' = [conditions EXCEPT ![t] = Tail(@)]
  /\ step' = [step EXCEPT ![t] = IF Len(conditions[t]) = 1 THEN "log" ELSE "test"]
  /\ UNCHANGED historyVars
Ends(t, logged) ==
  /\ conditions' = [conditions EXCEPT ![t] = <<>>]
  /\ step' = [step EXCEPT ![t] = "idle"]
  /\ outcomes' = outcomes \union {[late |-> late[t], logged |-> logged]}
  /\ stamps' = IF logged /\ undisturbed THEN Append(stamps, now[t]) ELSE stamps
GoesOnTo(t, label) ==
  /\ step' = [step EXCEPT ![t] = label]
  /\ UNCHANGED <<conditions, historyVars>>

(* RCUTILS_LOG_COND_NAMED: a call for a logger that is not enabled evaluates  *)
(* no condition and changes nothing.                                          *)
CallMacro(t) ==
  /\ step[t] = "idle" /\ calls[t] < MaxCalls
  /\ calls' = [calls EXCEPT ![t] = @ + 1]
  /\ late' = [late EXCEPT ![t] = outcomes # {}]
  /\ undisturbed' = \A u \in Caller : step[u] = "idle"
  /\ stamps' = IF \A u \in Caller : step[u] = "idle" THEN stamps ELSE <<>>
  /\ conditions' = [conditions EXCEPT ![t] = Conditions[feature]]
  /\ step' = [step EXCEPT ![t] = IF Conditions[feature] = <<>> THEN "log" ELSE "test"]
  /\ now' = [now EXCEPT ![t] = 0]
  /\ UNCHANGED <<feature, siteVars, clock, outcomes>>
\* rcutils_log_internal
LogMessage(t) ==
  /\ step[t] = "log" /\ Ends(t, TRUE)
  /\ UNCHANGED <<feature, siteVars, clock, now, calls, late, undisturbed>>

(* RCUTILS_LOG_CONDITION_EXPRESSION_BEFORE and _FUNCTION_BEFORE *)
TestExpression(t) ==
  /\ At(t, "test", "expression")
  /\ Passes(t) \/ Ends(t, FALSE)
  /\ UNCHANGED <<feature, siteVars, clock, now, calls, late, undisturbed>>

(* RCUTILS_LOG_CONDITION_ONCE_BEFORE *)
TestOnce(t) ==
  /\ At(t, "test", "once")
  /\ IF once = 0 THEN GoesOnTo(t, "set") ELSE Ends(t, FALSE)
  /\ UNCHANGED <<feature, siteVars, clock, now, calls, late, undisturbed>>
\* Mutant: the variable is not set.
OnceForgotten == once
OnceSet == 1
SetOnce(t) ==
  /\ At(t, "set", "once") /\ Passes(t)
  /\ once' = OnceSet
  /\ UNCHANGED <<feature, first, lastLogged, clock, now, calls, late, undisturbed>>

(* RCUTILS_LOG_CONDITION_SKIPFIRST_BEFORE *)
TestFirst(t) ==
  /\ At(t, "test", "skip_first")
  /\ IF first THEN GoesOnTo(t, "set") ELSE Passes(t)
  /\ UNCHANGED <<feature, siteVars, clock, now, calls, late, undisturbed>>
SetFirst(t) ==
  /\ At(t, "set", "skip_first") /\ Ends(t, FALSE)
  /\ first' = FALSE
  /\ UNCHANGED <<feature, once, lastLogged, clock, now, calls, late, undisturbed>>

(* RCUTILS_LOG_CONDITION_THROTTLE_BEFORE: reads the time; without one that is *)
(* logged as an error, and the condition holds, at time zero                  *)
ReadClock(t) ==
  /\ At(t, "test", "throttle") /\ GoesOnTo(t, "compare")
  /\ now' = [now EXCEPT ![t] = clock]
  /\ UNCHANGED <<feature, siteVars, clock, calls, late, undisturbed>>
ReadClockFails(t) ==
  /\ At(t, "test", "throttle") /\ step' = [step EXCEPT ![t] = "set"]
  /\ undisturbed' = FALSE /\ stamps' = <<>>
  /\ UNCHANGED <<feature, siteVars, clock, conditions, now, calls, late, outcomes>>
\* Mutant: one unit of time is missing.
LongEnoughAlmost(t) == now[t] + 1 >= lastLogged + Duration
LongEnough(t) == now[t] >= lastLogged + Duration
CompareTime(t) ==
  /\ At(t, "compare", "throttle")
  /\ IF LongEnough(t) THEN GoesOnTo(t, "set") ELSE Ends(t, FALSE)
  /\ UNCHANGED <<feature, siteVars, clock, now, calls, late, undisturbed>>
SetLastLogged(t) ==
  /\ At(t, "set", "throttle") /\ Passes(t)
  /\ lastLogged' = now[t]
  /\ UNCHANGED <<feature, once, first, clock, now, calls, late, undisturbed>>

TimePasses ==
  /\ clock < MaxClock /\ clock' = clock + 1
  /\ UNCHANGED <<feature, siteVars, step, conditions, now, calls, late, historyVars, undisturbed>>

MacroStep(t) ==
  \/ CallMacro(t) \/ LogMessage(t) \/ TestExpression(t) \/ TestOnce(t) \/ SetOnce(t)
  \/ TestFirst(t) \/ SetFirst(t)
  \/ ReadClock(t) \/ ReadClockFails(t) \/ CompareTime(t) \/ SetLastLogged(t)
MacroNext == TimePasses \/ \E t \in Caller : MacroStep(t)

MacroSpec == MacroInit /\ [][MacroNext]_macroVars

-----------------------------------------------------------------------------
(* However threads race to the first call: ONCE logs at least one call, and  *)
(* none that begins when another has been decided; SKIPFIRST ignores at      *)
(* least one call, and none that begins when another has been decided.       *)
Quiet == \A t \in Caller : step[t] = "idle"
FirstCallIsSpecial ==
  LET Special == feature = "ONCE"
  IN feature \in {"ONCE", "SKIPFIRST"} =>
       /\ \A o \in outcomes : o.late => o.logged # Special
       /\ (Quiet /\ outcomes # {}) => \E o \in outcomes : o.logged = Special

(* "Log calls are being ignored if the last logged message is not longer ago *)
(* than the specified duration" (logging.py:65): calls that do not overlap   *)
(* log messages at least that far apart, and do so again once calls have     *)
(* overlapped, when a thread that was held up can set the time back, or the  *)
(* clock has failed, which sets it to zero.  The code compares with >=, so a *)
(* call exactly the duration after the last message logs, where the sentence *)
(* taken literally has it ignored.                                           *)
ThrottleKeepsInterval ==
  feature \in {"THROTTLE", "SKIPFIRST_THROTTLE"} =>
     \A i, j \in DOMAIN stamps : i < j => stamps[j] >= stamps[i] + Duration
=============================================================================
