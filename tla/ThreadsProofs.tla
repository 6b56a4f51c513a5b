---------------------------- MODULE ThreadsProofs ---------------------------
(***************************************************************************)
(* What holds for any number of threads: when they log, whatever the       *)
(* number of parts of the output format, and when they reach a macro with  *)
(* conditions, whatever its duration.  And what one thread is told of its  *)
(* errors, all of whose state is its own.                                  *)
(***************************************************************************)
EXTENDS LoggingThreads, LogMacros, ErrorHandling, SequenceTheorems, WellFoundedInduction, TLAPS

Label == {"autoinit", "initialize", "reset", "zero_map", "init_map", "no_handlers",
          "add_handler", "level", "handle", "format", "written", "dropped"}

ThreadsTypeOK ==
  /\ initFirst \in BOOLEAN /\ initialized \in BOOLEAN /\ failed \in BOOLEAN
  /\ pc \in [Thread -> Label]
  /\ DOMAIN out = Thread /\ DOMAIN autoinits = Thread /\ DOMAIN parsed = Thread

\* A thread that finds logging initialized leaves every global variable alone,
\* and what it has formatted is the beginning of the format.
InitializedIsStable ==
  initFirst =>
    /\ initialized /\ handler = "console" /\ map = "first" /\ handlers = Format
    /\ \A t \in Thread :
         /\ pc[t] \in {"autoinit", "level", "handle", "format", "written"}
         /\ out[t] \in Seq(Nat) /\ Len(out[t]) <= Parts
         /\ \A i \in 1 .. Len(out[t]) : out[t][i] = i
         /\ pc[t] = "written" => Len(out[t]) = Parts

\* A thread that takes the map away puts one there next; before the first one
\* is there, no thread gets as far as the list of handlers.
MapComesBack ==
  (~failed /\ map = NULL) =>
    \/ \E t \in Thread : pc[t] = "init_map"
    \/ ~initialized /\ \A t \in Thread : pc[t] \notin {"no_handlers", "add_handler"}

\* The global variables keep the types the steps of the threads rely on.
LEMMA ThreadsTyped == Spec => []ThreadsTypeOK
<1>1. Init => ThreadsTypeOK
  BY DEF Init, ThreadsTypeOK, Label
<1>2. ThreadsTypeOK /\ [Next]_vars => ThreadsTypeOK'
  <2> SUFFICES ASSUME ThreadsTypeOK, [Next]_vars PROVE ThreadsTypeOK'
    OBVIOUS
  <2> USE DEF ThreadsTypeOK, Label, Goto, PassAutoInit, globals
  <2>1. ASSUME UNCHANGED initFirst, NEW t \in Thread, Step(t) PROVE ThreadsTypeOK'
    <3>1. CASE TestFlag(t)
      BY <2>1, <3>1 DEF TestFlag
    <3>2. CASE SetHandler(t) \/ ZeroMap(t) \/ InitMap(t) \/ InitMapFails(t)
      BY <2>1, <3>2 DEF SetHandler, ZeroMap, InitMap, InitMapFails
    <3>3. CASE NoHandlers(t) \/ AddHandler(t) \/ SetInitialized(t)
      BY <2>1, <3>3 DEF NoHandlers, AddHandler, SetInitialized
    <3>4. CASE FindLevel(t) \/ Handle(t) \/ FormatPart(t) \/ Output(t)
      BY <2>1, <3>4 DEF FindLevel, Handle, FormatPart, Output
    <3>5. QED
      BY <2>1, <3>1, <3>2, <3>3, <3>4 DEF Step
  <2>2. CASE UNCHANGED vars
    BY <2>2 DEF vars
  <2>3. QED
    BY <2>1, <2>2 DEF Next
<1>3. QED
  BY <1>1, <1>2, PTL DEF Spec

\* The format is a sequence of Parts parts.
LEMMA FormatParts == /\ Format \in Seq(Nat) /\ Len(Format) = Parts
                     /\ \A i \in 1 .. Parts : Format[i] = i
BY ThreadsAssumption DEF Format

\* Threads that log do not disturb each other once logging is initialized.
LEMMA StableOnceInitialized == Spec => []InitializedIsStable
<1>1. Init => InitializedIsStable
  BY ThreadsAssumption DEF Init, InitializedIsStable
<1>2. ThreadsTypeOK /\ InitializedIsStable /\ [Next]_vars => InitializedIsStable'
  <2> SUFFICES ASSUME ThreadsTypeOK, InitializedIsStable, [Next]_vars, initFirst, initFirst'
               PROVE  InitializedIsStable'
    BY DEF InitializedIsStable, Next, vars
  <2> USE DEF ThreadsTypeOK, InitializedIsStable, Goto, PassAutoInit, globals
  <2>1. ASSUME NEW t \in Thread, Step(t) PROVE InitializedIsStable'
    <3>1. CASE TestFlag(t)
      BY <3>1 DEF TestFlag, AlreadyInitialized
    <3>2. CASE FindLevel(t) \/ Handle(t)
      BY <3>2, ThreadsAssumption DEF FindLevel, Handle
    <3>3. CASE FormatPart(t)
      <4>0. Len(out[t]) \in Nat /\ Len(out[t]) < Parts
        BY <3>3, FormatParts DEF FormatPart
      <4>1. out' = [out EXCEPT ![t] = Append(out[t], Len(out[t]) + 1)]
        <5>1. handlers[Len(out[t]) + 1] = Len(out[t]) + 1
          BY <4>0, FormatParts, ThreadsAssumption
        <5>2. QED
          BY <3>3, <5>1 DEF FormatPart, WithNextPart
      <4>2. out'[t] \in Seq(Nat) /\ Len(out'[t]) = Len(out[t]) + 1
        BY <4>1
      <4>3. \A i \in 1 .. Len(out'[t]) : out'[t][i] = i
        BY <4>1, <4>2
      <4>4. QED
        BY <3>3, <4>0, <4>1, <4>2, <4>3, ThreadsAssumption DEF FormatPart
    <3>4. CASE Output(t)
      BY <3>4, FormatParts, ThreadsAssumption, SMTT(30) DEF Output
    <3>5. QED
      BY <2>1, <3>1, <3>2, <3>3, <3>4
         DEF Step, SetHandler, ZeroMap, InitMap, InitMapFails, NoHandlers, AddHandler, SetInitialized
  <2>2. CASE UNCHANGED vars
    BY <2>2 DEF vars
  <2>3. QED
    BY <2>1, <2>2 DEF Next
<1>3. QED
  BY <1>1, <1>2, ThreadsTyped, PTL DEF Spec

\* However the threads that initialize logging overtake each other, the map is
\* only missing while one of them is about to make it.
LEMMA MapReturns == Spec => []MapComesBack
<1>1. Init => MapComesBack
  BY ThreadsAssumption DEF Init, MapComesBack
<1>2. ThreadsTypeOK /\ MapComesBack /\ [Next]_vars => MapComesBack'
  <2> SUFFICES ASSUME ThreadsTypeOK, MapComesBack, [Next]_vars PROVE MapComesBack'
    OBVIOUS
  <2> USE DEF ThreadsTypeOK, MapComesBack, Goto, PassAutoInit, globals
  <2>1. ASSUME NEW t \in Thread, Step(t) PROVE MapComesBack'
    <3>1. CASE TestFlag(t)
      BY <3>1 DEF TestFlag
    <3>2. CASE SetHandler(t) \/ ZeroMap(t)
      BY <3>2 DEF SetHandler, ZeroMap
    <3>3. CASE InitMap(t) \/ InitMapFails(t)
      BY <3>3, ThreadsAssumption DEF InitMap, InitMapFails, NewMap
    <3>4. CASE NoHandlers(t) \/ AddHandler(t) \/ SetInitialized(t)
      BY <3>4 DEF NoHandlers, AddHandler, SetInitialized
    <3>5. CASE FindLevel(t) \/ Handle(t) \/ FormatPart(t) \/ Output(t)
      BY <3>5 DEF FindLevel, Handle, FormatPart, Output
    <3>6. QED
      BY <2>1, <3>1, <3>2, <3>3, <3>4, <3>5 DEF Step
  <2>2. CASE UNCHANGED vars
    BY <2>2 DEF vars
  <2>3. QED
    BY <2>1, <2>2 DEF Next
<1>3. QED
  BY <1>1, <1>2, ThreadsTyped, PTL DEF Spec

\* For every set of threads and every output format: messages are whole if
\* logging was initialized before the threads started, and after any race of
\* initializations without a failed allocation the severities map is there.
THEOREM ThreadsServed == Spec => []ThreadsAreServed
<1>1. InitializedIsStable => LogIsThreadSafeOnceInitialized
  <2> SUFFICES ASSUME InitializedIsStable, initFirst, NEW t \in Thread
               PROVE  pc[t] # "dropped" /\ (pc[t] = "written" => out[t] = Format)
    BY DEF LogIsThreadSafeOnceInitialized, LogIsThreadSafe
  <2>1. pc[t] # "dropped"
    BY DEF InitializedIsStable
  <2>2. ASSUME pc[t] = "written" PROVE out[t] = Format
    <3>1. /\ out[t] \in Seq(Nat) /\ Len(out[t]) = Parts
          /\ \A i \in 1 .. Parts : out[t][i] = Format[i]
      BY <2>2, FormatParts DEF InitializedIsStable
    <3>2. QED
      BY <3>1, FormatParts
  <2>3. QED
    BY <2>1, <2>2
<1>2. ThreadsTypeOK /\ MapComesBack => UsableAfterwards
  BY DEF ThreadsTypeOK, MapComesBack, UsableAfterwards, Initializing
<1>3. QED
  BY <1>1, <1>2, ThreadsTyped, StableOnceInitialized, MapReturns, PTL DEF ThreadsAreServed

-----------------------------------------------------------------------------
(* The conditions of the logging macros. *)
MacroTypeOK ==
  /\ feature \in DOMAIN Conditions
  /\ DOMAIN step = Caller /\ DOMAIN conditions = Caller /\ DOMAIN calls = Caller
  /\ first \in BOOLEAN /\ undisturbed \in BOOLEAN
  /\ late \in [Caller -> BOOLEAN]
  /\ outcomes \subseteq [late : BOOLEAN, logged : BOOLEAN]
  /\ clock \in Nat /\ lastLogged \in Nat
  /\ now \in [Caller -> Nat] /\ stamps \in Seq(Nat)

\* Where a thread is in a macro with a single condition.
WithinSingle(t, condition) ==
  \/ step[t] \in {"idle", "log"} /\ conditions[t] = <<>>
  \/ step[t] \in {"test", "set"} /\ conditions[t] = <<condition>>

\* Whoever sets once is on the way to logging; a call that begins after another
\* was decided finds it set.
OnceIsUsedUp ==
  feature = "ONCE" =>
    /\ once \in {0, 1}
    /\ \A t \in Caller :
         /\ WithinSingle(t, "once")
         /\ step[t] = "log" => once = 1
         /\ late[t] => once = 1 /\ step[t] \in {"idle", "test"}
    /\ outcomes # {} => once = 1
    /\ once = 1 => (\E t \in Caller : step[t] = "log") \/ (\E o \in outcomes : o.logged)
    /\ \A o \in outcomes : o.late => ~o.logged

\* Whoever clears first ignores its call; a call that begins after another was
\* decided finds it cleared.
FirstIsUsedUp ==
  feature = "SKIPFIRST" =>
    /\ \A t \in Caller :
         /\ WithinSingle(t, "skip_first")
         /\ step[t] = "log" => ~first
         /\ late[t] => ~first /\ step[t] # "set"
    /\ outcomes # {} => ~first
    /\ ~first => \E o \in outcomes : ~o.logged
    /\ \A o \in outcomes : o.late => o.logged

\* Calls that do not overlap: where the only thread inside a throttled macro is,
\* and what it knows about the times of the messages logged so far.
Throttled == undisturbed /\ feature \in {"THROTTLE", "SKIPFIRST_THROTTLE"}
WithinThrottle(t) ==
  \/ step[t] = "idle" /\ conditions[t] = <<>>
  \/ step[t] \in {"test", "compare"} /\ conditions[t] = Conditions[feature]
  \/ /\ step[t] = "set" /\ conditions[t] = Conditions[feature]
     /\ now[t] >= lastLogged + Duration
  \/ /\ \/ step[t] = "log" /\ conditions[t] = <<>>
        \/ step[t] \in {"test", "set"} /\ conditions[t] = <<"skip_first">>
     /\ now[t] = lastLogged
     /\ \A i \in DOMAIN stamps : now[t] >= stamps[i] + Duration
IntervalIsAhead ==
  Throttled =>
    /\ \A t, u \in Caller : (step[t] # "idle" /\ step[u] # "idle") => t = u
    /\ \A t \in Caller : WithinThrottle(t)
    /\ \A i \in DOMAIN stamps : lastLogged >= stamps[i]
    /\ \A i, j \in DOMAIN stamps : i < j => stamps[j] >= stamps[i] + Duration

\* Between calls a thread has no condition to pass; the times of messages are noted
\* only while calls do not overlap and the clock can be read.
SerialPeriods ==
  /\ \A t \in Caller : step[t] = "idle" => conditions[t] = <<>>
  /\ ~undisturbed => stamps = <<>>

-----------------------------------------------------------------------------
\* The conditions of each macro, and the tests that are left after each.
LEMMA ConditionLists ==
  /\ Conditions["ONCE"] = <<"once">>
  /\ Conditions["SKIPFIRST"] = <<"skip_first">>
  /\ Conditions["THROTTLE"] = <<"throttle">>
  /\ Conditions["SKIPFIRST_THROTTLE"] = <<"throttle", "skip_first">>
BY DEF Conditions

\* The lists of conditions as sequences.
LEMMA ListFacts ==
  /\ \A c : <<c>> # <<>> /\ Head(<<c>>) = c /\ Tail(<<c>>) = <<>> /\ Len(<<c>>) = 1
  /\ \A c, d : /\ <<c, d>> # <<>> /\ Head(<<c, d>>) = c /\ Tail(<<c, d>>) = <<d>>
               /\ Len(<<c, d>>) = 2
OBVIOUS

\* What a call that ends adds to the history.
LEMMA EndsTyped ==
  ASSUME MacroTypeOK, NEW t \in Caller, NEW logged \in BOOLEAN, Ends(t, logged)
  PROVE  /\ DOMAIN step' = Caller /\ DOMAIN conditions' = Caller
         /\ outcomes' \subseteq [late : BOOLEAN, logged : BOOLEAN]
         /\ stamps' \in Seq(Nat)
         /\ outcomes \subseteq outcomes'
         /\ \E o \in outcomes' : o.late = late[t] /\ o.logged = logged
         /\ \A o \in outcomes' : o \in outcomes \/ (o.late = late[t] /\ o.logged = logged)
<1> DEFINE o1 == [late |-> late[t], logged |-> logged]
<1>1. o1 \in [late : BOOLEAN, logged : BOOLEAN] /\ o1.late = late[t] /\ o1.logged = logged
  BY DEF MacroTypeOK
<1>2. outcomes' = outcomes \union {o1}
  BY DEF Ends
<1> HIDE DEF o1
<1>3. stamps' \in Seq(Nat)
  BY DEF Ends, MacroTypeOK
<1>4. DOMAIN step' = Caller /\ DOMAIN conditions' = Caller
  BY DEF Ends, MacroTypeOK
<1>5. QED
  BY <1>1, <1>2, <1>3, <1>4 DEF MacroTypeOK

\* The static variables and the threads keep their types.
LEMMA MacroTyped == MacroSpec => []MacroTypeOK
<1>1. MacroInit => MacroTypeOK
  BY DEF MacroInit, MacroTypeOK
<1>2. MacroTypeOK /\ [MacroNext]_macroVars => MacroTypeOK'
  <2> SUFFICES ASSUME MacroTypeOK, [MacroNext]_macroVars PROVE MacroTypeOK'
    OBVIOUS
  <2> USE DEF MacroTypeOK, siteVars, historyVars, Passes, GoesOnTo
  <2>1. CASE TimePasses
    BY <2>1 DEF TimePasses
  <2>2. ASSUME NEW t \in Caller, CallMacro(t) PROVE MacroTypeOK'
    BY <2>2 DEF CallMacro
  <2>3. ASSUME NEW t \in Caller, LogMessage(t) PROVE MacroTypeOK'
    BY <2>3, EndsTyped DEF LogMessage
  <2>4. ASSUME NEW t \in Caller, TestExpression(t) PROVE MacroTypeOK'
    BY <2>4, EndsTyped DEF TestExpression
  <2>5. ASSUME NEW t \in Caller, TestOnce(t) \/ SetOnce(t) PROVE MacroTypeOK'
    BY <2>5, EndsTyped DEF TestOnce, SetOnce
  <2>6. ASSUME NEW t \in Caller, TestFirst(t) \/ SetFirst(t) PROVE MacroTypeOK'
    BY <2>6, EndsTyped DEF TestFirst, SetFirst
  <2>7. ASSUME NEW t \in Caller, ReadClock(t) \/ ReadClockFails(t) PROVE MacroTypeOK'
    <3>1. CASE ReadClock(t)
      BY <3>1 DEF ReadClock
    <3>2. CASE ReadClockFails(t)
      <4>1. stamps' \in Seq(Nat)
        BY <3>2, ListFacts DEF ReadClockFails
      <4>2. QED
        BY <3>2, <4>1 DEF ReadClockFails
    <3>3. QED
      BY <2>7, <3>1, <3>2
  <2>8. ASSUME NEW t \in Caller, CompareTime(t) \/ SetLastLogged(t) PROVE MacroTypeOK'
    <3>1. CASE CompareTime(t) /\ LongEnough(t)
      BY <3>1 DEF CompareTime
    <3>2. CASE CompareTime(t) /\ ~LongEnough(t)
      BY <3>2, EndsTyped DEF CompareTime
    <3>3. CASE SetLastLogged(t)
      BY <3>3 DEF SetLastLogged
    <3>4. QED
      BY <2>8, <3>1, <3>2, <3>3
  <2>9. CASE UNCHANGED macroVars
    BY <2>9 DEF macroVars
  <2>10. QED
    BY <2>1, <2>2, <2>3, <2>4, <2>5, <2>6, <2>7, <2>8, <2>9 DEF MacroNext, MacroStep
<1>3. QED
  BY <1>1, <1>2, PTL DEF MacroSpec

\* ONCE: however the threads race, the static variable decides for later calls.
LEMMA OnceUsedUp == MacroSpec => []OnceIsUsedUp
<1>1. MacroInit => OnceIsUsedUp
  BY DEF MacroInit, OnceIsUsedUp, WithinSingle
<1>2. MacroTypeOK /\ OnceIsUsedUp /\ [MacroNext]_macroVars => OnceIsUsedUp'
  <2> SUFFICES ASSUME MacroTypeOK, OnceIsUsedUp, [MacroNext]_macroVars,
                      feature = "ONCE", feature' = "ONCE"
               PROVE  OnceIsUsedUp'
    BY DEF OnceIsUsedUp, MacroNext, MacroStep, macroVars, TimePasses, CallMacro, LogMessage,
           TestExpression, TestOnce, SetOnce, TestFirst, SetFirst, ReadClock, ReadClockFails,
           CompareTime, SetLastLogged
  <2> USE DEF MacroTypeOK, OnceIsUsedUp, WithinSingle, siteVars, historyVars
  <2>0. ASSUME NEW t \in Caller, conditions[t] # <<>>
        PROVE  conditions[t] = <<"once">> /\ Head(conditions[t]) = "once"
    BY <2>0, ListFacts
  <2>1. CASE TimePasses
    BY <2>1 DEF TimePasses
  <2>2. ASSUME NEW t \in Caller, CallMacro(t) PROVE OnceIsUsedUp'
    BY <2>2, ConditionLists, ListFacts DEF CallMacro
  <2>3. ASSUME NEW t \in Caller, LogMessage(t) PROVE OnceIsUsedUp'
    BY <2>3, EndsTyped DEF LogMessage, Ends
  <2>4. ASSUME NEW t \in Caller, TestOnce(t) PROVE OnceIsUsedUp'
    <3>1. CASE once = 0
      BY <2>4, <2>0, <3>1 DEF TestOnce, At, GoesOnTo
    <3>2. CASE once # 0
      <4>1. step[t] = "test" /\ Ends(t, FALSE) /\ UNCHANGED <<once, late>>
        BY <2>4, <3>2 DEF TestOnce, At
      <4>2. QED
        BY <3>2, <4>1, EndsTyped DEF Ends
    <3>3. QED
      BY <3>1, <3>2
  <2>5. ASSUME NEW t \in Caller, SetOnce(t) PROVE OnceIsUsedUp'
    BY ZenonT(30), <2>5, <2>0, ListFacts DEF SetOnce, At, Passes, OnceSet
  <2>6. CASE UNCHANGED macroVars
    BY <2>6 DEF macroVars
  <2>7. QED
    BY <2>0, <2>1, <2>2, <2>3, <2>4, <2>5, <2>6
       DEF MacroNext, MacroStep, At, TestExpression, TestFirst, SetFirst, ReadClock,
           ReadClockFails, CompareTime, SetLastLogged
<1>3. QED
  BY <1>1, <1>2, MacroTyped, PTL DEF MacroSpec

\* SKIPFIRST: however the threads race, the static variable decides for later calls.
LEMMA FirstUsedUp == MacroSpec => []FirstIsUsedUp
<1>1. MacroInit => FirstIsUsedUp
  BY DEF MacroInit, FirstIsUsedUp, WithinSingle
<1>2. MacroTypeOK /\ FirstIsUsedUp /\ [MacroNext]_macroVars => FirstIsUsedUp'
  <2> SUFFICES ASSUME MacroTypeOK, FirstIsUsedUp, [MacroNext]_macroVars,
                      feature = "SKIPFIRST", feature' = "SKIPFIRST"
               PROVE  FirstIsUsedUp'
    BY DEF FirstIsUsedUp, MacroNext, MacroStep, macroVars, TimePasses, CallMacro, LogMessage,
           TestExpression, TestOnce, SetOnce, TestFirst, SetFirst, ReadClock, ReadClockFails,
           CompareTime, SetLastLogged
  <2> USE DEF MacroTypeOK, FirstIsUsedUp, WithinSingle, siteVars, historyVars
  <2>0. ASSUME NEW t \in Caller, conditions[t] # <<>>
        PROVE  conditions[t] = <<"skip_first">> /\ Head(conditions[t]) = "skip_first"
    BY <2>0, ListFacts
  <2>1. CASE TimePasses
    BY <2>1 DEF TimePasses
  <2>2. ASSUME NEW t \in Caller, CallMacro(t) PROVE FirstIsUsedUp'
    BY <2>2, ConditionLists, ListFacts DEF CallMacro
  <2>3. ASSUME NEW t \in Caller, LogMessage(t) PROVE FirstIsUsedUp'
    BY <2>3, EndsTyped DEF LogMessage, Ends
  <2>4. ASSUME NEW t \in Caller, TestFirst(t) PROVE FirstIsUsedUp'
    <3>1. CASE first
      BY <2>4, <2>0, <3>1 DEF TestFirst, At, GoesOnTo
    <3>2. CASE ~first
      <4>1. Len(conditions[t]) = 1 /\ Tail(conditions[t]) = <<>>
        BY ZenonT(30), <2>4, <2>0, ListFacts DEF TestFirst, At
      <4>2. QED
        BY <2>4, <3>2, <4>1 DEF TestFirst, Passes
    <3>3. QED
      BY <3>1, <3>2
  <2>5. ASSUME NEW t \in Caller, SetFirst(t) PROVE FirstIsUsedUp'
    BY <2>5, <2>0, EndsTyped DEF SetFirst, At, Ends
  <2>6. CASE UNCHANGED macroVars
    BY <2>6 DEF macroVars
  <2>7. QED
    BY <2>0, <2>1, <2>2, <2>3, <2>4, <2>5, <2>6
       DEF MacroNext, MacroStep, At, TestExpression, TestOnce, SetOnce, ReadClock,
           ReadClockFails, CompareTime, SetLastLogged
<1>3. QED
  BY <1>1, <1>2, MacroTyped, PTL DEF MacroSpec

\* ONCE logs a call and SKIPFIRST ignores one, and neither does so again to a
\* call that begins later, for every number of threads.
THEOREM FirstIsSpecial == MacroSpec => []FirstCallIsSpecial
<1>1. MacroTypeOK /\ OnceIsUsedUp /\ FirstIsUsedUp => FirstCallIsSpecial
  BY DEF MacroTypeOK, OnceIsUsedUp, FirstIsUsedUp, FirstCallIsSpecial, Quiet
<1>2. QED
  BY <1>1, MacroTyped, OnceUsedUp, FirstUsedUp, PTL

LEMMA Serial == MacroSpec => []SerialPeriods
<1>1. MacroInit => SerialPeriods
  BY DEF MacroInit, SerialPeriods
<1>2. MacroTypeOK /\ SerialPeriods /\ [MacroNext]_macroVars => SerialPeriods'
  <2> SUFFICES ASSUME MacroTypeOK, SerialPeriods, [MacroNext]_macroVars PROVE SerialPeriods'
    OBVIOUS
  <2> USE DEF MacroTypeOK, SerialPeriods, siteVars, historyVars
  <2>1. ASSUME NEW t \in Caller, Passes(t) \/ (\E l \in {"set", "compare"} : GoesOnTo(t, l)) \/ \E b : Ends(t, b),
               undisturbed' = undisturbed
        PROVE  SerialPeriods'
    BY <2>1 DEF Passes, GoesOnTo, Ends
  <2>2. CASE TimePasses \/ UNCHANGED macroVars
    BY <2>2 DEF TimePasses, macroVars
  <2>3. ASSUME NEW t \in Caller, CallMacro(t) PROVE SerialPeriods'
    BY <2>3 DEF CallMacro
  <2>4. ASSUME NEW t \in Caller, ReadClockFails(t) PROVE SerialPeriods'
    BY <2>4 DEF ReadClockFails
  <2>5. ASSUME NEW t \in Caller, ~CallMacro(t), ~ReadClockFails(t), MacroStep(t) PROVE SerialPeriods'
    BY <2>5, <2>1 DEF MacroStep, LogMessage, TestExpression, TestOnce, SetOnce, TestFirst, SetFirst,
                      ReadClock, CompareTime, SetLastLogged
  <2>6. QED
    BY <2>2, <2>3, <2>4, <2>5 DEF MacroNext
<1>3. QED
  BY <1>1, <1>2, MacroTyped, PTL DEF MacroSpec

\* THROTTLE and SKIPFIRST_THROTTLE: the comparison that lets a call pass is still
\* true when its message is logged.
LEMMA IntervalAhead == MacroSpec => []IntervalIsAhead
<1>1. MacroInit => IntervalIsAhead
  BY DEF MacroInit, IntervalIsAhead, WithinThrottle
<1>2. MacroTypeOK /\ SerialPeriods /\ IntervalIsAhead /\ [MacroNext]_macroVars => IntervalIsAhead'
  <2> SUFFICES ASSUME MacroTypeOK, SerialPeriods, IntervalIsAhead, [MacroNext]_macroVars, Throttled'
               PROVE  IntervalIsAhead'
    BY DEF IntervalIsAhead
  <2> USE MacroAssumption DEF MacroTypeOK, siteVars, historyVars
  <2>f. /\ feature' = feature /\ feature \in {"THROTTLE", "SKIPFIRST_THROTTLE"}
        /\ Throttled \/ \E t \in Caller : CallMacro(t)
    BY DEF Throttled, MacroNext, MacroStep, macroVars, TimePasses, CallMacro, LogMessage,
           TestExpression, TestOnce, SetOnce, TestFirst, SetFirst, ReadClock, ReadClockFails,
           CompareTime, SetLastLogged
  <2>l. Conditions[feature] \in {<<"throttle">>, <<"throttle", "skip_first">>}
    BY <2>f, ConditionLists
  <2>b. Conditions[feature] # <<>> /\ Head(Conditions[feature]) = "throttle"
    <3>1. CASE Conditions[feature] = <<"throttle">>
      BY <3>1, ListFacts
    <3>2. CASE Conditions[feature] = <<"throttle", "skip_first">>
      BY <3>2, ListFacts
    <3>3. QED
      BY <2>l, <3>1, <3>2
  <2>c. \/ Len(Conditions[feature]) = 1 /\ Tail(Conditions[feature]) = <<>>
        \/ Len(Conditions[feature]) = 2 /\ Tail(Conditions[feature]) = <<"skip_first">>
    <3>1. CASE Conditions[feature] = <<"throttle">>
      BY <3>1, ListFacts
    <3>2. CASE Conditions[feature] = <<"throttle", "skip_first">>
      BY <3>2, ListFacts
    <3>3. QED
      BY <2>l, <3>1, <3>2
  <2>d. <<"skip_first">> # <<>> /\ Head(<<"skip_first">>) = "skip_first"
        /\ Len(<<"skip_first">>) = 1 /\ Tail(<<"skip_first">>) = <<>>
    BY ListFacts
  <2>2. ASSUME NEW t \in Caller, CallMacro(t) PROVE IntervalIsAhead'
    <3>1. /\ \A u \in Caller : step[u] = "idle" /\ conditions[u] = <<>>
          /\ stamps' = stamps /\ lastLogged' = lastLogged
      BY <2>2 DEF CallMacro, Throttled, SerialPeriods
    <3>2. /\ step'[t] = "test" /\ conditions'[t] = Conditions[feature]
          /\ \A u \in Caller \ {t} : step'[u] = "idle" /\ conditions'[u] = <<>>
      BY <2>2, <2>b, <3>1 DEF CallMacro
    <3>3. \A u \in Caller : WithinThrottle(u)'
      BY <2>f, <3>2 DEF WithinThrottle
    <3>4. /\ \A i \in DOMAIN stamps : lastLogged >= stamps[i]
          /\ \A i, j \in DOMAIN stamps : i < j => stamps[j] >= stamps[i] + Duration
      <4>1. CASE Throttled
        BY <4>1 DEF IntervalIsAhead
      <4>2. CASE ~Throttled
        <5>1. stamps = <<>>
          BY <2>f, <4>2 DEF Throttled, SerialPeriods
        <5>2. DOMAIN stamps = {}
          BY <5>1
        <5>3. QED
          BY <5>2
      <4>3. QED
        BY <4>1, <4>2
    <3>5. QED
      BY <3>1, <3>2, <3>3, <3>4 DEF IntervalIsAhead
  <2>y. SUFFICES ASSUME Throttled PROVE IntervalIsAhead'
    BY <2>2, <2>f
  <2>a. Throttled /\ feature' = feature
    BY <2>f, <2>y
  <2>e. ASSUME NEW t \in Caller, step[t] # "idle", WithinThrottle(t)',
               \A u \in Caller \ {t} : step'[u] = step[u] /\ conditions'[u] = conditions[u],
               UNCHANGED <<lastLogged, stamps>> \/
                 /\ \A i \in DOMAIN stamps' : lastLogged' >= stamps'[i]
                 /\ \A i, j \in DOMAIN stamps' : i < j => stamps'[j] >= stamps'[i] + Duration
        PROVE  IntervalIsAhead'
    <3>1. \A u \in Caller \ {t} : step'[u] = "idle" /\ conditions'[u] = <<>>
      BY <2>a, <2>e DEF IntervalIsAhead, WithinThrottle
    <3>2. \A u \in Caller : WithinThrottle(u)'
      BY <2>e, <3>1 DEF WithinThrottle
    <3>3. QED
      BY <2>a, <2>e, <3>1, <3>2 DEF IntervalIsAhead
  <2>1. CASE TimePasses
    BY <2>1, <2>a DEF TimePasses, IntervalIsAhead, WithinThrottle
  <2>3. ASSUME NEW t \in Caller, LogMessage(t) PROVE IntervalIsAhead'
    <3>1. /\ now[t] = lastLogged
          /\ \A i \in DOMAIN stamps : now[t] >= stamps[i] + Duration
          /\ stamps' = Append(stamps, now[t]) /\ UNCHANGED <<lastLogged, now>>
      BY <2>3, <2>a DEF LogMessage, Ends, IntervalIsAhead, WithinThrottle, Throttled
    <3>2. /\ stamps' \in Seq(Nat) /\ Len(stamps') = Len(stamps) + 1
          /\ \A i \in 1 .. Len(stamps) : stamps'[i] = stamps[i]
          /\ stamps'[Len(stamps) + 1] = now[t]
      BY <3>1
    <3>3. \A i \in DOMAIN stamps' : lastLogged' >= stamps'[i]
      BY <3>1, <3>2
    <3>4. \A i, j \in DOMAIN stamps : i < j => stamps[j] >= stamps[i] + Duration
      BY <2>a DEF IntervalIsAhead
    <3>5. \A i, j \in DOMAIN stamps' : i < j => stamps'[j] >= stamps'[i] + Duration
      BY <3>1, <3>2, <3>4
    <3>6. QED
      BY <2>3, <2>e, <3>3, <3>5 DEF LogMessage, Ends, WithinThrottle
  <2>4. ASSUME NEW t \in Caller, TestFirst(t) PROVE IntervalIsAhead'
    <3>1. step[t] = "test" /\ conditions[t] = <<"skip_first">>
      BY <2>4, <2>a, <2>b DEF TestFirst, At, IntervalIsAhead, WithinThrottle
    <3>a. now[t] = lastLogged /\ \A i \in DOMAIN stamps : now[t] >= stamps[i] + Duration
      BY <2>a, <2>b, <2>d, <3>1 DEF IntervalIsAhead, WithinThrottle
    <3>b. \/ step'[t] = "log" /\ conditions'[t] = <<>>
          \/ step'[t] = "set" /\ conditions'[t] = <<"skip_first">>
      BY <2>4, <2>d, <3>1 DEF TestFirst, Passes, GoesOnTo
    <3>2. WithinThrottle(t)'
      BY <2>4, <3>a, <3>b DEF TestFirst, Passes, GoesOnTo, WithinThrottle
    <3>3. QED
      BY <2>4, <2>e, <3>1, <3>2 DEF TestFirst, Passes, GoesOnTo
  <2>5. ASSUME NEW t \in Caller, SetFirst(t) PROVE IntervalIsAhead'
    <3>1. WithinThrottle(t)' /\ stamps' = stamps
      BY <2>5 DEF SetFirst, At, Ends, WithinThrottle
    <3>2. QED
      BY <2>5, <2>e, <3>1 DEF SetFirst, At, Ends
  <2>6. ASSUME NEW t \in Caller, ReadClock(t) PROVE IntervalIsAhead'
    <3>1. step[t] = "test" /\ conditions[t] = Conditions[feature]
      BY <2>6, <2>a, <2>b, <2>d DEF ReadClock, At, IntervalIsAhead, WithinThrottle
    <3>2. WithinThrottle(t)'
      BY <2>6, <2>a, <3>1 DEF ReadClock, GoesOnTo, WithinThrottle
    <3>3. QED
      BY <2>6, <2>e, <3>1, <3>2 DEF ReadClock, GoesOnTo
  <2>7. ASSUME NEW t \in Caller, CompareTime(t) PROVE IntervalIsAhead'
    <3>1. step[t] = "compare" /\ conditions[t] = Conditions[feature]
      BY <2>7, <2>a DEF CompareTime, At, IntervalIsAhead, WithinThrottle
    <3>2. WithinThrottle(t)' /\ stamps' = stamps
      BY <2>7, <2>a, <3>1 DEF CompareTime, GoesOnTo, Ends, LongEnough, WithinThrottle
    <3>3. QED
      BY <2>7, <2>e, <3>1, <3>2 DEF CompareTime, GoesOnTo, Ends
  <2>8. ASSUME NEW t \in Caller, SetLastLogged(t) PROVE IntervalIsAhead'
    <3>1. /\ step[t] = "set" /\ conditions[t] = Conditions[feature]
          /\ now[t] >= lastLogged + Duration
          /\ lastLogged' = now[t] /\ UNCHANGED <<now, stamps>>
      BY <2>8, <2>a, <2>b, <2>d DEF SetLastLogged, At, Passes, IntervalIsAhead, WithinThrottle
    <3>2. \A i \in DOMAIN stamps : now[t] >= stamps[i] + Duration
      BY <2>a, <3>1 DEF IntervalIsAhead
    <3>3. \/ step'[t] = "log" /\ conditions'[t] = <<>>
          \/ step'[t] = "test" /\ conditions'[t] = <<"skip_first">>
      BY <2>8, <2>c, <3>1 DEF SetLastLogged, Passes
    <3>4. WithinThrottle(t)'
      BY <3>1, <3>2, <3>3 DEF WithinThrottle
    <3>5. \A i \in DOMAIN stamps' : lastLogged' >= stamps'[i]
      BY <3>1, <3>2
    <3>6. \A i, j \in DOMAIN stamps' : i < j => stamps'[j] >= stamps'[i] + Duration
      BY <2>a, <3>1 DEF IntervalIsAhead
    <3>7. QED
      BY <2>8, <2>e, <3>1, <3>4, <3>5, <3>6 DEF SetLastLogged, Passes
  <2>9. ASSUME NEW t \in Caller,
               TestExpression(t) \/ TestOnce(t) \/ SetOnce(t) \/ ReadClockFails(t)
        PROVE  FALSE
    <3>1. conditions[t] \in {<<>>, Conditions[feature], <<"skip_first">>}
      BY <2>a DEF IntervalIsAhead, WithinThrottle
    <3>2. QED
      BY <2>9, <2>b, <2>d, <3>1
         DEF Throttled, At, TestExpression, TestOnce, SetOnce, ReadClockFails
  <2>10. CASE UNCHANGED macroVars
    BY <2>10, <2>a DEF macroVars, IntervalIsAhead, WithinThrottle
  <2>11. QED
    BY <2>1, <2>2, <2>3, <2>4, <2>5, <2>6, <2>7, <2>8, <2>9, <2>10 DEF MacroNext, MacroStep
<1>3. QED
  BY <1>1, <1>2, MacroTyped, Serial, PTL DEF MacroSpec

\* Throttled calls that do not overlap log messages at least Duration apart, and
\* do so again after calls have overlapped or the clock has failed, for every
\* duration, every course of the clock and every number of threads.
THEOREM IntervalKept == MacroSpec => []ThrottleKeepsInterval
<1>1. IntervalIsAhead /\ SerialPeriods => ThrottleKeepsInterval
  <2> SUFFICES ASSUME IntervalIsAhead, SerialPeriods,
                      feature \in {"THROTTLE", "SKIPFIRST_THROTTLE"}
               PROVE  \A i, j \in DOMAIN stamps : i < j => stamps[j] >= stamps[i] + Duration
    BY DEF ThrottleKeepsInterval
  <2>1. CASE undisturbed
    BY <2>1 DEF IntervalIsAhead, Throttled
  <2>2. CASE ~undisturbed
    <3>1. stamps = <<>>
      BY <2>2 DEF SerialPeriods
    <3>2. DOMAIN stamps = {}
      BY <3>1
    <3>3. QED
      BY <3>2
  <2>3. QED
    BY <2>1, <2>2
<1>2. QED
  BY <1>1, IntervalAhead, Serial, PTL

-----------------------------------------------------------------------------
(* Error handling.  The recursion that takes a number apart has a solution.  *)
LEMMA LeastNumber ==
  ASSUME NEW S, S \subseteq Nat, S # {}
  PROVE  \E i \in S : \A j \in S : i <= j
<1> DEFINE R == OpToRel(<, Nat)
<1>1. IsWellFoundedOn(R, Nat)
  BY NatLessThanWellFounded
<1>2. \A i, j \in Nat : j < i => <<j, i>> \in R
  BY DEF OpToRel
<1> HIDE DEF R
<1>3. PICK i \in S : \A j \in S : ~(<<j, i>> \in R)
  BY <1>1, WFMin
<1>4. \A j \in S : ~(j < i) /\ j \in Nat /\ i \in Nat
  BY <1>2, <1>3
<1>5. \A j \in S : i <= j
  BY <1>4
<1>6. QED
  BY <1>5

LEMMA LastDigit ==
  ASSUME NEW n \in Nat, NEW q, q = n \div 10, NEW r, r = n % 10
  PROVE  r \in 0 .. 9 /\ q \in Nat /\ n = 10 * q + r /\ (n # 0 => q < n)
<1>1. r \in 0 .. 9
  OBVIOUS
<1>2. q \in Nat /\ (n # 0 => q < n)
  OBVIOUS
<1>3. n = 10 * q + r
  BY <1>1, <1>2
<1>4. QED
  BY <1>1, <1>2, <1>3

TakenApart(f, m) == f = [n \in 0 .. m |-> IF n = 0 THEN <<>> ELSE <<n % 10>> \o f[n \div 10]]
LEMMA TakenApartExists ==
  ASSUME NEW m \in Nat
  PROVE  \E f : TakenApart(f, m)
<1> DEFINE B == {i \in Nat : ~\E f : TakenApart(f, i)}
<1> SUFFICES ASSUME B # {} PROVE FALSE
  OBVIOUS
<1>1. PICK i \in B : \A j \in B : i <= j
  BY LeastNumber
<1>2. i \in Nat /\ ~\E f : TakenApart(f, i)
  OBVIOUS
<1>3. CASE i = 0
  <2> DEFINE f == [n \in 0 .. 0 |-> <<>>]
  <2>1. f = [n \in 0 .. 0 |-> IF n = 0 THEN <<>> ELSE <<n % 10>> \o f[n \div 10]]
    OBVIOUS
  <2>2. QED
    BY <1>2, <1>3, <2>1 DEF TakenApart
<1>4. CASE i # 0
  <2>1. i - 1 \in Nat /\ i - 1 \notin B
    BY <1>1, <1>2, <1>4
  <2>2. PICK f : TakenApart(f, i - 1)
    BY <2>1
  <2> DEFINE g == [n \in 0 .. i |-> IF n = i THEN <<i % 10>> \o f[i \div 10] ELSE f[n]]
             h == [n \in 0 .. i |-> IF n = 0 THEN <<>> ELSE <<n % 10>> \o g[n \div 10]]
  <2>3. \A n \in 0 .. i - 1 : f[n] = IF n = 0 THEN <<>> ELSE <<n % 10>> \o f[n \div 10]
    BY <2>2 DEF TakenApart
  <2>4. ASSUME NEW n \in 0 .. i PROVE g[n] = h[n]
    <3>1. CASE n = 0
      <4>1. n \in 0 .. i - 1 /\ n # i
        BY <1>2, <1>4, <3>1
      <4>2. g[n] = f[n] /\ f[n] = <<>> /\ h[n] = <<>>
        BY <2>3, <3>1, <4>1
      <4>3. QED
        BY <4>2
    <3>2. CASE n # 0
      <4> PICK q : q = n \div 10
        OBVIOUS
      <4>1. n \in Nat /\ q \in Nat /\ q < n
        <5>1. n \in Nat
          BY <1>2
        <5>2. QED
          BY <3>2, <5>1, LastDigit
      <4>2. q \in 0 .. i /\ q # i
        BY <1>2, <4>1
      <4>3. g[q] = f[q]
        BY <4>2
      <4>4. h[n] = <<n % 10>> \o g[q]
        BY <3>2
      <4>5. g[n] = <<n % 10>> \o f[q]
        <5>1. CASE n = i
          BY <5>1
        <5>2. CASE n # i
          <6>1. n \in 0 .. i - 1
            BY <1>2, <5>2
          <6>2. g[n] = f[n]
            BY <5>2
          <6>3. f[n] = <<n % 10>> \o f[n \div 10]
            BY <2>3, <3>2, <6>1
          <6>4. QED
            BY <6>2, <6>3
        <5>3. QED
          BY <5>1, <5>2
      <4>6. QED
        BY <4>3, <4>4, <4>5
    <3>3. QED
      BY <3>1, <3>2
  <2>5. DOMAIN g = 0 .. i /\ DOMAIN h = 0 .. i
    OBVIOUS
  <2>6. g = h
    BY <2>4, <2>5
  <2>7. TakenApart(g, i)
    BY <2>6 DEF TakenApart
  <2>8. QED
    BY <1>2, <2>7
<1>5. QED
  BY <1>3, <1>4

LEMMA LastFirstIs ==
  ASSUME NEW n \in 0 .. UINT64_MAX
  PROVE  LastFirst[n] = IF n = 0 THEN <<>> ELSE <<n % 10>> \o LastFirst[n \div 10]
<1>1. UINT64_MAX \in Nat
  BY ErrorAssumption
<1>2. PICK f : TakenApart(f, UINT64_MAX)
  BY <1>1, TakenApartExists
<1>3. f = [k \in 0 .. UINT64_MAX |-> IF k = 0 THEN <<>> ELSE <<k % 10>> \o f[k \div 10]]
  BY <1>2 DEF TakenApart
<1>4. LastFirst = [k \in 0 .. UINT64_MAX |-> IF k = 0 THEN <<>> ELSE <<k % 10>> \o LastFirst[k \div 10]]
  BY <1>3 DEF LastFirst
<1>5. QED
  BY <1>4

\* What a row of digits denotes, with one digit more
Values(v, s, m) == v = [k \in 0 .. m |-> IF k = 0 THEN 0 ELSE 10 * v[k - 1] + s[k]]
LEMMA ValuesExist ==
  ASSUME NEW s, NEW m \in Nat
  PROVE  \E v : Values(v, s, m)
<1> DEFINE B == {i \in Nat : ~\E v : Values(v, s, i)}
<1> SUFFICES ASSUME B # {} PROVE FALSE
  OBVIOUS
<1>1. PICK i \in B : \A j \in B : i <= j
  BY LeastNumber
<1>2. i \in Nat /\ ~\E v : Values(v, s, i)
  OBVIOUS
<1>3. CASE i = 0
  <2> DEFINE v == [k \in 0 .. 0 |-> 0]
  <2>1. v = [k \in 0 .. 0 |-> IF k = 0 THEN 0 ELSE 10 * v[k - 1] + s[k]]
    OBVIOUS
  <2>2. QED
    BY <1>2, <1>3, <2>1 DEF Values
<1>4. CASE i # 0
  <2>1. i - 1 \in Nat /\ i - 1 \notin B
    BY <1>1, <1>2, <1>4
  <2>2. PICK f : Values(f, s, i - 1)
    BY <2>1
  <2> DEFINE g == [k \in 0 .. i |-> IF k = i THEN 10 * f[i - 1] + s[i] ELSE f[k]]
             h == [k \in 0 .. i |-> IF k = 0 THEN 0 ELSE 10 * g[k - 1] + s[k]]
  <2>3. \A k \in 0 .. i - 1 : f[k] = IF k = 0 THEN 0 ELSE 10 * f[k - 1] + s[k]
    BY <2>2 DEF Values
  <2>4. ASSUME NEW k \in 0 .. i PROVE g[k] = h[k]
    <3>1. CASE k = 0
      <4>1. k \in 0 .. i - 1 /\ k # i
        BY <1>2, <1>4, <3>1
      <4>2. g[k] = f[k] /\ f[k] = 0 /\ h[k] = 0
        BY <2>3, <3>1, <4>1
      <4>3. QED
        BY <4>2
    <3>2. CASE k # 0
      <4>1. k - 1 \in 0 .. i /\ k - 1 # i
        BY <1>2, <3>2
      <4>2. g[k - 1] = f[k - 1]
        BY <4>1
      <4>3. h[k] = 10 * g[k - 1] + s[k]
        BY <3>2
      <4>4. g[k] = 10 * f[k - 1] + s[k]
        <5>1. CASE k = i
          BY <5>1
        <5>2. CASE k # i
          <6>1. k \in 0 .. i - 1 /\ g[k] = f[k]
            BY <1>2, <5>2
          <6>2. QED
            BY <2>3, <3>2, <6>1
        <5>3. QED
          BY <5>1, <5>2
      <4>5. QED
        BY <4>2, <4>3, <4>4
    <3>3. QED
      BY <3>1, <3>2
  <2>5. DOMAIN g = 0 .. i /\ DOMAIN h = 0 .. i
    OBVIOUS
  <2>6. g = h
    BY <2>4, <2>5
  <2>7. Values(g, s, i)
    BY <2>6 DEF Values
  <2>8. QED
    BY <1>2, <2>7
<1>5. QED
  BY <1>3, <1>4

LEMMA DecimalValueIs ==
  ASSUME NEW s, Len(s) \in Nat
  PROVE  \E v : Values(v, s, Len(s)) /\ DecimalValue(s) = v[Len(s)]
<1>1. PICK f : Values(f, s, Len(s))
  BY ValuesExist
<1>2. f = [k \in 0 .. Len(s) |-> IF k = 0 THEN 0 ELSE 10 * f[k - 1] + s[k]]
  BY <1>1 DEF Values
<1>3. QED
  BY <1>2 DEF DecimalValue, Values

AreValues(v, s, m) == \A k \in 0 .. m : v[k] = IF k = 0 THEN 0 ELSE 10 * v[k - 1] + s[k]
LEMMA ValuesAgree ==
  ASSUME NEW s, NEW m \in Nat, NEW v, NEW w, AreValues(v, s, m), AreValues(w, s, m)
  PROVE  v[m] = w[m]
<1> DEFINE B == {k \in Nat : k <= m /\ v[k] # w[k]}
<1>1. /\ \A k \in 0 .. m : v[k] = IF k = 0 THEN 0 ELSE 10 * v[k - 1] + s[k]
      /\ \A k \in 0 .. m : w[k] = IF k = 0 THEN 0 ELSE 10 * w[k - 1] + s[k]
  BY DEF AreValues
<1>2. ASSUME B # {} PROVE FALSE
  <2>1. PICK k \in B : \A j \in B : k <= j
    BY <1>2, LeastNumber
  <2>2. k \in Nat /\ k <= m /\ v[k] # w[k] /\ k \in 0 .. m
    OBVIOUS
  <2>3. k # 0
    BY <1>1, <2>2
  <2>4. k - 1 \in Nat /\ k - 1 <= m /\ k - 1 \notin B
    BY <2>1, <2>2, <2>3
  <2>5. v[k - 1] = w[k - 1]
    BY <2>4
  <2>6. v[k] = 10 * v[k - 1] + s[k] /\ w[k] = 10 * w[k - 1] + s[k]
    BY <1>1, <2>2, <2>3
  <2>7. QED
    BY <2>2, <2>5, <2>6
<1>3. QED
  BY <1>2

LEMMA OneDigitMore ==
  ASSUME NEW S, NEW s \in Seq(S), NEW d \in S
  PROVE  DecimalValue(Append(s, d)) = 10 * DecimalValue(s) + d
<1> PICK t : t = Append(s, d)
  OBVIOUS
<1> PICK n : n = Len(s)
  OBVIOUS
<1>1. n \in Nat /\ Len(t) = n + 1 /\ t[n + 1] = d /\ \A k \in 1 .. n : s[k] = t[k]
  OBVIOUS
<1>2. PICK v : Values(v, s, n) /\ DecimalValue(s) = v[n]
  BY <1>1, DecimalValueIs
<1>3. PICK w : Values(w, t, n + 1) /\ DecimalValue(t) = w[n + 1]
  <2>1. Len(t) \in Nat
    BY <1>1
  <2>2. QED
    BY <1>1, <2>1, DecimalValueIs
<1>4. v[n] = w[n]
  <2>1. AreValues(v, s, n)
    BY <1>2 DEF Values, AreValues
  <2>2. AreValues(w, s, n)
    <3>1. \A k \in 0 .. n + 1 : w[k] = IF k = 0 THEN 0 ELSE 10 * w[k - 1] + t[k]
      BY <1>3 DEF Values
    <3>2. \A k \in 0 .. n : k \in 0 .. n + 1 /\ (k # 0 => s[k] = t[k])
      BY <1>1
    <3>3. QED
      BY <3>1, <3>2 DEF AreValues
  <2>3. QED
    BY <1>1, <2>1, <2>2, ValuesAgree
<1>5. w[n + 1] = 10 * w[n] + t[n + 1]
  <2>1. \A k \in 0 .. n + 1 : w[k] = IF k = 0 THEN 0 ELSE 10 * w[k - 1] + t[k]
    BY <1>3 DEF Values
  <2>2. n + 1 \in 0 .. n + 1 /\ n + 1 # 0 /\ n + 1 - 1 = n
    BY <1>1
  <2>3. w[n + 1] = 10 * w[n + 1 - 1] + t[n + 1]
    BY <2>1, <2>2
  <2>4. QED
    BY <2>2, <2>3
<1>6. QED
  BY <1>1, <1>2, <1>3, <1>4, <1>5

LEMMA ReversedBehind ==
  ASSUME NEW S, NEW s \in Seq(S), NEW d \in S
  PROVE  Reverse(<<d>> \o s) = Append(Reverse(s), d) /\ Reverse(s) \in Seq(S) /\ Len(Reverse(s)) = Len(s)
<1> PICK n : n = Len(s)
  OBVIOUS
<1> PICK t : t = <<d>> \o s
  OBVIOUS
<1> PICK r : r = Reverse(s)
  OBVIOUS
<1>1. n \in Nat /\ t \in Seq(S) /\ Len(t) = n + 1 /\ t[1] = d
  OBVIOUS
<1>2. \A k \in 1 .. n : t[k + 1] = s[k]
  OBVIOUS
<1>3. r = [k \in 1 .. n |-> s[n - k + 1]]
  BY DEF Reverse
<1>4. \A k \in 1 .. n : n - k + 1 \in 1 .. n /\ s[n - k + 1] \in S
  BY <1>1
<1>5. r \in Seq(S) /\ Len(r) = n /\ \A k \in 1 .. n : r[k] = s[n - k + 1]
  BY <1>1, <1>3, <1>4
<1> DEFINE a == Append(r, d)
           b == [k \in 1 .. n + 1 |-> t[n + 1 - k + 1]]
<1>6. Reverse(t) = b
  BY <1>1 DEF Reverse
<1>7. a \in Seq(S) /\ Len(a) = n + 1 /\ a[n + 1] = d /\ \A k \in 1 .. n : a[k] = r[k]
  BY <1>5
<1>8. ASSUME NEW k \in 1 .. n + 1 PROVE a[k] = b[k]
  <2>1. b[k] = t[n + 1 - k + 1]
    OBVIOUS
  <2> HIDE DEF a, b
  <2>2. CASE k = n + 1
    <3>1. n + 1 - k + 1 = 1
      BY <1>1, <2>2
    <3>2. QED
      BY <1>1, <1>7, <2>1, <2>2, <3>1
  <2>3. CASE k # n + 1
    <3> PICK j : j = n - k + 1
      OBVIOUS
    <3>1. k \in 1 .. n /\ j \in 1 .. n /\ n + 1 - k + 1 = j + 1
      BY <1>1, <2>3
    <3>2. a[k] = s[j]
      BY <1>5, <1>7, <3>1
    <3>3. QED
      BY <1>2, <2>1, <3>1, <3>2
  <2>4. QED
    BY <2>2, <2>3
<1>9. a = b
  <2>1. b = [k \in 1 .. n + 1 |-> b[k]]
    OBVIOUS
  <2> HIDE DEF a, b
  <2>2. a = [k \in 1 .. n + 1 |-> a[k]]
    BY <1>7
  <2>3. QED
    BY <1>8, <2>1, <2>2
<1>10. QED
  BY <1>5, <1>6, <1>9

\* The digits of a number, and that it is what they denote
LEMMA DigitsDenote ==
  ASSUME NEW n \in 0 .. UINT64_MAX
  PROVE  /\ Digits(n) \in Seq(0 .. 9) /\ Len(Digits(n)) >= 1 /\ DecimalValue(Digits(n)) = n
<1> DEFINE Right(k) == LastFirst[k] \in Seq(0 .. 9) /\ DecimalValue(Reverse(LastFirst[k])) = k
           B == {k \in Nat : k <= UINT64_MAX /\ ~Right(k)}
<1>1. UINT64_MAX \in Nat
  BY ErrorAssumption
<1>2. DecimalValue(<<>>) = 0 /\ Reverse(<<>>) = <<>> /\ <<>> \in Seq(0 .. 9)
  <2>1. Len(<<>>) \in Nat /\ Len(<<>>) = 0
    OBVIOUS
  <2>2. PICK v : Values(v, <<>>, 0) /\ DecimalValue(<<>>) = v[0]
    BY <2>1, DecimalValueIs
  <2>3. v[0] = 0
    BY <2>2 DEF Values
  <2>4. Reverse(<<>>) = <<>>
    BY DEF Reverse
  <2>5. QED
    BY <2>2, <2>3, <2>4
<1>3. ASSUME NEW k \in Nat, k # 0, k <= UINT64_MAX, Right(k \div 10)
      PROVE  /\ LastFirst[k] \in Seq(0 .. 9) /\ DecimalValue(Reverse(LastFirst[k])) = k
             /\ Reverse(LastFirst[k]) \in Seq(0 .. 9) /\ Len(Reverse(LastFirst[k])) >= 1
  <2> PICK q : q = k \div 10
    OBVIOUS
  <2> PICK d : d = k % 10
    OBVIOUS
  <2> PICK L : L = LastFirst[q]
    OBVIOUS
  <2> PICK r : r = Reverse(L)
    OBVIOUS
  <2>1. d \in 0 .. 9 /\ q \in Nat /\ k = 10 * q + d
    BY <1>3, LastDigit
  <2>2. LastFirst[k] = <<d>> \o L
    <3>1. k \in 0 .. UINT64_MAX
      BY <1>1, <1>3
    <3>2. QED
      BY <1>3, <3>1, LastFirstIs
  <2>3. L \in Seq(0 .. 9) /\ DecimalValue(r) = q
    BY <1>3
  <2>4. Reverse(<<d>> \o L) = Append(r, d) /\ r \in Seq(0 .. 9)
    BY <2>1, <2>3, ReversedBehind
  <2>5. DecimalValue(Append(r, d)) = 10 * q + d
    BY <2>1, <2>3, <2>4, OneDigitMore
  <2>6. Append(r, d) \in Seq(0 .. 9) /\ Len(Append(r, d)) >= 1 /\ <<d>> \o L \in Seq(0 .. 9)
    BY <2>1, <2>3, <2>4
  <2>7. QED
    BY <2>1, <2>2, <2>4, <2>5, <2>6
<1>4. Right(0)
  <2>1. 0 \in 0 .. UINT64_MAX
    BY <1>1
  <2>2. LastFirst[0] = <<>>
    BY <2>1, LastFirstIs
  <2>3. QED
    BY <1>2, <2>2
<1> HIDE DEF Right
<1>5. ASSUME B # {} PROVE FALSE
  <2>1. PICK k \in B : \A j \in B : k <= j
    BY <1>5, LeastNumber
  <2>2. k \in Nat /\ k <= UINT64_MAX /\ ~Right(k) /\ k # 0
    BY <1>4
  <2> PICK q : q = k \div 10
    OBVIOUS
  <2>3. q \in Nat /\ q < k
    BY <2>2, LastDigit
  <2>4. q \notin B /\ q <= UINT64_MAX
    BY <1>1, <2>1, <2>2, <2>3
  <2>5. Right(q)
    BY <2>3, <2>4
  <2>6. QED
    BY <1>3, <2>2, <2>5 DEF Right
<1>6. \A k \in Nat : k <= UINT64_MAX => Right(k)
  BY <1>5
<1>7. CASE n = 0
  <2>1. Digits(n) = <<0>>
    BY <1>7 DEF Digits
  <2>2. <<0>> = Append(<<>>, 0) /\ <<0>> \in Seq(0 .. 9) /\ Len(<<0>>) >= 1 /\ 10 * 0 + 0 = 0
    OBVIOUS
  <2>3. DecimalValue(Append(<<>>, 0)) = 10 * 0 + 0
    <3>1. 0 \in 0 .. 9
      OBVIOUS
    <3>2. DecimalValue(Append(<<>>, 0)) = 10 * DecimalValue(<<>>) + 0
      BY <1>2, <3>1, OneDigitMore
    <3>3. QED
      BY <1>2, <3>2
  <2>4. QED
    BY <1>7, <2>1, <2>2, <2>3, Zenon
<1>8. CASE n # 0
  <2>1. n \in Nat /\ n <= UINT64_MAX
    BY <1>1
  <2> PICK q : q = n \div 10
    OBVIOUS
  <2>2. q \in Nat /\ q <= UINT64_MAX
    <3>1. q \in Nat /\ q < n
      BY <1>8, <2>1, LastDigit
    <3>2. QED
      BY <1>1, <2>1, <3>1
  <2>3. Right(q)
    BY <1>6, <2>2
  <2>4. Digits(n) = Reverse(LastFirst[n])
    BY <1>8 DEF Digits
  <2>5. QED
    BY <1>3, <1>8, <2>1, <2>3, <2>4
<1>9. QED
  BY <1>7, <1>8

(* The error string, which has room for all its parts: the buffers for the   *)
(* message and the file leave room for the line number.                      *)
Symbols == ErrorChars \union {AT, COLON, NotSet[1]} \union 0 .. 9
LEMMA Copied ==
  ASSUME NEW s \in Seq(Symbols), NEW n \in Nat, n > 0
  PROVE  /\ CopyString(s, n) \in Seq(Symbols) /\ Len(CopyString(s, n)) < n
         /\ CopyString(s, n) = FirstOf(s, n - 1) /\ (Len(s) < n => CopyString(s, n) = s)
<1> PICK m : m = IF Len(s) >= n THEN n - 1 ELSE Len(s)
  OBVIOUS
<1>1. Len(s) \in Nat /\ m \in Nat /\ m <= Len(s) /\ m < n /\ m = IF Len(s) < n - 1 THEN Len(s) ELSE n - 1
  OBVIOUS
<1>2. CopyString(s, n) = SubSeq(s, 1, m) /\ FirstOf(s, n - 1) = SubSeq(s, 1, m)
  BY <1>1 DEF CopyString, FirstOf
<1>3. SubSeq(s, 1, m) \in Seq(Symbols) /\ Len(SubSeq(s, 1, m)) = m
  BY <1>1
<1>4. ASSUME Len(s) < n PROVE SubSeq(s, 1, m) = s
  BY <1>1, <1>4
<1>5. QED
  BY <1>1, <1>2, <1>3, <1>4

LEMMA PartAdded ==
  ASSUME NEW s \in Seq(Symbols), NEW p \in Seq(Symbols), Len(s) + Len(p) < StringMax
  PROVE  AddPart(s, p) = s \o p /\ s \o p \in Seq(Symbols) /\ Len(s \o p) = Len(s) + Len(p)
<1>1. StringMax \in Nat /\ Len(s) \in Nat /\ Len(p) \in Nat
  BY ErrorAssumption
<1> PICK n : n = StringMax - Len(s)
  OBVIOUS
<1>2. n \in Nat /\ n > 0 /\ Len(p) < n
  BY <1>1
<1>3. CopyString(p, n) = p
  BY <1>2, Copied
<1>4. s \o p \in Seq(Symbols) /\ Len(s \o p) = Len(s) + Len(p)
  BY ConcatProperties, Zenon
<1>5. QED
  BY <1>3, <1>4 DEF AddPart

Errors == [message : Seq(Symbols), file : Seq(Symbols), line : Lines]
HeadOf(e) == FirstOf(e.message, MessageMax - 1) \o <<AT>> \o FirstOf(e.file, FileMax - 1) \o <<COLON>>
StoredOf(e) == StateOf(e.message, e.file, e.line)
LEMMA Formatted ==
  ASSUME NEW e \in Errors
  PROVE  /\ FormatErrorString(StoredOf(e)) = HeadOf(e) \o Digits(e.line)
         /\ HeadOf(e) \in Seq(Symbols) /\ Digits(e.line) \in Seq(Symbols)
         /\ HeadOf(e) \o Digits(e.line) \in Seq(Symbols)
<1> PICK m : m = CopyString(e.message, MessageMax)
  OBVIOUS
<1> PICK f : f = CopyString(e.file, FileMax)
  OBVIOUS
<1> PICK d : d = Digits(e.line)
  OBVIOUS
<1> PICK s : s = StoredOf(e)
  OBVIOUS
<1> PICK x : x = FileMax
  OBVIOUS
<1>1. /\ e.message \in Seq(Symbols) /\ e.file \in Seq(Symbols) /\ e.line \in Lines
  BY DEF Errors
<1>2. /\ StringMax \in Nat /\ MessageMax \in Nat /\ LineMax \in Nat /\ UINT64_MAX \in Nat
      /\ x > 0 /\ MessageMax > 0 /\ x = StringMax - MessageMax - LineMax - 2 - 1
  BY ErrorAssumption DEF FileMax
<1>3. x \in Nat
  BY <1>2
<1>4. m \in Seq(Symbols) /\ Len(m) < MessageMax /\ m = FirstOf(e.message, MessageMax - 1)
  BY <1>1, <1>2, Copied
<1>5. f \in Seq(Symbols) /\ Len(f) < x /\ f = FirstOf(e.file, FileMax - 1)
  BY <1>1, <1>2, <1>3, Copied
<1>6. d \in Seq(Symbols) /\ Len(d) <= LineMax
  <2>1. e.line \in 0 .. UINT64_MAX /\ Len(Digits(e.line)) <= LineMax
    BY <1>1, ErrorAssumption
  <2>2. d \in Seq(0 .. 9)
    BY <2>1, DigitsDenote
  <2>3. 0 .. 9 \subseteq Symbols
    BY DEF Symbols
  <2>4. QED
    BY <2>1, <2>2, <2>3, SeqMonotonic
<1>7. s.message = m /\ s.file = f /\ s.line = e.line
  BY DEF StoredOf, StateOf
<1>8. <<AT>> \in Seq(Symbols) /\ <<COLON>> \in Seq(Symbols) /\ <<>> \in Seq(Symbols) /\ Len(<<AT>>) = 1 /\ Len(<<COLON>>) = 1 /\ Len(<<>>) = 0
  BY DEF Symbols
<1>9. Len(m) \in Nat /\ Len(f) \in Nat /\ Len(d) \in Nat
  BY <1>4, <1>5, <1>6
<1> PICK at : at = <<AT>>
  OBVIOUS
<1> PICK colon : colon = <<COLON>>
  OBVIOUS
<1>10. at \in Seq(Symbols) /\ colon \in Seq(Symbols) /\ Len(at) = 1 /\ Len(colon) = 1
  BY <1>8
<1>11. AddPart(<<>>, m) = m
  <2>1. Len(<<>>) + Len(m) < StringMax
    BY <1>2, <1>3, <1>4, <1>8, <1>9
  <2>2. AddPart(<<>>, m) = <<>> \o m
    BY <1>4, <1>8, <2>1, PartAdded
  <2>3. QED
    BY <1>4, <2>2, ConcatEmptySeq, Zenon
<1> PICK y : y = m \o at
  OBVIOUS
<1>12. AddPart(m, at) = y /\ y \in Seq(Symbols) /\ Len(y) = Len(m) + 1
  <2>1. Len(m) + Len(at) < StringMax
    BY <1>2, <1>3, <1>4, <1>9, <1>10
  <2>2. QED
    BY <1>4, <1>10, <2>1, PartAdded
<1> PICK z : z = y \o f
  OBVIOUS
<1>13. AddPart(y, f) = z /\ z \in Seq(Symbols) /\ Len(z) = Len(m) + 1 + Len(f)
  <2>1. Len(y) + Len(f) < StringMax
    BY <1>2, <1>3, <1>4, <1>5, <1>9, <1>12
  <2>2. QED
    BY <1>5, <1>12, <2>1, PartAdded
<1> PICK h : h = z \o colon
  OBVIOUS
<1>14. AddPart(z, colon) = h /\ h \in Seq(Symbols) /\ Len(h) = Len(m) + 1 + Len(f) + 1
  <2>1. Len(z) + Len(colon) < StringMax
    BY <1>2, <1>3, <1>4, <1>5, <1>9, <1>10, <1>13
  <2>2. QED
    BY <1>10, <1>13, <2>1, PartAdded
<1>15. AddPart(h, d) = h \o d /\ h \o d \in Seq(Symbols)
  <2>1. Len(h) + Len(d) < StringMax
    BY <1>2, <1>3, <1>4, <1>5, <1>6, <1>9, <1>14
  <2>2. QED
    BY <1>6, <1>14, <2>1, PartAdded
<1>16. h = HeadOf(e)
  BY <1>4, <1>5, Zenon DEF HeadOf
<1>17. FormatErrorString(s) = AddPart(AddPart(AddPart(AddPart(AddPart(<<>>, m), at), f), colon), d)
  BY <1>7, Zenon DEF FormatErrorString
<1>18. QED
  BY <1>6, <1>11, <1>12, <1>13, <1>14, <1>15, <1>16, <1>17, Zenon

ErrorInv ==
  /\ lastError = <<>> \/ \E e \in Errors : lastError = <<e>>
  /\ isSet \in BOOLEAN /\ isFormatted \in BOOLEAN
  /\ isSet <=> lastError # <<>>
  /\ isSet => errorState = StoredOf(lastError[1])
  /\ isSet /\ isFormatted => errorString = FormatErrorString(errorState)

LEMMA CurrentIs ==
  ASSUME ErrorInv
  PROVE  /\ CurrentString \in Seq(Symbols)
         /\ ~isSet => CurrentString = NotSet
         /\ \A e \in Errors : lastError = <<e>> => CurrentString = HeadOf(e) \o Digits(e.line)
         /\ isSet => CurrentString = FormatErrorString(errorState)
<1>1. CASE ~isSet
  <2>1. CurrentString = NotSet /\ lastError = <<>>
    BY <1>1 DEF CurrentString, ErrorInv
  <2>2. NotSet \in Seq(Symbols)
    BY DEF Symbols, NotSet
  <2>3. \A e \in Errors : lastError # <<e>>
    BY <2>1
  <2>4. QED
    BY <1>1, <2>1, <2>2, <2>3
<1>2. CASE isSet
  <2>1. PICK e \in Errors : lastError = <<e>>
    BY <1>2 DEF ErrorInv
  <2>2. lastError[1] = e /\ \A x : lastError = <<x>> => x = e
    BY <2>1
  <2>3. errorState = StoredOf(e) /\ (isFormatted => errorString = FormatErrorString(errorState))
    BY <1>2, <2>2 DEF ErrorInv
  <2>4. CurrentString = FormatErrorString(errorState)
    BY <1>2, <2>3 DEF CurrentString
  <2>5. CurrentString = HeadOf(e) \o Digits(e.line) /\ CurrentString \in Seq(Symbols)
    BY <2>3, <2>4, Formatted
  <2>6. QED
    BY <1>2, <2>2, <2>4, <2>5
<1>3. QED
  BY <1>1, <1>2

LEMMA ErrorSet ==
  ASSUME NEW m \in Seq(Symbols), NEW f \in Files, NEW l \in Lines, Set(m, f, l)
  PROVE  ErrorInv'
<1> PICK e : e = [message |-> m, file |-> f, line |-> l]
  OBVIOUS
<1>1. f \in Seq(Symbols)
  <2>1. f \in Seq(ErrorChars)
    BY ErrorAssumption DEF Texts
  <2>2. ErrorChars \subseteq Symbols
    BY DEF Symbols
  <2>3. QED
    BY <2>1, <2>2, SeqMonotonic
<1>2. e \in Errors /\ e.message = m /\ e.file = f /\ e.line = l
  BY <1>1 DEF Errors
<1>3. lastError' = <<e>> /\ isSet' = TRUE /\ isFormatted' = FALSE /\ errorState' = StateOf(m, f, l)
  BY DEF Set, FlagAfterSet
<1>4. lastError' # <<>> /\ lastError'[1] = e
  BY <1>3
<1>5. errorState' = StoredOf(lastError'[1])
  BY <1>2, <1>3, <1>4 DEF StoredOf
<1>6. QED
  BY <1>2, <1>3, <1>4, <1>5 DEF ErrorInv, StoredOf

LEMMA ErrorForgotten ==
  ASSUME Reset
  PROVE  ErrorInv'
BY DEF Reset, ErrorInv

LEMMA MessagesAreSymbols ==
  ASSUME NEW m \in Messages
  PROVE  m \in Seq(Symbols)
<1>1. m \in Seq(ErrorChars)
  BY ErrorAssumption DEF Texts
<1>2. ErrorChars \subseteq Symbols
  BY DEF Symbols
<1>3. QED
  BY <1>1, <1>2, SeqMonotonic

LEMMA PreviousAppended ==
  ASSUME ErrorInv, NEW m \in Messages, NEW f \in Files, NEW l \in Lines, SetAndAppendPrevious(m, f, l)
  PROVE  ErrorInv'
<1> PICK c : c = CurrentString
  OBVIOUS
<1> PICK x : x = m \o <<COLON>>
  OBVIOUS
<1> PICK y : y = x \o c
  OBVIOUS
<1> PICK z : z = CopyString(y, StringMax)
  OBVIOUS
<1>1. c \in Seq(Symbols) /\ m \in Seq(Symbols) /\ <<COLON>> \in Seq(Symbols)
  BY CurrentIs, MessagesAreSymbols DEF Symbols
<1>2. x \in Seq(Symbols)
  BY <1>1
<1>3. y \in Seq(Symbols)
  BY <1>1, <1>2
<1>4. StringMax \in Nat /\ StringMax > 0
  BY ErrorAssumption DEF FileMax
<1>5. z \in Seq(Symbols)
  BY <1>3, <1>4, Copied
<1>6. Set(z, f, l)
  BY Zenon DEF SetAndAppendPrevious
<1>7. QED
  BY <1>5, <1>6, ErrorSet

\* What the invariant says of the string
LEMMA InvariantGivesString ==
  ASSUME ErrorInv
  PROVE  ErrorStringIsCurrent
<1>1. CASE lastError = <<>>
  BY <1>1, CurrentIs DEF ErrorInv, ErrorStringIsCurrent
<1>2. CASE lastError # <<>>
  <2>1. PICK e \in Errors : lastError = <<e>>
    BY <1>2 DEF ErrorInv
  <2> PICK h : h = HeadOf(e)
    OBVIOUS
  <2> PICK d : d = Digits(e.line)
    OBVIOUS
  <2> PICK c : c = CurrentString
    OBVIOUS
  <2>2. lastError[1] = e
    BY <2>1
  <2>3. c = h \o d /\ h \in Seq(Symbols) /\ d \in Seq(Symbols)
    BY <2>1, CurrentIs, Formatted
  <2>4. d \in Seq(0 .. 9) /\ Len(d) >= 1 /\ DecimalValue(d) = e.line
    <3>1. e.line \in 0 .. UINT64_MAX
      BY ErrorAssumption DEF Errors
    <3>2. QED
      BY <3>1, DigitsDenote
  <2>5. Len(c) = Len(h) + Len(d) /\ Len(h) \in Nat /\ Len(d) \in Nat /\ Len(c) > Len(h)
    <3>1. Len(c) = Len(h) + Len(d)
      BY <2>3, ConcatProperties, Zenon
    <3>2. QED
      BY <2>3, <2>4, <3>1
  <2>6. SubSeq(c, 1, Len(h)) = h
    BY <2>3, SubSeqOfConcat1
  <2>7. SubSeq(c, Len(h) + 1, Len(c)) = d
    BY <2>3, <2>5, SubSeqOfConcat2
  <2>8. \A i \in DOMAIN d : d[i] \in 0 .. 9
    BY <2>4
  <2>9. QED
    BY <2>2, <2>4, <2>5, <2>6, <2>7, <2>8, <1>2 DEF ErrorStringIsCurrent, HeadOf
<1>3. QED
  BY <1>1, <1>2

(* For every message, file and line, and whatever the lengths of the         *)
(* buffers: rcutils_get_error_string gives the last error, cut where its     *)
(* buffers end, and its line number, whole.                                  *)
THEOREM ErrorStringsAreCurrent == ErrorSpec => []ErrorStringIsCurrent
<1>1. ErrorInit => ErrorInv
  BY DEF ErrorInit, ErrorInv
<1>2. ErrorInv /\ [ErrorNext]_errorVars => ErrorInv'
  <2> SUFFICES ASSUME ErrorInv, [ErrorNext]_errorVars PROVE ErrorInv'
    OBVIOUS
  <2>1. CASE InitializeStorage
    BY <2>1, ErrorForgotten DEF InitializeStorage
  <2>2. CASE GetErrorString
    <3>1. /\ errorState' = errorState /\ isSet' = isSet /\ lastError' = lastError
          /\ isFormatted' = (isFormatted \/ isSet) /\ (isSet => errorString' = CurrentString)
      BY <2>2 DEF GetErrorString
    <3>2. isSet => errorString' = FormatErrorString(errorState)
      BY <3>1, CurrentIs
    <3>3. FormatErrorString(errorState)' = FormatErrorString(errorState) /\ StoredOf(lastError[1])' = StoredOf(lastError[1])
      BY <3>1
    <3>4. QED
      BY <3>1, <3>2, <3>3 DEF ErrorInv
  <2>3. CASE ResetError
    BY <2>3, ErrorForgotten DEF ResetError
  <2>4. CASE WriteAndAppendPrevious
    BY <2>4, ErrorForgotten DEF WriteAndAppendPrevious
  <2>5. ASSUME NEW m \in Messages, NEW f \in Files, NEW l \in Lines, SetError(m, f, l) PROVE ErrorInv'
    BY <2>5, ErrorSet, MessagesAreSymbols DEF SetError
  <2>6. ASSUME NEW m \in Messages, NEW f \in Files, NEW l \in Lines, SetAndAppendPrevious(m, f, l) PROVE ErrorInv'
    BY <2>6, PreviousAppended
  <2>7. CASE UNCHANGED errorVars
    <3>1. /\ errorState' = errorState /\ isSet' = isSet /\ lastError' = lastError
          /\ isFormatted' = isFormatted /\ errorString' = errorString
      BY <2>7 DEF errorVars
    <3>2. QED
      BY <3>1 DEF ErrorInv
  <2>8. QED
    BY <2>1, <2>2, <2>3, <2>4, <2>5, <2>6, <2>7 DEF ErrorNext
<1>3. ErrorInv => ErrorStringIsCurrent
  BY InvariantGivesString
<1>4. QED
  BY <1>1, <1>2, <1>3, PTL DEF ErrorSpec
=============================================================================
