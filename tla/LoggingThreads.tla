-------------------------- MODULE LoggingThreads ---------------------------
(***************************************************************************)
(* src/logging.c: threads that call rcutils_log at the same time, the only *)
(* concurrency logging.h allows.  No lock protects the global variables;   *)
(* whichever thread finds logging uninitialized initializes it on the way  *)
(* (RCUTILS_LOGGING_AUTOINIT), and the console handler formats messages    *)
(* with the list of handlers that the initialization makes.                *)
(*                                                                         *)
(* A step reads or writes global variables once, or calls a function that  *)
(* does.  Threads log one message each, enabled at the default level; no   *)
(* logger has a level of its own.  The environment does not change, so the *)
(* format string every initialization computes is the same.  The writes of *)
(* the format string, the default level and the flag that the map is valid *)
(* are left out; no property depends on them.  Data races are resolved as  *)
(* interleavings, the mildest of their outcomes.                           *)
(***************************************************************************)
EXTENDS Integers, Sequences

CONSTANTS
  Thread,
  Parts,       \* the number of parts of the output format, one handler each
  NULL

ASSUME ThreadsAssumption ==
  /\ Parts \in Nat \ {0}
  /\ NULL \notin Thread \union {"first", "console"}

VARIABLES
  initFirst,    \* history: whether logging was initialized before the threads started
  initialized,  \* g_rcutils_logging_initialized
  handler,      \* g_rcutils_logging_output_handler
  map,          \* g_rcutils_logging_severities_map: NULL or its allocation
  handlers,     \* the first g_num_log_msg_handlers entries of g_handlers
  failed,       \* whether an allocation of the map has failed
  pc,           \* what each thread does next
  autoinits,    \* how many RCUTILS_LOGGING_AUTOINIT each thread has passed
  parsed,       \* how many parts of the format each thread has parsed
  out           \* the message each thread has formatted

globals == <<initialized, handler, map, handlers, failed>>
vars == <<initFirst, globals, pc, autoinits, parsed, out>>

Format == [i \in 1 .. Parts |-> i]
Init ==
  /\ initFirst \in BOOLEAN
  /\ initialized = initFirst
  /\ handler = IF initFirst THEN "console" ELSE NULL
  /\ map = IF initFirst THEN "first" ELSE NULL
  /\ handlers = IF initFirst THEN Format ELSE <<>>
  /\ failed = FALSE
  /\ pc = [t \in Thread |-> "autoinit"]
  /\ autoinits = [t \in Thread |-> 0]
  /\ parsed = [t \in Thread |-> 0]
  /\ out = [t \in Thread |-> <<>>]

Goto(t, label) == pc' = [pc EXCEPT ![t] = label]

\* rcutils_logging_logger_is_enabled_for and the function it calls to find the
\* effective level both begin with RCUTILS_LOGGING_AUTOINIT.
PassAutoInit(t) ==
  /\ autoinits' = [autoinits EXCEPT ![t] = @ + 1]
  /\ Goto(t, IF autoinits[t] = 0 THEN "autoinit" ELSE "level")

(* RCUTILS_LOGGING_AUTOINIT: the macro tests the flag, then the function *)
\* Mutant: the flag is not tested.
NeverInitialized == FALSE
AlreadyInitialized == initialized
TestFlag(t) ==
  /\ pc[t] \in {"autoinit", "initialize"}
  /\ \/ AlreadyInitialized /\ PassAutoInit(t)
     \/ /\ ~AlreadyInitialized /\ Goto(t, IF pc[t] = "autoinit" THEN "initialize" ELSE "reset")
        /\ UNCHANGED autoinits
  /\ UNCHANGED <<globals, parsed, out>>

(* rcutils_logging_initialize_with_allocator, in the order of its writes *)
SetHandler(t) ==
  /\ pc[t] = "reset" /\ Goto(t, "zero_map")
  /\ handler' = "console"
  /\ UNCHANGED <<initialized, map, handlers, failed, autoinits, parsed, out>>
ZeroMap(t) ==
  /\ pc[t] = "zero_map" /\ Goto(t, "init_map")
  /\ map' = NULL
  /\ UNCHANGED <<initialized, handler, handlers, failed, autoinits, parsed, out>>
NewMap(t) == t
InitMap(t) ==
  /\ pc[t] = "init_map" /\ Goto(t, "no_handlers")
  /\ map' = NewMap(t)
  /\ UNCHANGED <<initialized, handler, handlers, failed, autoinits, parsed, out>>
InitMapFails(t) ==
  /\ pc[t] = "init_map" /\ PassAutoInit(t)
  /\ failed' = TRUE
  /\ UNCHANGED <<initialized, handler, map, handlers, parsed, out>>
\* parse_and_create_handlers_list
NoHandlers(t) ==
  /\ pc[t] = "no_handlers" /\ Goto(t, "add_handler")
  /\ handlers' = <<>>
  /\ parsed' = [parsed EXCEPT ![t] = 0]
  /\ UNCHANGED <<initialized, handler, map, failed, autoinits, out>>
AddHandler(t) ==
  /\ pc[t] = "add_handler" /\ parsed[t] < Parts
  /\ handlers' = Append(handlers, Format[parsed[t] + 1])
  /\ parsed' = [parsed EXCEPT ![t] = @ + 1]
  /\ UNCHANGED <<initialized, handler, map, failed, pc, autoinits, out>>
SetInitialized(t) ==
  /\ pc[t] = "add_handler" /\ parsed[t] = Parts
  /\ initialized' = TRUE
  /\ PassAutoInit(t)
  /\ UNCHANGED <<handler, map, handlers, failed, parsed, out>>

(* rcutils_logging_get_logger_effective_level: without a map the level is an *)
(* error and rcutils_log returns; the map is empty, so the default level is  *)
(* the effective one, and the message is enabled                             *)
FindLevel(t) ==
  /\ pc[t] = "level" /\ Goto(t, IF map = NULL THEN "dropped" ELSE "handle")
  /\ UNCHANGED <<globals, autoinits, parsed, out>>

(* vrcutils_log_internal and rcutils_logging_console_output_handler *)
Handle(t) ==
  /\ pc[t] = "handle"
  /\ Goto(t, IF handler # NULL /\ initialized THEN "format" ELSE "dropped")
  /\ UNCHANGED <<globals, autoinits, parsed, out>>

(* rcutils_logging_format_message: the loop over the handlers there are *)
\* Mutant: the index is not advanced.
FormatSamePart(t) == out[t]
WithNextPart(t) == Append(out[t], handlers[Len(out[t]) + 1])
FormatPart(t) ==
  /\ pc[t] = "format" /\ Len(out[t]) < Len(handlers)
  /\ out' = [out EXCEPT ![t] = WithNextPart(t)]
  /\ UNCHANGED <<globals, pc, autoinits, parsed>>
Output(t) ==
  /\ pc[t] = "format" /\ Len(out[t]) >= Len(handlers)
  /\ Goto(t, "written")
  /\ UNCHANGED <<globals, autoinits, parsed, out>>

Step(t) ==
  \/ TestFlag(t)
  \/ SetHandler(t) \/ ZeroMap(t) \/ InitMap(t) \/ InitMapFails(t)
  \/ NoHandlers(t) \/ AddHandler(t) \/ SetInitialized(t)
  \/ FindLevel(t) \/ Handle(t) \/ FormatPart(t) \/ Output(t)
Next == UNCHANGED initFirst /\ \E t \in Thread : Step(t)

Spec == Init /\ [][Next]_vars
\* Every thread is scheduled again and again; no step of a thread waits.
FairSpec == Spec /\ \A t \in Thread : WF_vars(UNCHANGED initFirst /\ Step(t))

-----------------------------------------------------------------------------
(* logging.h:492 "should be thread-safe with itself": unless the map could  *)
(* not be allocated, every message that is logged is written, with every    *)
(* part of the format, once and in order.                                   *)
LogIsThreadSafe ==
  ~failed => \A t \in Thread :
               /\ pc[t] # "dropped"
               /\ pc[t] = "written" => out[t] = Format

(* The same, provided logging was initialized before the threads started.   *)
LogIsThreadSafeOnceInitialized == initFirst => LogIsThreadSafe

(* Whatever the threads have done to each other, once none of them is       *)
(* initializing and no allocation failed, the severities map is there:      *)
(* the messages logged from then on are not dropped.                        *)
Initializing(t) == pc[t] \in {"initialize", "reset", "zero_map", "init_map",
                              "no_handlers", "add_handler"}
UsableAfterwards ==
  (initialized /\ ~failed /\ \A t \in Thread : ~Initializing(t)) => map # NULL

(* What remains of thread safety: messages are whole if logging was          *)
(* initialized before, and logging is usable afterwards in any case.         *)
ThreadsAreServed == LogIsThreadSafeOnceInitialized /\ UsableAfterwards

(* Every call of rcutils_log returns. *)
EveryLogReturns == \A t \in Thread : <>(pc[t] \in {"written", "dropped"})
=============================================================================
