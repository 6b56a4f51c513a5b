------------------------------ MODULE Logging ------------------------------
(***************************************************************************)
(* src/logging.c: the process-wide logging state: which loggers have a     *)
(* level of their own, the level of every other logger, and the handler    *)
(* that messages go to.                                                    *)
(*                                                                         *)
(* Logger names are sequences of characters, because ancestors are found   *)
(* by cutting a name at its separators.  The severities map is a function  *)
(* from names to levels (HashMap models the hash map itself); allocation,  *)
(* the environment variables and the clock may fail.  A call is one        *)
(* action, except the search for the effective level, a loop over the      *)
(* ancestors of a logger, one action per iteration.                        *)
(***************************************************************************)
EXTENDS Integers, Sequences, FiniteSets

CONSTANTS
  Name,       \* the logger names callers use
  Separator,  \* '.'
  NULL,
  Levels,     \* the levels callers set, valid or not
  Severities, \* the severities of the messages callers log
  MaxLost     \* bound: names that a failing set_logger_level leaks

ASSUME LoggingAssumption ==
  /\ NULL \notin Name
  /\ Name \subseteq Seq(UNION {{n[i] : i \in DOMAIN n} : n \in Name})
  /\ \A ns \in SUBSET Name : NULL \notin [ns -> Int]  \* NULL is no severities map
  /\ Levels \subseteq Int /\ Severities \subseteq Int /\ MaxLost \in Nat

UNSET == 0
INFO == 20
SeverityNames == {0, 10, 20, 30, 40, 50}

VARIABLES
  g,      \* the global variables of logging.c
  keys,   \* blocks allocated for the names in the severities map
  lost,   \* how many of them no entry of the map owns
  walk,   \* the search for an effective level in progress, if any
  ret     \* the last call, its arguments and what it returned

vars == <<g, keys, lost, walk, ret>>

NoWalk == [call |-> "none", name |-> <<>>, arg |-> 0, length |-> 0]
Idle == walk = NoWalk

\* The severities map is NULL while it is zero-initialized; a level set by the
\* user is stored with its bottom bit set.
NoLevels == [n \in {} |-> 0]
Init ==
  /\ g = [initialized |-> FALSE, valid |-> FALSE, default |-> 0,
          handler |-> NULL, levels |-> NULL]
  /\ keys = 0 /\ lost = 0
  /\ walk = NoWalk
  /\ ret = [call |-> "none", name |-> <<>>, arg |-> 0, result |-> "OK"]

Replies(call, name, arg, result) ==
  ret' = [call |-> call, name |-> name, arg |-> arg, result |-> result]

-----------------------------------------------------------------------------
(* rcutils_logging_initialize_with_allocator, when not initialized: an      *)
(* environment variable is rejected, the map cannot be allocated, or it     *)
(* succeeds.  The handler and the default level are reset in every case.    *)
\* Mutant: the environment is read before the resets.
EnvRejectedEarly == g
EnvRejected == [g EXCEPT !.handler = "console", !.default = INFO]
MapInitFailed == [EnvRejected EXCEPT !.levels = NULL, !.valid = FALSE]
Initialized == [initialized |-> TRUE, valid |-> TRUE, default |-> INFO,
                handler |-> "console", levels |-> NoLevels]
InitOutcomes == {EnvRejected, MapInitFailed, Initialized}

(* RCUTILS_LOGGING_AUTOINIT: the call goes on even when this fails *)
AutoInit == IF g.initialized THEN {g} ELSE InitOutcomes

(* rcutils_logging_initialize *)
Initialize ==
  /\ Idle
  /\ \E h \in AutoInit :
       /\ g' = h
       /\ Replies("initialize", <<>>, 0, IF h.initialized THEN "OK" ELSE "ERROR")
  /\ UNCHANGED <<keys, lost, walk>>

(* rcutils_logging_shutdown: the names are freed entry by entry *)
ShutDown(s) == [s EXCEPT !.initialized = FALSE, !.valid = FALSE, !.levels = NULL]
Shutdown ==
  /\ Idle
  /\ IF g.initialized
     THEN /\ keys' = IF g.valid THEN keys - Cardinality(DOMAIN g.levels) ELSE keys
          /\ g' = ShutDown(g)
     ELSE UNCHANGED <<g, keys>>
  /\ Replies("shutdown", <<>>, 0, "OK")
  /\ UNCHANGED <<lost, walk>>

(* rcutils_logging_set_output_handler *)
SetOutputHandler(handler) ==
  /\ Idle
  /\ \E h \in AutoInit : g' = [h EXCEPT !.handler = handler]
  /\ Replies("set_output_handler", <<>>, 0, "OK")
  /\ UNCHANGED <<keys, lost, walk>>

(* rcutils_logging_set_default_logger_level *)
SetDefaultLoggerLevel(level) ==
  /\ Idle
  /\ \E h \in AutoInit : g' = [h EXCEPT !.default = IF level = UNSET THEN INFO ELSE level]
  /\ Replies("set_default_logger_level", <<>>, level, "OK")
  /\ UNCHANGED <<keys, lost, walk>>

-----------------------------------------------------------------------------
(* add_key_to_hash_map marks a level as the user's; get_severity_level      *)
(* removes the mark.  A name that is not in the map reads as UNSET.         *)
SetByUser(level) == 2 * (level \div 2) + 1
Unmarked(stored) == 2 * (stored \div 2)
SeverityLevel(s, name) == IF name \in DOMAIN s.levels THEN Unmarked(s.levels[name]) ELSE UNSET

(* rcutils_logging_get_logger_leveln *)
GetLoggerLevel(name) ==
  /\ Idle
  /\ \E h \in AutoInit :
       /\ g' = h
       /\ \/ name = <<>> /\ Replies("get_logger_level", name, 0, h.default)
          \/ name # <<>> /\ ~h.valid /\ Replies("get_logger_level", name, 0, UNSET)
          \/ name # <<>> /\ h.valid
             /\ \E r \in {-1, SeverityLevel(h, name)} :
                  Replies("get_logger_level", name, 0, r)
  /\ UNCHANGED <<keys, lost, walk>>

(* The purge of rcutils_logging_set_logger_level: the entry for name itself, *)
(* and the entries whose key begins with name and that no user has set       *)
BeginsWith(key, name) == Len(key) >= Len(name) /\ SubSeq(key, 1, Len(name)) = name
\* Mutant: entries that the user has set are purged too.
PurgedWithUsers(s, name) == {k \in DOMAIN s.levels : BeginsWith(k, name)}
Purged(s, name) ==
  {k \in DOMAIN s.levels : BeginsWith(k, name) /\ (k = name \/ s.levels[k] % 2 = 0)}
Without(f, ks) == [k \in DOMAIN f \ ks |-> f[k]]
With(f, k, v) == [x \in DOMAIN f \union {k} |-> IF x = k THEN v ELSE f[x]]

(* rcutils_logging_set_logger_level: purge, then add_key_to_hash_map, which  *)
(* can fail to copy the name, or to add the entry, and then the copy is lost *)
\* Mutant: the key of a purged entry is not freed.
KeysKept(s, name) == 0
KeysFreed(s, name) == IF name \in DOMAIN s.levels THEN Cardinality(Purged(s, name)) ELSE 0
SetLoggerLevel(name, level) ==
  /\ Idle
  /\ \E h \in AutoInit :
       \/ /\ ~h.valid
          /\ g' = h /\ UNCHANGED <<keys, lost>>
          /\ Replies("set_logger_level", name, level, "LOGGING_SEVERITY_MAP_INVALID")
       \/ /\ h.valid /\ level \notin SeverityNames
          /\ g' = h /\ UNCHANGED <<keys, lost>>
          /\ Replies("set_logger_level", name, level, "INVALID_ARGUMENT")
       \/ /\ h.valid /\ level \in SeverityNames
          /\ LET purged == IF name \in DOMAIN h.levels THEN Without(h.levels, Purged(h, name))
                           ELSE h.levels
                 default == IF name = <<>> THEN level ELSE h.default
             IN  \/ /\ g' = [h EXCEPT !.levels = With(purged, name, SetByUser(level)),
                                      !.default = default]
                    /\ keys' = keys - KeysFreed(h, name) + 1 /\ UNCHANGED lost
                    /\ Replies("set_logger_level", name, level, "OK")
                 \/ /\ g' = [h EXCEPT !.levels = purged, !.default = default]
                    /\ \/ keys' = keys - KeysFreed(h, name) /\ UNCHANGED lost
                       \/ /\ lost < MaxLost
                          /\ keys' = keys - KeysFreed(h, name) + 1 /\ lost' = lost + 1
                    /\ Replies("set_logger_level", name, level, "ERROR")
  /\ UNCHANGED walk

-----------------------------------------------------------------------------
(* vrcutils_log_internal, and the checks the console handler begins with *)
Handled(s, severity) ==
  CASE s.handler = NULL -> "no_handler"
    [] s.handler = "user" -> "user"
    [] OTHER -> IF s.initialized /\ severity \in SeverityNames \ {UNSET}
                THEN "console" ELSE "rejected"
LogInternal(s, call, name, severity) ==
  \E r \in {"no_time", Handled(s, severity)} : Replies(call, name, severity, r)

(* What a call does with the effective level it has found: rcutils_log, by   *)
(* way of rcutils_logging_logger_is_enabled_for, compares it                 *)
Enabled(level, severity) == severity >= level
Conclude(s, call, name, arg, level) ==
  \/ call = "effective" /\ Replies(call, name, arg, level)
  \/ call = "log" /\ level = -1 /\ Replies(call, name, arg, "error")
  \/ call = "log" /\ level # -1 /\ ~Enabled(level, arg) /\ Replies(call, name, arg, "disabled")
  \/ call = "log" /\ level # -1 /\ Enabled(level, arg) /\ LogInternal(s, call, name, arg)

(* rcutils_logging_get_logger_effective_level: the name itself *)
Begin(call, name, arg) ==
  /\ Idle
  /\ \E h \in AutoInit :
       /\ g' = h
       /\ \/ /\ h.levels = NULL
             /\ Conclude(h, call, name, arg, -1) /\ UNCHANGED walk
          \/ /\ h.levels # NULL /\ DOMAIN h.levels = {}
             /\ Conclude(h, call, name, arg, h.default) /\ UNCHANGED walk
          \/ /\ h.levels # NULL /\ DOMAIN h.levels # {}
             /\ SeverityLevel(h, name) # UNSET
             /\ Conclude(h, call, name, arg, SeverityLevel(h, name)) /\ UNCHANGED walk
          \/ /\ h.levels # NULL /\ DOMAIN h.levels # {}
             /\ SeverityLevel(h, name) = UNSET
             /\ \/ /\ walk' = [call |-> call, name |-> name, arg |-> arg, length |-> Len(name)]
                   /\ UNCHANGED ret
                \/ Conclude(h, call, name, arg, -1) /\ UNCHANGED walk
  /\ UNCHANGED <<keys, lost>>

GetEffectiveLevel(name) == Begin("effective", name, 0)
Log(name, severity) == Begin("log", name, severity)

(* rcutils_find_lastn: where the last separator of a prefix is, 0 for none *)
\* Mutant: the first separator is taken.
FindFirst(name, length) ==
  LET at == {i \in 1 .. length : name[i] = Separator}
  IN  IF at = {} THEN 0 ELSE CHOOSE i \in at : \A j \in at : i <= j
FindLast(name, length) ==
  LET at == {i \in 1 .. length : name[i] = Separator}
  IN  IF at = {} THEN 0 ELSE CHOOSE i \in at : \A j \in at : i >= j

(* rcutils_logging_get_logger_effective_level: the next ancestor *)
\* Mutant: the substring is not shortened.
NotShortened(index) == walk.length
Shortened(index) == index - 1
NextAncestor ==
  /\ ~Idle
  /\ LET index == FindLast(walk.name, walk.length)
         severity == SeverityLevel(g, SubSeq(walk.name, 1, index - 1))
     IN  IF index # 0 /\ severity = UNSET
         THEN walk' = [walk EXCEPT !.length = Shortened(index)] /\ UNCHANGED ret
         ELSE /\ Conclude(g, walk.call, walk.name, walk.arg,
                          IF index = 0 THEN g.default ELSE severity)
              /\ walk' = NoWalk
  /\ UNCHANGED <<g, keys, lost>>

(* rcutils_log for no logger in particular, and rcutils_log_internal *)
LogUnnamed(severity) ==
  /\ Idle
  /\ \E h \in AutoInit :
       /\ g' = h
       /\ \/ ~Enabled(h.default, severity) /\ Replies("log_unnamed", <<>>, severity, "disabled")
          \/ Enabled(h.default, severity) /\ LogInternal(h, "log_unnamed", <<>>, severity)
  /\ UNCHANGED <<keys, lost, walk>>
LogUnconditionally(severity) ==
  /\ Idle
  /\ LogInternal(g, "log_internal", <<>>, severity)
  /\ UNCHANGED <<g, keys, lost, walk>>

Next ==
  \/ Initialize \/ Shutdown
  \/ \E handler \in {"console", "user", NULL} : SetOutputHandler(handler)
  \/ \E level \in Levels : SetDefaultLoggerLevel(level)
  \/ \E name \in Name : GetLoggerLevel(name)
  \/ \E name \in Name, level \in Levels : SetLoggerLevel(name, level)
  \/ \E name \in Name : GetEffectiveLevel(name)
  \/ \E name \in Name, severity \in Severities : Log(name, severity)
  \/ NextAncestor
  \/ \E severity \in Severities : LogUnnamed(severity)
  \/ \E severity \in Severities : LogUnconditionally(severity)

Spec == Init /\ [][Next]_vars
\* The loop over the ancestors does not stop of itself.
FairSpec == Spec /\ WF_vars(NextAncestor)

-----------------------------------------------------------------------------
(* The global variables have their types; only valid levels, marked as the *)
(* user's, are in the severities map (logging.c:73-130).                   *)
TypeOK ==
  /\ g.initialized \in BOOLEAN /\ g.valid \in BOOLEAN /\ g.default \in Int
  /\ g.handler \in {NULL, "console", "user"}
  /\ g.levels # NULL =>
       /\ DOMAIN g.levels \subseteq Name
       /\ \A n \in DOMAIN g.levels : g.levels[n] % 2 = 1 /\ Unmarked(g.levels[n]) \in SeverityNames
  /\ keys \in Nat /\ lost \in 0 .. MaxLost
  /\ walk.length \in 0 .. Len(walk.name)

(* logging.h:416-423: the level of the logger if it is set, otherwise of the *)
(* closest ancestor with a level, otherwise the default level.  The level of *)
(* the empty name is the default level (logging.h:338, 373).                 *)
IsSet(name) == name \in DOMAIN g.levels /\ Unmarked(g.levels[name]) # UNSET
SelfOrAncestor(a, name) ==
  a = name \/ (Len(a) < Len(name) /\ BeginsWith(name, a) /\ name[Len(a) + 1] = Separator)
Specified(name) == {a \in DOMAIN g.levels \ {<<>>} : SelfOrAncestor(a, name) /\ IsSet(a)}
NearestLevel(name) ==
  IF Specified(name) = {} THEN g.default
  ELSE Unmarked(g.levels[CHOOSE a \in Specified(name) :
                           \A b \in Specified(name) : Len(b) <= Len(a)])

(* The default level, asked for by the empty name as logging.h:373 and 338   *)
(* have it, is the one in force: the level that set_logger_level("") left in *)
(* the severities map is not in its way once set_default_logger_level        *)
(* changes the default level.                                                *)
DefaultLevelIsOne ==
  (ret.call = "effective" /\ ret.name = <<>> /\ ret.result # -1) => ret.result = g.default

\* The search ends at the empty name, whose entry in the map is out of date.
StaleFor(name) ==
  /\ Specified(name) = {} /\ SelfOrAncestor(<<>>, name)
  /\ IsSet(<<>>) /\ Unmarked(g.levels[<<>>]) # g.default

(* The loop that cuts a name at its separators returns the level of the      *)
(* closest of a logger's ancestors that has one, whatever has been set and   *)
(* unset before, and whichever calls failed.  The one exception is the stale *)
(* copy of the default level that DefaultLevelIsOne is about.                *)
EffectiveLevelIsNearest ==
  (ret.call = "effective" /\ ret.result # -1 /\ ~StaleFor(ret.name)) =>
     ret.result = NearestLevel(ret.name)

(* What rcutils_log makes of a message, with a logger's name or without: one *)
(* that a handler receives was enabled, logging is initialized, and the      *)
(* handler is the one in place after the initialization the call may have    *)
(* begun with; one that is dropped as disabled was below the level.  Nothing *)
(* is said of messages lost because no level or no time was found, there is  *)
(* no handler, or the console handler turned them away; nor where StaleFor.  *)
HandledIsEnabled ==
  LET level == IF ret.call = "log" THEN NearestLevel(ret.name) ELSE g.default
      stale == ret.call = "log" /\ StaleFor(ret.name)
  IN  ret.call \in {"log", "log_unnamed"} =>
        /\ ret.result \in {"console", "user"} =>
             g.initialized /\ ret.result = g.handler /\ (stale \/ ret.arg >= level)
        /\ ret.result = "disabled" => stale \/ ~(ret.arg >= level)

(* Setting the level of a logger, whether it succeeds or fails at any of    *)
(* its steps, leaves the levels that the user has set for other loggers     *)
(* alone, those of its descendants and of loggers whose name it begins      *)
(* included; when it fails midway the logger has no level, never a stale    *)
(* or partial one (logging.c:1088-1182).                                    *)
OnlyThatLogger(name, level, result) ==
  /\ \A n \in (DOMAIN g.levels \union DOMAIN g'.levels) \ {name} :
       n \in DOMAIN g.levels /\ n \in DOMAIN g'.levels /\ g'.levels[n] = g.levels[n]
  /\ name \in DOMAIN g'.levels <=>
       (result = "OK" \/ (result = "INVALID_ARGUMENT" /\ name \in DOMAIN g.levels))
  /\ result = "OK" => Unmarked(g'.levels[name]) = level
SettingIsLocal ==
  [][(g.valid /\ ret' # ret /\ ret'.call = "set_logger_level")
       => OnlyThatLogger(ret'.name, ret'.arg, ret'.result)]_vars

(* Every name that has been copied is the key of one entry of the map, or   *)
(* was lost when that entry could not be added; the purge and the shutdown  *)
(* free each name once.                                                     *)
KeysAreAccounted ==
  keys = lost + IF g.levels = NULL THEN 0 ELSE Cardinality(DOMAIN g.levels)

(* The severities map is valid exactly when it is there, and then logging is *)
(* initialized: an initialization, which replaces the map, loses no map and  *)
(* no names, and a shutdown leaves none behind.  Whether a failed            *)
(* initialization counts as one (logging.h:53-58 and 101-103 say that it     *)
(* does, the code leaves g_rcutils_logging_initialized false) is left open.  *)
MapGoesWithInit == (g.valid => g.initialized) /\ (g.valid <=> g.levels # NULL)

(* What initialization, levels and shutdown keep in common, after every     *)
(* call and every failure: all of the above about the state itself.         *)
StateIsConsistent == TypeOK /\ KeysAreAccounted /\ MapGoesWithInit

(* The search for an effective level ends, for every name. *)
SearchEnds == (walk # NoWalk) ~> (walk = NoWalk)
=============================================================================
