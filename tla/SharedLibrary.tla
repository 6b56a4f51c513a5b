--------------------------- MODULE SharedLibrary ---------------------------
(***************************************************************************)
(* src/shared_library.c on Linux: library structs over the handles of the  *)
(* dynamic linker.  dlerror, which reports and clears the last error of    *)
(* the thread, is state that other users of the dynamic linker share; as   *)
(* in POSIX, an error stays until dlerror is called.                       *)
(***************************************************************************)
EXTENDS Integers, FiniteSets

CONSTANTS
  Lib,            \* the rcutils_shared_library_t
  Path,           \* the libraries
  Symbols,        \* the names that are looked up
  SymbolsOf,      \* those each library defines
  MaxCloseFailures,   \* bound: how often dlclose fails
  NOLIB           \* lib_pointer is NULL

ASSUME LibAssumption == NOLIB \notin Path /\ MaxCloseFailures \in Nat

VARIABLES
  pointer,     \* lib_pointer: which library is open
  hasPath,     \* library_path is not NULL
  opened,      \* handles opened and not closed
  closeFailures,
  dlError,     \* dlerror() would report an error
  symbolAnswer \* history: the last answer about a symbol

libVars == <<pointer, hasPath, opened, closeFailures, dlError, symbolAnswer>>

NoAnswer == [call |-> "none"]
LibInit ==
  /\ pointer = [l \in Lib |-> NOLIB] /\ hasPath = [l \in Lib |-> FALSE]
  /\ opened = 0 /\ closeFailures = 0 /\ dlError = FALSE /\ symbolAnswer = NoAnswer

\* dlclose, which may fail and leave the handle open
Dlclose(n) ==
  \/ opened' = n - 1 /\ UNCHANGED closeFailures
  \/ /\ closeFailures < MaxCloseFailures
     /\ opened' = n /\ closeFailures' = closeFailures + 1

(* rcutils_load_shared_library: dlopen, dlinfo and the copy of the path, each *)
(* of which may fail; a struct that is not zero-initialized is refused.  The  *)
(* errors of the linker are taken from dlerror for the message.               *)
Load(l, p) ==
  /\ pointer[l] = NOLIB
  /\ pointer' = [pointer EXCEPT ![l] = p] /\ hasPath' = [hasPath EXCEPT ![l] = TRUE]
  /\ opened' = opened + 1
  /\ UNCHANGED <<closeFailures, dlError, symbolAnswer>>
DlopenFails(l) ==
  /\ pointer[l] = NOLIB /\ dlError' = FALSE
  /\ UNCHANGED <<pointer, hasPath, opened, closeFailures, symbolAnswer>>
LoadFails(l) ==
  /\ pointer[l] = NOLIB
  /\ Dlclose(opened + 1)
  /\ dlError' \in IF closeFailures' > closeFailures THEN {FALSE} ELSE {dlError, FALSE}
  /\ UNCHANGED <<pointer, hasPath, symbolAnswer>>

Answered(call, l, s, found) ==
  symbolAnswer' = [call |-> call, path |-> pointer[l], symbol |-> s, found |-> found]
Exists(l, s) == s \in SymbolsOf[pointer[l]]
(* rcutils_get_symbol: dlsym, and any error that dlerror reports *)
GetSymbol(l, s) ==
  /\ pointer[l] # NOLIB
  /\ Answered("get", l, s, Exists(l, s) /\ ~dlError)
  /\ dlError' = FALSE
  /\ UNCHANGED <<pointer, hasPath, opened, closeFailures>>
(* rcutils_has_symbol clears an older error first *)
\* Mutant: it does not.
KeptError == dlError
ClearedError == FALSE
HasSymbol(l, s) ==
  /\ pointer[l] # NOLIB
  /\ Answered("has", l, s, Exists(l, s) /\ ~ClearedError)
  /\ dlError' = FALSE
  /\ UNCHANGED <<pointer, hasPath, opened, closeFailures>>

(* rcutils_unload_shared_library: the struct is zeroed even if dlclose fails *)
\* Mutant: the path is kept, as for another load.
PathKept(l) == hasPath
PathFreed(l) == [hasPath EXCEPT ![l] = FALSE]
Unload(l) ==
  /\ pointer[l] # NOLIB /\ hasPath[l]
  /\ Dlclose(opened)
  /\ dlError' = IF closeFailures' > closeFailures THEN FALSE ELSE dlError
  /\ pointer' = [pointer EXCEPT ![l] = NOLIB] /\ hasPath' = PathFreed(l)
  /\ UNCHANGED symbolAnswer

\* Another user of the dynamic linker in this thread has not asked for its error.
OtherError ==
  /\ dlError' = TRUE
  /\ UNCHANGED <<pointer, hasPath, opened, closeFailures, symbolAnswer>>

LibNext ==
  \/ \E l \in Lib : \/ \E p \in Path : Load(l, p)
                    \/ DlopenFails(l) \/ LoadFails(l) \/ Unload(l)
                    \/ \E s \in Symbols : GetSymbol(l, s) \/ HasSymbol(l, s)
  \/ OtherError
LibSpec == LibInit /\ [][LibNext]_libVars

-----------------------------------------------------------------------------
(* A struct has a handle and a path or neither, and every other handle that  *)
(* is still open is one the linker refused to close.                         *)
(* Whatever else went wrong before, rcutils_has_symbol answers exactly       *)
(* whether the library has the symbol, and rcutils_get_symbol never returns  *)
(* one that it has not.                                                      *)
LibrariesAreAccounted ==
  /\ \A l \in Lib : hasPath[l] <=> pointer[l] # NOLIB
  /\ opened = Cardinality({l \in Lib : pointer[l] # NOLIB}) + closeFailures
SymbolIsThere == symbolAnswer.symbol \in SymbolsOf[symbolAnswer.path]
SymbolsAreFound ==
  /\ symbolAnswer.call = "has" => (symbolAnswer.found <=> SymbolIsThere)
  /\ symbolAnswer.call = "get" => (symbolAnswer.found => SymbolIsThere)
LibrariesAreSound == LibrariesAreAccounted /\ SymbolsAreFound

(* shared_library.h:97 says "\return shared library symbol pointer, or       *)
(* \return `NULL` if the symbol doesn't exist."                              *)
GetSymbolFinds == symbolAnswer.call = "get" => (symbolAnswer.found <=> SymbolIsThere)
=============================================================================
