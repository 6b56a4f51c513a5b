--------------------------- MODULE KeyValueStore ---------------------------
(***************************************************************************)
(* What include/rcutils/types/hash_map.h promises its callers: a finite    *)
(* dictionary whose calls report what they did.  Nothing is said of        *)
(* buckets, capacities or memory.                                          *)
(***************************************************************************)
CONSTANTS
  Key, Value,
  NULL        \* no key, no value

VARIABLES
  alive,      \* the map is initialized
  dict,       \* dict[k]: the value stored for k, NULL if there is none
  ret,        \* what the last call returned; "pending" inside a call
  seen        \* the keys the caller's current traversal has been given

vars == <<alive, dict, ret, seen>>

Present == {k \in Key : dict[k] # NULL}

Reply(code, k, v) == [code |-> code, key |-> k, data |-> v]
Replies(code) == ret' = Reply(code, NULL, NULL)

Init ==
  /\ alive = FALSE
  /\ dict = [k \in Key |-> NULL]
  /\ ret = Reply("OK", NULL, NULL)
  /\ seen = {}

Ready == alive /\ ret.code # "pending"

Create ==
  /\ ~alive
  /\ \/ alive' = TRUE /\ Replies("OK")
     \/ alive' = FALSE /\ Replies("BAD_ALLOC")
  /\ UNCHANGED <<seen, dict>>

Destroy ==
  /\ Ready
  /\ alive' = FALSE
  /\ Replies("OK")
  /\ seen' = {}
  /\ dict' = [k \in Key |-> NULL]

\* Storing takes effect, and is then bound to be reported as a success.
Put(k, v) ==
  /\ Ready
  /\ Replies("pending")
  /\ seen' = {}
  /\ dict' = [dict EXCEPT ![k] = v]
  /\ UNCHANGED alive

PutReturns ==
  /\ ret.code = "pending"
  /\ Replies("OK")
  /\ UNCHANGED <<alive, seen, dict>>

\* Only a key that is not stored yet needs memory; a failure leaves no trace.
PutFails(k) ==
  /\ Ready
  /\ Replies("BAD_ALLOC")
  /\ dict[k] = NULL
  /\ UNCHANGED <<alive, seen, dict>>

Remove(k) ==
  /\ Ready
  /\ Replies("OK")
  /\ seen' = {}
  /\ dict' = [dict EXCEPT ![k] = NULL]
  /\ UNCHANGED alive

Lookup(k) ==
  /\ Ready
  /\ IF dict[k] # NULL THEN ret' = Reply("OK", NULL, dict[k]) ELSE Replies("NOT_FOUND")
  /\ UNCHANGED <<alive, seen, dict>>

\* A traversal is given every stored key once, then told there are no more.
Traverse ==
  /\ Ready
  /\ \E sofar \in {seen, {}} :
       \/ \E k \in Present \ sofar :
            ret' = Reply("OK", k, dict[k]) /\ seen' = sofar \union {k}
       \/ sofar = Present /\ Replies("NO_MORE_ENTRIES") /\ seen' = {}
  /\ UNCHANGED <<alive, dict>>

TraverseFromAbsentKey ==
  /\ Ready
  /\ Replies("NOT_FOUND")
  /\ Present # Key
  /\ UNCHANGED <<alive, seen, dict>>

Next ==
  \/ Create \/ Destroy \/ PutReturns \/ Traverse \/ TraverseFromAbsentKey
  \/ \E k \in Key : Remove(k) \/ Lookup(k) \/ PutFails(k) \/ \E v \in Value : Put(k, v)

Spec == Init /\ [][Next]_vars
=============================================================================
