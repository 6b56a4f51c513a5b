----------------------------- MODULE MCHashMap -----------------------------
(***************************************************************************)
(* Four keys: k1 and k2 have the same hash, k3 shares their bucket at      *)
(* every capacity up to 8, k4 moves from bucket to bucket as the map       *)
(* grows.                                                                  *)
(***************************************************************************)
EXTENDS HashMap, TLC
LOCAL INSTANCE Bitwise

CONSTANTS k1, k2, k3, k4

MCHash == [k \in Key |-> (k1 :> 0 @@ k2 :> 0 @@ k3 :> 8 @@ k4 :> 5)[k]]
MCBitAnd(a, b) == a & b
=============================================================================
