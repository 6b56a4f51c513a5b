--------------------------- MODULE NextPowerOfTwo --------------------------
(***************************************************************************)
(* src/hash_map.c: next_power_of_two, which rounds the capacity a caller   *)
(* asks for up to a power of two by smearing the highest bit of v - 1 over *)
(* the bits below it.  A word has Width bits; the arithmetic wraps.  One   *)
(* step is one iteration of the loop.                                      *)
(***************************************************************************)
EXTENDS Integers

CONSTANT Width    \* the bits of a size_t
ASSUME WidthAssumption == Width \in Nat \ {0} /\ Width % 2 = 0

\* 1 << k, and the bits of a word
Power2[k \in 0 .. Width] == IF k = 0 THEN 1 ELSE 2 * Power2[k - 1]
Word == 0 .. Power2[Width] - 1
Bit == 0 .. Width - 1
Bits(n) == [k \in Bit |-> (n \div Power2[k]) % 2]

VARIABLES
  asked,    \* the argument
  bits,     \* v, until it is returned
  shf,      \* the last shift, 0 before the loop
  shifts,   \* i, the loop counter
  rounded   \* the v that the function has returned, or 0

roundVars == <<asked, bits, shf, shifts, rounded>>

\* The number that the lowest bits of v are
Number[k \in 0 .. Width] == IF k = 0 THEN 0 ELSE Number[k - 1] + bits[k - 1] * Power2[k - 1]

\* rcutils_hash_map_init calls it unless the argument is a power of two already,
\* or zero; the function itself takes any word.
RoundInit ==
  /\ asked \in Word
  /\ bits = Bits((asked - 1) % Power2[Width])
  /\ shf = 0 /\ shifts = 0 /\ rounded = 0

\* Mutant: the loop ends one shift early.
LastShiftHalved == Width \div 4
LastShift == Width \div 2
Smear ==
  /\ rounded = 0 /\ shf < LastShift
  /\ shf' = Power2[shifts]
  /\ bits' = [k \in Bit |->
                IF bits[k] = 1 \/ (k + shf' \in Bit /\ bits[k + shf'] = 1) THEN 1 ELSE 0]
  /\ shifts' = shifts + 1
  /\ UNCHANGED <<asked, rounded>>

Incremented == (Number[Width] + 1) % Power2[Width]
Return ==
  /\ rounded = 0 /\ shf >= LastShift
  /\ rounded' = IF Incremented > 1 THEN Incremented ELSE 1
  /\ UNCHANGED <<asked, bits, shf, shifts>>

RoundNext == Smear \/ Return
RoundSpec == RoundInit /\ [][RoundNext]_roundVars

-----------------------------------------------------------------------------
(* For every argument up to the largest power of two of the word the result  *)
(* is the smallest power of two that is not less: the capacity of a hash map *)
(* is what the caller asked for, rounded up, and never zero.  For larger     *)
(* arguments, and for 0, the arithmetic wraps to 1: a valid capacity, though *)
(* not the one that was asked for.                                           *)
Powers == {Power2[e] : e \in Bit}
RoundsUp ==
  rounded # 0 =>
    IF asked \in 1 .. Power2[Width - 1]
    THEN rounded \in Powers /\ rounded >= asked /\ \A p \in Powers : p >= asked => rounded <= p
    ELSE rounded = 1
=============================================================================
