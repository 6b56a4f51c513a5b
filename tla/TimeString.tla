---------------------------- MODULE TimeString -----------------------------
(***************************************************************************)
(* src/time.c and src/time_unix.c: reading a clock, and the three ways to  *)
(* write a time point.  A second has Power10[NanoDigits] nanoseconds, and  *)
(* the seconds of a time point have SecondDigits digits at most.  A string *)
(* is a sequence of symbols, a digit being its number; the 19 characters   *)
(* that strftime writes for the seconds are one symbol.                    *)
(***************************************************************************)
EXTENDS Integers, Sequences

CONSTANTS
  TimePoints,               \* the time points callers write
  BufferSizes,              \* str_size
  SecondDigits, NanoDigits  \* 10 and 9 in the code

TimeDigits == SecondDigits + NanoDigits
Power10[k \in 0 .. TimeDigits] == IF k = 0 THEN 1 ELSE 10 * Power10[k - 1]
NanosPerSecond == Power10[NanoDigits]
MilliDigits == 3
MINUS == -1
POINT == -2
DATE == -3
DateSize == 32   \* the size rcutils_time_point_value_as_date_string insists on

\* An int64_t has 19 digits at most.
ASSUME TimeAssumption ==
  /\ SecondDigits \in Nat \ {0} /\ NanoDigits \in Nat \ {0} /\ BufferSizes \subseteq Nat
  /\ \A t \in TimePoints : t \in Int /\ -Power10[TimeDigits] < t /\ t < Power10[TimeDigits]

VARIABLES
  timePoint,   \* an rcutils_time_point_value_t
  written      \* history: how it was written last, str_size, the result and str

timeVars == <<timePoint, written>>
Written(how, size, ret, str) == [how |-> how, size |-> size, ret |-> ret, str |-> str]
NotWritten == Written("none", 0, "OK", <<>>)
TimeInit == timePoint = 0 /\ written = NotWritten

(* rcutils_system_time_now and rcutils_steady_time_now: a clock before the   *)
(* epoch is an error and leaves the time point alone                         *)
WouldBeNegative(sec, nsec) == sec < 0 \/ (nsec < 0 /\ sec = 0)
TimeNow(sec, nsec) ==
  /\ timePoint' = IF WouldBeNegative(sec, nsec) THEN timePoint ELSE sec * NanosPerSecond + nsec
  /\ written' = NotWritten
\* The caller has a time point of its own, a negative one perhaps.
UseTimePoint(t) == timePoint' = t /\ written' = NotWritten

-----------------------------------------------------------------------------
(* The conversions of snprintf: a number with at least so many digits, and   *)
(* what fits in the buffer in front of the terminating NUL                   *)
DigitsOf(n) == CHOOSE w \in 1 .. TimeDigits : n < Power10[w] /\ (w > 1 => Power10[w - 1] <= n)
Decimal(n, least) ==
  LET w == IF DigitsOf(n) < least THEN least ELSE DigitsOf(n)
  IN [k \in 1 .. w |-> (n \div Power10[w - k]) % 10]
Fits(s, size) == SubSeq(s, 1, IF Len(s) < size THEN Len(s) ELSE size - 1)

Abs == IF timePoint < 0 THEN -timePoint ELSE timePoint   \* llabs
Seconds == Abs \div NanosPerSecond
Nanoseconds == Abs % NanosPerSecond
Sign == IF timePoint >= 0 THEN <<>> ELSE <<MINUS>>

\* Mutant: the fraction is not padded.
SecondsUnpadded == Sign \o Decimal(Seconds, SecondDigits) \o <<POINT>> \o Decimal(Nanoseconds, 1)
SecondsString == Sign \o Decimal(Seconds, SecondDigits) \o <<POINT>> \o Decimal(Nanoseconds, NanoDigits)
NanosecondsString == Sign \o Decimal(Abs, TimeDigits)
DateString == <<DATE, POINT>> \o SubSeq(Decimal(Nanoseconds, 1), 1,
                IF DigitsOf(Nanoseconds) < MilliDigits THEN DigitsOf(Nanoseconds) ELSE MilliDigits)

\* A buffer of size zero is left alone; snprintf may fail.
WritesOrFails(how, size, str) ==
  /\ \/ written' = Written(how, size, "OK", IF size = 0 THEN <<>> ELSE Fits(str, size))
     \/ size > 0 /\ written' = Written(how, size, "ERROR", <<>>)
  /\ UNCHANGED timePoint
AsNanosecondsString(size) == WritesOrFails("nanoseconds", size, NanosecondsString)
AsSecondsString(size) == WritesOrFails("seconds", size, SecondsString)
\* It fails before strftime (snprintf of the nanoseconds, localtime_r, a buffer that
\* is too small), in it, or behind the date.
AsDateString(size) ==
  /\ \/ size = 0 /\ written' = Written("date", size, "OK", <<>>)
     \/ size >= DateSize /\ written' = Written("date", size, "OK", DateString)
     \/ size > 0 /\ written' = Written("date", size, "ERROR", <<>>)
     \/ size >= DateSize /\ written' = Written("date", size, "ERROR", <<DATE>>)
  /\ UNCHANGED timePoint

TimeNext ==
  \/ \E sec \in -1 .. 1, nsec \in {-1, 0, NanosPerSecond - 1} : TimeNow(sec, nsec)
  \/ \E t \in TimePoints : UseTimePoint(t)
  \/ \E size \in BufferSizes : AsNanosecondsString(size) \/ AsSecondsString(size) \/ AsDateString(size)
TimeSpec == TimeInit /\ [][TimeNext]_timeVars

-----------------------------------------------------------------------------
(* The number a row of digits denotes, signs and points left aside           *)
ReadBack(s) ==
  LET value[k \in 0 .. Len(s)] == IF k = 0 THEN 0
                                  ELSE IF s[k] < 0 THEN value[k - 1] ELSE 10 * value[k - 1] + s[k]
  IN  value[Len(s)]
(* Written as seconds or as nanoseconds, a time point that fits can be read  *)
(* back exactly: its digits are its value, there is a sign if it is          *)
(* negative, and the width is always the same.  One that does not fit is cut *)
(* at the end of the buffer.                                                 *)
TimeCanBeReadBack ==
  (written.how \in {"seconds", "nanoseconds"} /\ written.ret = "OK" /\ written.size > 0) =>
    LET s == written.str
        width == TimeDigits + (IF written.how = "seconds" THEN 1 ELSE 0)
                 + (IF timePoint < 0 THEN 1 ELSE 0)
    IN /\ Len(s) = IF width < written.size THEN width ELSE written.size - 1
       /\ Len(s) = width => /\ ReadBack(s) = Abs
                            /\ timePoint < 0 <=> s[1] = MINUS

(* time.h:146 says "Return a time point as an datetime in local time with    *)
(* milliseconds in a string.": the digits behind the date are the            *)
(* milliseconds.                                                             *)
MillisecondsAreWritten ==
  (written.how = "date" /\ written.ret = "OK" /\ written.size > 0) =>
    ReadBack(written.str) = Nanoseconds \div Power10[NanoDigits - MilliDigits]
=============================================================================
