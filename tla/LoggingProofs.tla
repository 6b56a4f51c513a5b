--------------------------- MODULE LoggingProofs ----------------------------
(***************************************************************************)
(* The search for the effective level of a logger returns the level of its *)
(* closest ancestor that has one, messages are logged accordingly, setting *)
(* a level touches that logger only, and the state of logging.c stays      *)
(* consistent through every failure: for all logger names and levels.      *)
(***************************************************************************)
EXTENDS Logging, FiniteSetTheorems, SequenceTheorems, WellFoundedInduction, TLAPS

Char == UNION {{n[i] : i \in DOMAIN n} : n \in Name}

\* The severities maps that setting levels can make, and the global variables.
UserLevels == {SetByUser(level) : level \in SeverityNames}
LevelMaps == UNION {[ns -> UserLevels] : ns \in SUBSET Name}
Globals == [initialized : BOOLEAN, valid : BOOLEAN, default : Int,
            handler : {NULL, "console", "user"}, levels : {NULL} \union LevelMaps]

Consistent(s) ==
  /\ s \in Globals
  /\ s.initialized <=> s.valid
  /\ s.valid <=> s.levels # NULL
  /\ s.levels # NULL => IsFiniteSet(DOMAIN s.levels)

\* How many names the map of s owns.
Owned(s) == IF s.levels = NULL THEN 0 ELSE Cardinality(DOMAIN s.levels)

-----------------------------------------------------------------------------
\* The bottom bit marks a level as the user's and is removed again.
LEMMA MarkedLevels ==
  /\ \A level \in SeverityNames : SetByUser(level) \in UserLevels /\ Unmarked(SetByUser(level)) = level
  /\ \A x \in UserLevels : x \in Int /\ x % 2 = 1 /\ Unmarked(x) \in SeverityNames
<1>1. \A level \in SeverityNames : /\ SetByUser(level) \in Int /\ SetByUser(level) % 2 = 1
                                   /\ Unmarked(SetByUser(level)) = level
  BY DEF SeverityNames, SetByUser, Unmarked
<1>2. QED
  BY <1>1 DEF UserLevels

\* A severities map is a function from names, and is not NULL.
LEMMA LevelMapFacts ==
  /\ \A f \in LevelMaps : /\ f # NULL /\ DOMAIN f \subseteq Name /\ f \in [DOMAIN f -> UserLevels]
                          /\ \A n \in DOMAIN f : f[n] \in UserLevels
  /\ \A ns \in SUBSET Name : \A f \in [ns -> UserLevels] : f \in LevelMaps
  /\ NoLevels \in LevelMaps /\ DOMAIN NoLevels = {}
<1>1. UserLevels \subseteq Int
  BY MarkedLevels
<1>2. \A ns \in SUBSET Name : \A f \in [ns -> UserLevels] : f \in [ns -> Int]
  BY <1>1
<1>3. \A f \in LevelMaps : f # NULL
  BY <1>2, LoggingAssumption DEF LevelMaps
<1>4. \A f \in LevelMaps : DOMAIN f \subseteq Name /\ f \in [DOMAIN f -> UserLevels]
  BY DEF LevelMaps
<1>5. \A ns \in SUBSET Name : \A f \in [ns -> UserLevels] : f \in LevelMaps
  BY DEF LevelMaps
<1>6. NoLevels \in [{} -> UserLevels] /\ DOMAIN NoLevels = {}
  BY DEF NoLevels
<1>7. QED
  BY <1>3, <1>4, <1>5, <1>6

\* Assignments to the global variables keep their types.
LEMMA GlobalsExcept ==
  ASSUME NEW s, s \in Globals
  PROVE  /\ \A v \in Int : [s EXCEPT !.default = v] \in Globals
         /\ \A v \in {NULL, "console", "user"} : [s EXCEPT !.handler = v] \in Globals
         /\ \A v \in Int : [s EXCEPT !.handler = "console", !.default = v] \in Globals
         /\ [s EXCEPT !.levels = NULL, !.valid = FALSE] \in Globals
         /\ \A f \in LevelMaps, v \in Int : [s EXCEPT !.levels = f, !.default = v] \in Globals
         /\ [s EXCEPT !.initialized = FALSE, !.valid = FALSE, !.levels = NULL] \in Globals
<1>1. \A x \in Globals : /\ \A v \in Int : [x EXCEPT !.default = v] \in Globals
                         /\ \A v \in {NULL, "console", "user"} : [x EXCEPT !.handler = v] \in Globals
                         /\ \A v \in {NULL} \union LevelMaps : [x EXCEPT !.levels = v] \in Globals
  BY DEF Globals
<1>2. \A x \in Globals : [x EXCEPT !.valid = FALSE] \in Globals /\ [x EXCEPT !.initialized = FALSE] \in Globals
  BY DEF Globals
<1>3. ASSUME NEW v \in Int
      PROVE  [s EXCEPT !.handler = "console", !.default = v] \in Globals
  <2> DEFINE y == [s EXCEPT !.handler = "console"]
  <2>1. y \in Globals /\ [s EXCEPT !.handler = "console", !.default = v] = [y EXCEPT !.default = v]
    BY <1>1
  <2> HIDE DEF y
  <2>2. QED
    BY <1>1, <2>1
<1>4. [s EXCEPT !.levels = NULL, !.valid = FALSE] \in Globals
  <2> DEFINE y == [s EXCEPT !.levels = NULL]
  <2>1. y \in Globals /\ [s EXCEPT !.levels = NULL, !.valid = FALSE] = [y EXCEPT !.valid = FALSE]
    BY <1>1
  <2> HIDE DEF y
  <2>2. QED
    BY <1>2, <2>1
<1>5. ASSUME NEW f \in LevelMaps, NEW v \in Int
      PROVE  [s EXCEPT !.levels = f, !.default = v] \in Globals
  <2> DEFINE y == [s EXCEPT !.levels = f]
  <2>1. y \in Globals /\ [s EXCEPT !.levels = f, !.default = v] = [y EXCEPT !.default = v]
    BY <1>1
  <2> HIDE DEF y
  <2>2. QED
    BY <1>1, <2>1
<1>6. [s EXCEPT !.initialized = FALSE, !.valid = FALSE, !.levels = NULL] \in Globals
  <2> DEFINE y == [s EXCEPT !.initialized = FALSE]
             z == [y EXCEPT !.valid = FALSE]
  <2>1. y \in Globals
    BY <1>2
  <2>2. [s EXCEPT !.initialized = FALSE, !.valid = FALSE, !.levels = NULL] = [z EXCEPT !.levels = NULL]
    OBVIOUS
  <2> HIDE DEF y
  <2>3. z \in Globals
    BY <1>2, <2>1
  <2> HIDE DEF z
  <2>4. QED
    BY <1>1, <2>2, <2>3
<1>7. QED
  BY <1>1, <1>3, <1>4, <1>5, <1>6

\* RCUTILS_LOGGING_AUTOINIT: it leaves an initialized state alone, and one that was
\* not initialized either without a map, and then with the console handler, or with
\* an empty map.
LEMMA AutoInitFacts ==
  ASSUME Consistent(g), NEW h \in AutoInit
  PROVE  /\ Consistent(h) /\ Owned(h) = Owned(g)
         /\ g.initialized => h = g
         /\ (h.levels # NULL /\ DOMAIN h.levels # {}) => h = g
         /\ ~h.initialized => h.handler = "console"
<1>1. CASE g.initialized
  BY <1>1 DEF AutoInit
<1>2. CASE ~g.initialized
  <2>1. g.valid = FALSE /\ g.levels = NULL /\ g \in Globals /\ g.initialized = FALSE
    BY <1>2 DEF Consistent, Globals
  <2>2. h \in {EnvRejected, MapInitFailed, Initialized}
    BY <1>2 DEF AutoInit, InitOutcomes
  <2>3. CASE h \in {EnvRejected, MapInitFailed}
    <3>1. /\ h \in Globals /\ h.initialized = FALSE /\ h.valid = FALSE /\ h.levels = NULL
          /\ h.handler = "console"
      <4>1. /\ EnvRejected \in Globals /\ EnvRejected.initialized = FALSE
            /\ EnvRejected.valid = FALSE /\ EnvRejected.levels = NULL /\ EnvRejected.handler = "console"
        <5>1. EnvRejected \in Globals
          <6>1. INFO \in Int
            BY DEF INFO
          <6>2. \A v \in Int : [g EXCEPT !.handler = "console", !.default = v] \in Globals
            BY <2>1, GlobalsExcept
          <6>3. QED
            BY <6>1, <6>2, Zenon DEF EnvRejected
        <5>2. QED
          BY <2>1, <5>1 DEF EnvRejected, Globals
      <4>2. /\ MapInitFailed \in Globals /\ MapInitFailed.initialized = FALSE
            /\ MapInitFailed.valid = FALSE /\ MapInitFailed.levels = NULL /\ MapInitFailed.handler = "console"
        <5>1. MapInitFailed \in Globals
          BY <4>1, GlobalsExcept DEF MapInitFailed
        <5>2. QED
          BY <4>1, <5>1 DEF MapInitFailed, Globals
      <4>3. QED
        BY <2>3, <4>1, <4>2
    <3>2. QED
      BY <1>2, <2>1, <3>1 DEF Consistent, Owned
  <2>4. CASE h = Initialized
    <3>1. h \in Globals /\ h.initialized = TRUE /\ h.valid = TRUE /\ h.levels = NoLevels
      BY <2>4, LevelMapFacts DEF Initialized, Globals, INFO
    <3>2. NoLevels # NULL /\ DOMAIN NoLevels = {} /\ IsFiniteSet(DOMAIN NoLevels)
          /\ Cardinality(DOMAIN NoLevels) = 0
      BY LevelMapFacts, FS_EmptySet
    <3>3. QED
      BY <1>2, <2>1, <3>1, <3>2 DEF Consistent, Owned
  <2>5. QED
    BY <2>2, <2>3, <2>4
<1>3. QED
  BY <1>1, <1>2

-----------------------------------------------------------------------------
(* The closest ancestor in the severities map of s, the empty name included *)
SpecifiedIn(s, name) ==
  {a \in DOMAIN s.levels :
     SelfOrAncestor(a, name) /\ a \in DOMAIN s.levels /\ Unmarked(s.levels[a]) # UNSET}
NearestIn(s, name) ==
  IF SpecifiedIn(s, name) = {} THEN s.default
  ELSE Unmarked(s.levels[CHOOSE a \in SpecifiedIn(s, name) :
                           \A b \in SpecifiedIn(s, name) : Len(b) <= Len(a)])

LEMMA NearestNext == NearestIn(g, ret.name)' = NearestIn(g', ret'.name)
BY DEF SpecifiedIn, NearestIn

\* Names are sequences of characters, and so are the ancestors in the map.
LEMMA NameFacts ==
  ASSUME NEW name \in Name
  PROVE  /\ name \in Seq(Char) /\ Len(name) \in Nat /\ DOMAIN name = 1 .. Len(name)
         /\ SubSeq(name, 1, Len(name)) = name /\ BeginsWith(name, name)
         /\ \A i \in 0 .. Len(name) :
              Len(SubSeq(name, 1, i)) = i /\ SubSeq(name, 1, i) \in Seq(Char)
<1>1. name \in Seq(Char)
  BY LoggingAssumption DEF Char
<1>2. Len(name) \in Nat /\ DOMAIN name = 1 .. Len(name)
  BY <1>1
<1>3. SubSeq(name, 1, Len(name)) = name
  BY <1>1, SubSeqFull
<1>4. ASSUME NEW i \in 0 .. Len(name)
      PROVE  Len(SubSeq(name, 1, i)) = i /\ SubSeq(name, 1, i) \in Seq(Char)
  <2>1. \A j \in 1 .. i : name[j] \in Char
    BY <1>1, <1>2
  <2>2. i \in Int /\ 1 \in Int
    BY <1>2
  <2>3. SubSeq(name, 1, i) \in Seq(Char) /\ Len(SubSeq(name, 1, i)) = IF 1 <= i THEN i - 1 + 1 ELSE 0
    BY <2>1, <2>2, SubSeqProperties
  <2>4. QED
    BY <1>2, <2>3
<1>5. QED
  BY <1>1, <1>2, <1>3, <1>4 DEF BeginsWith

\* Ancestors are prefixes: two of the same length are the same logger.
LEMMA AncestorFacts ==
  ASSUME NEW s, s \in Globals, s.levels # NULL, NEW name \in Name, NEW a \in SpecifiedIn(s, name)
  PROVE  /\ a \in Name /\ Len(a) \in Nat /\ Len(a) <= Len(name) /\ a = SubSeq(name, 1, Len(a))
         /\ Len(a) = Len(name) => a = name
         /\ Len(a) < Len(name) => name[Len(a) + 1] = Separator
<1>1. a \in Name
  BY LevelMapFacts DEF SpecifiedIn, Globals
<1>2. Len(a) \in Nat /\ Len(name) \in Nat
  BY <1>1, NameFacts
<1>3. SelfOrAncestor(a, name)
  BY DEF SpecifiedIn
<1>4. CASE a = name
  BY <1>1, <1>2, <1>4, NameFacts
<1>5. CASE a # name
  BY <1>1, <1>2, <1>3, <1>5 DEF SelfOrAncestor, BeginsWith
<1>6. QED
  BY <1>4, <1>5

\* The longest of the specified ancestors is the closest.
LEMMA LongestIsNearest ==
  ASSUME NEW s, s \in Globals, s.levels # NULL, NEW name \in Name,
         NEW a \in SpecifiedIn(s, name), \A b \in SpecifiedIn(s, name) : Len(b) <= Len(a)
  PROVE  NearestIn(s, name) = Unmarked(s.levels[a])
<1> DEFINE c == CHOOSE x \in SpecifiedIn(s, name) : \A b \in SpecifiedIn(s, name) : Len(b) <= Len(x)
<1>1. c \in SpecifiedIn(s, name) /\ \A b \in SpecifiedIn(s, name) : Len(b) <= Len(c)
  OBVIOUS
<1>2. NearestIn(s, name) = Unmarked(s.levels[c])
  BY DEF NearestIn
<1> HIDE DEF c
<1>3. Len(c) = Len(a)
  BY <1>1, AncestorFacts
<1>4. c = a
  BY <1>1, <1>3, AncestorFacts
<1>5. QED
  BY <1>2, <1>4

-----------------------------------------------------------------------------
\* What a call finds at the logger itself, and at the next ancestor: none of the
\* specified ancestors that are left is longer.
LEMMA OwnLevelIsNearest ==
  ASSUME NEW s, s \in Globals, s.levels # NULL, NEW name \in Name
  PROVE  /\ DOMAIN s.levels = {} => NearestIn(s, name) = s.default
         /\ SeverityLevel(s, name) # UNSET => NearestIn(s, name) = SeverityLevel(s, name)
         /\ SeverityLevel(s, name) = UNSET =>
              \A a \in SpecifiedIn(s, name) : Len(a) < Len(name)
<1>1. DOMAIN s.levels = {} => NearestIn(s, name) = s.default
  BY DEF NearestIn, SpecifiedIn
<1>2. ASSUME SeverityLevel(s, name) # UNSET
      PROVE  NearestIn(s, name) = SeverityLevel(s, name)
  <2>1. name \in DOMAIN s.levels /\ SeverityLevel(s, name) = Unmarked(s.levels[name])
    BY <1>2 DEF SeverityLevel
  <2>2. name \in SpecifiedIn(s, name)
    BY <1>2, <2>1 DEF SpecifiedIn, SelfOrAncestor
  <2>3. \A b \in SpecifiedIn(s, name) : Len(b) <= Len(name)
    BY AncestorFacts
  <2>4. QED
    BY <2>1, <2>2, <2>3, LongestIsNearest
<1>3. ASSUME SeverityLevel(s, name) = UNSET, NEW a \in SpecifiedIn(s, name)
      PROVE  Len(a) < Len(name)
  <2>1. a # name
    BY <1>3 DEF SpecifiedIn, SeverityLevel
  <2>2. Len(a) \in Nat /\ Len(name) \in Nat /\ Len(a) <= Len(name) /\ (Len(a) = Len(name) => a = name)
    BY AncestorFacts, NameFacts
  <2>3. QED
    BY <2>1, <2>2
<1>4. QED
  BY <1>1, <1>2, <1>3

\* A set of numbers that is bounded and not empty has a greatest element.
LEMMA GreatestOf ==
  ASSUME NEW n \in Nat, NEW S, S \subseteq 0 .. n, S # {}
  PROVE  \E i \in S : \A j \in S : i >= j
<1> DEFINE R == OpToRel(<, Nat)
           D == {n - i : i \in S}
<1>1. IsWellFoundedOn(R, Nat)
  BY NatLessThanWellFounded
<1>2. \A i, j \in Nat : j < i => <<j, i>> \in R
  BY DEF OpToRel
<1>3. D \subseteq Nat /\ D # {} /\ \A i \in S : i \in Nat /\ n - i \in D /\ n - i \in Nat
  OBVIOUS
<1>4. \A d \in D : \E i \in S : d = n - i
  OBVIOUS
<1> HIDE DEF R, D
<1>5. PICK d \in D : \A c \in D : ~(<<c, d>> \in R)
  BY <1>1, <1>3, WFMin
<1>6. PICK i \in S : d = n - i
  BY <1>4
<1>7. \A j \in S : ~(n - j < n - i)
  BY <1>2, <1>3, <1>5, <1>6
<1>8. \A j \in S : i >= j
  BY <1>3, <1>7
<1>9. QED
  BY <1>8

\* rcutils_find_lastn returns the last separator of the prefix, when there is one.
LEMMA FindLastIsLast ==
  ASSUME NEW name, NEW length \in Nat
  PROVE  /\ FindLast(name, length) \in 0 .. length
         /\ FindLast(name, length) # 0 => name[FindLast(name, length)] = Separator
         /\ \A i \in 1 .. length : name[i] = Separator => i <= FindLast(name, length)
<1> DEFINE at == {i \in 1 .. length : name[i] = Separator}
<1>1. CASE at = {}
  BY <1>1 DEF FindLast
<1>2. CASE at # {}
  <2>1. at \subseteq 0 .. length
    OBVIOUS
  <2>2. \E i \in at : \A j \in at : i >= j
    <3> HIDE DEF at
    <3>1. QED
      BY <1>2, <2>1, GreatestOf
  <2>3. FindLast(name, length) \in at /\ \A j \in at : FindLast(name, length) >= j
    BY <1>2, <2>2 DEF FindLast
  <2>4. QED
    BY <2>3
<1>3. QED
  BY <1>1, <1>2

\* One turn of the loop over the ancestors: it ends at the closest ancestor with a
\* level, or at none, or goes on with a shorter prefix that misses none of them.
LEMMA NextAncestorIsNext ==
  ASSUME NEW s, s \in Globals, s.levels # NULL, NEW name \in Name,
         NEW length \in 0 .. Len(name), \A a \in SpecifiedIn(s, name) : Len(a) < length,
         NEW index, index = FindLast(name, length),
         NEW severity, severity = SeverityLevel(s, SubSeq(name, 1, index - 1))
  PROVE  /\ index \in 0 .. length
         /\ index = 0 => NearestIn(s, name) = s.default
         /\ (index # 0 /\ severity # UNSET) => NearestIn(s, name) = severity
         /\ (index # 0 /\ severity = UNSET) => \A a \in SpecifiedIn(s, name) : Len(a) < index - 1
<1>1. Len(name) \in Nat /\ length \in Nat /\ length <= Len(name)
  BY NameFacts
<1>2. /\ index \in 0 .. length
      /\ index # 0 => name[index] = Separator
      /\ \A i \in 1 .. length : name[i] = Separator => i <= index
  BY <1>1, FindLastIsLast
<1>3. \A a \in SpecifiedIn(s, name) : /\ Len(a) \in Nat /\ Len(a) + 1 <= index
                                      /\ a = SubSeq(name, 1, Len(a))
  <2>1. SUFFICES ASSUME NEW a \in SpecifiedIn(s, name)
                 PROVE  Len(a) \in Nat /\ Len(a) + 1 <= index /\ a = SubSeq(name, 1, Len(a))
    OBVIOUS
  <2>2. Len(a) \in Nat /\ a = SubSeq(name, 1, Len(a)) /\ Len(a) < length
    BY AncestorFacts
  <2>3. name[Len(a) + 1] = Separator
    BY <1>1, <2>2, AncestorFacts
  <2>4. QED
    BY <1>1, <1>2, <2>2, <2>3
<1>4. ASSUME index = 0
      PROVE  NearestIn(s, name) = s.default
  <2>1. SpecifiedIn(s, name) = {}
    BY <1>3, <1>4
  <2>2. QED
    BY <2>1 DEF NearestIn
<1> DEFINE p == SubSeq(name, 1, index - 1)
<1>5. ASSUME index # 0
      PROVE  Len(p) = index - 1 /\ index \in Nat
  BY <1>1, <1>2, <1>5, NameFacts
<1>6. ASSUME index # 0, severity # UNSET
      PROVE  NearestIn(s, name) = severity
  <2>1. p \in DOMAIN s.levels /\ severity = Unmarked(s.levels[p])
    BY <1>6 DEF SeverityLevel
  <2>2. SelfOrAncestor(p, name)
    <3>1. Len(p) < Len(name) /\ Len(p) = index - 1 /\ Len(p) + 1 = index
      BY <1>1, <1>2, <1>5, <1>6
    <3>2. SubSeq(name, 1, Len(p)) = p /\ name[Len(p) + 1] = Separator
      BY <1>2, <1>6, <3>1
    <3> HIDE DEF p
    <3>3. Len(name) >= Len(p)
      BY <1>1, <1>5, <1>6, <3>1
    <3>4. QED
      BY <3>1, <3>2, <3>3 DEF SelfOrAncestor, BeginsWith
  <2>3. p \in SpecifiedIn(s, name)
    BY <1>6, <2>1, <2>2 DEF SpecifiedIn
  <2>4. \A b \in SpecifiedIn(s, name) : Len(b) <= Len(p)
    BY <1>3, <1>5, <1>6
  <2> HIDE DEF p
  <2>5. QED
    BY <2>1, <2>3, <2>4, LongestIsNearest
<1>7. ASSUME index # 0, severity = UNSET, NEW a \in SpecifiedIn(s, name)
      PROVE  Len(a) < index - 1
  <2>1. Len(a) # index - 1
    <3>1. SUFFICES ASSUME Len(a) = index - 1
                   PROVE  FALSE
      OBVIOUS
    <3>2. a = p
      BY <1>3, <3>1
    <3>3. a \in DOMAIN s.levels /\ Unmarked(s.levels[a]) # UNSET
      BY DEF SpecifiedIn
    <3>4. severity = SeverityLevel(s, a)
      BY <3>2
    <3> HIDE DEF p
    <3>5. severity = Unmarked(s.levels[a])
      BY <3>3, <3>4 DEF SeverityLevel
    <3>6. QED
      BY <1>7, <3>3, <3>5
  <2>2. QED
    BY <1>3, <1>5, <1>7, <2>1
<1>8. QED
  BY <1>2, <1>4, <1>6, <1>7

-----------------------------------------------------------------------------
\* The search in progress: the ancestors with a level that it has not tried yet are
\* all shorter than the prefix it has come to.
WalkInv ==
  walk # NoWalk =>
    /\ g.initialized /\ walk.call \in {"effective", "log"} /\ walk.name \in Name
    /\ walk = [call |-> walk.call, name |-> walk.name, arg |-> walk.arg, length |-> walk.length]
    /\ walk.length \in 0 .. Len(walk.name)
    /\ \A a \in SpecifiedIn(g, walk.name) : Len(a) < walk.length

\* What the calls that search, or that log without a logger's name, have replied: the
\* levels are those of the severities map, out of date or not.
EffectiveFromMap ==
  (ret.call = "effective" /\ ret.result # -1) =>
    g.initialized /\ ret.name \in Name /\ ret.result = NearestIn(g, ret.name)
LogFromMap ==
  ret.call = "log" =>
    /\ ret.result \in {"console", "user", "disabled"} => g.initialized /\ ret.name \in Name
    /\ ret.result \in {"console", "user"} =>
         ret.result = g.handler /\ ret.arg >= NearestIn(g, ret.name)
    /\ ret.result = "disabled" => ~(ret.arg >= NearestIn(g, ret.name))
UnnamedHandled ==
  ret.call = "log_unnamed" =>
    /\ ret.result \in {"console", "user"} =>
         g.initialized /\ ret.result = g.handler /\ ret.arg >= g.default
    /\ ret.result = "disabled" => ~(ret.arg >= g.default)

\* The inductive invariant.
Inv ==
  /\ Consistent(g)
  /\ keys = lost + Owned(g) /\ lost \in 0 .. MaxLost
  /\ WalkInv
  /\ EffectiveFromMap /\ LogFromMap /\ UnnamedHandled

\* It contains the consistency of the state.
LEMMA InvIsConsistent == Inv => StateIsConsistent
<1> SUFFICES ASSUME Inv
             PROVE  StateIsConsistent
  OBVIOUS
<1>1. g \in Globals /\ Consistent(g)
  BY DEF Inv, Consistent
<1>2. /\ g.initialized \in BOOLEAN /\ g.valid \in BOOLEAN /\ g.default \in Int
      /\ g.handler \in {NULL, "console", "user"}
  BY <1>1 DEF Globals
<1>3. ASSUME g.levels # NULL
      PROVE  /\ DOMAIN g.levels \subseteq Name
             /\ \A n \in DOMAIN g.levels : g.levels[n] % 2 = 1 /\ Unmarked(g.levels[n]) \in SeverityNames
  <2>1. g.levels \in LevelMaps
    BY <1>1, <1>3 DEF Globals
  <2>2. QED
    BY <2>1, LevelMapFacts, MarkedLevels
<1>4. Owned(g) \in Nat
  BY <1>1, FS_CardinalityType DEF Consistent, Owned
<1>5. keys \in Nat /\ lost \in 0 .. MaxLost
  BY <1>4, LoggingAssumption DEF Inv
<1>6. walk.length \in 0 .. Len(walk.name)
  <2>1. CASE walk = NoWalk
    <3>1. walk.length = 0 /\ walk.name = <<>>
      BY <2>1 DEF NoWalk
    <3>2. QED
      BY <3>1
  <2>2. CASE walk # NoWalk
    BY <2>2 DEF Inv, WalkInv
  <2>3. QED
    BY <2>1, <2>2
<1>7. TypeOK
  BY <1>2, <1>3, <1>5, <1>6 DEF TypeOK
<1>8. KeysAreAccounted
  BY DEF Inv, Owned, KeysAreAccounted
<1>9. MapGoesWithInit
  BY <1>1 DEF Consistent, MapGoesWithInit
<1>10. QED
  BY <1>7, <1>8, <1>9 DEF StateIsConsistent

-----------------------------------------------------------------------------
\* Messages that reach a handler reach the one in place; the console handler only
\* takes them while logging is initialized.
LEMMA ReachedIsInPlace ==
  ASSUME NEW s, s \in Globals, NEW severity,
         NEW r \in {"no_time", Handled(s, severity)}
  PROVE  /\ r # "disabled"
         /\ r \in {"console", "user"} => r = s.handler
         /\ (r \in {"console", "user"} /\ s.handler = "console") => s.initialized
<1>1. s.handler \in {NULL, "console", "user"}
  BY DEF Globals
<1>2. QED
  BY <1>1 DEF Handled

\* Whatever ends a search, what it replies agrees with the level it concludes from.
LEMMA ConcludeReplies ==
  ASSUME NEW s, s \in Globals, NEW call, NEW name \in Name, NEW arg, NEW level,
         Conclude(s, call, name, arg, level),
         g' = s, level = -1 \/ (level = NearestIn(s, name) /\ s.initialized)
  PROVE  /\ EffectiveFromMap' /\ LogFromMap' /\ UnnamedHandled'
         /\ call \in {"effective", "log"} /\ ret'.call = call
<1>1. CASE call = "effective"
  <2>1. ret' = [call |-> "effective", name |-> name, arg |-> arg, result |-> level]
    BY <1>1 DEF Conclude, Replies
  <2>2. EffectiveFromMap'
    BY <2>1, NearestNext DEF EffectiveFromMap
  <2>3. LogFromMap' /\ UnnamedHandled'
    BY <2>1 DEF LogFromMap, UnnamedHandled
  <2>4. QED
    BY <1>1, <2>1, <2>2, <2>3
<1>2. CASE call = "log"
  <2>1. /\ ret'.call = "log" /\ ret'.name = name /\ ret'.arg = arg
        /\ \/ level = -1 /\ ret'.result = "error"
           \/ level # -1 /\ ~(arg >= level) /\ ret'.result = "disabled"
           \/ /\ level # -1 /\ arg >= level /\ ret'.result # "disabled"
              /\ ret'.result \in {"console", "user"} => ret'.result = s.handler
    <3>1. CASE level = -1
      BY <1>2, <3>1 DEF Conclude, Replies
    <3>2. CASE level # -1 /\ ~Enabled(level, arg)
      BY <1>2, <3>2 DEF Conclude, Replies, Enabled
    <3>3. CASE level # -1 /\ Enabled(level, arg)
      <4>1. LogInternal(s, call, name, arg)
        BY <1>2, <3>3 DEF Conclude
      <4>2. PICK r \in {"no_time", Handled(s, arg)} :
              ret' = [call |-> call, name |-> name, arg |-> arg, result |-> r]
        BY <4>1 DEF LogInternal, Replies
      <4>3. r # "disabled" /\ (r \in {"console", "user"} => r = s.handler)
        BY ReachedIsInPlace
      <4>4. QED
        BY <1>2, <3>3, <4>2, <4>3 DEF Enabled
    <3>4. QED
      BY <3>1, <3>2, <3>3
  <2>2. EffectiveFromMap' /\ UnnamedHandled'
    BY <2>1 DEF EffectiveFromMap, UnnamedHandled
  <2>3. LogFromMap'
    BY <2>1, NearestNext DEF LogFromMap
  <2>4. QED
    BY <1>2, <2>1, <2>2, <2>3
<1>3. QED
  BY <1>1, <1>2 DEF Conclude

\* A call that searches nothing keeps the invariant when it keeps the state consistent.
LEMMA PlainStep ==
  ASSUME Inv, Idle, walk' = walk, Consistent(g'), lost' \in 0 .. MaxLost,
         keys' = lost' + Owned(g'), ret'.call # "effective", ret'.call # "log", UnnamedHandled'
  PROVE  Inv'
<1>1. WalkInv'
  BY DEF Idle, WalkInv
<1>2. EffectiveFromMap' /\ LogFromMap'
  BY DEF EffectiveFromMap, LogFromMap
<1>3. QED
  BY <1>1, <1>2 DEF Inv, Consistent, Owned

\* The purge of rcutils_logging_set_logger_level removes the entry of the logger
\* itself and nothing else: every other entry was set by the user.
LEMMA PurgeFacts ==
  ASSUME NEW h, Consistent(h), h.valid, NEW name \in Name, NEW purged,
         purged = IF name \in DOMAIN h.levels THEN Without(h.levels, Purged(h, name)) ELSE h.levels
  PROVE  /\ h.levels \in LevelMaps /\ IsFiniteSet(DOMAIN h.levels) /\ DOMAIN h.levels \subseteq Name
         /\ purged \in [DOMAIN h.levels \ {name} -> UserLevels]
         /\ \A n \in DOMAIN h.levels \ {name} : purged[n] = h.levels[n]
         /\ KeysFreed(h, name) = IF name \in DOMAIN h.levels THEN 1 ELSE 0
<1>1. h.levels \in LevelMaps /\ IsFiniteSet(DOMAIN h.levels)
  BY DEF Consistent, Globals
<1>2. DOMAIN h.levels \subseteq Name /\ h.levels \in [DOMAIN h.levels -> UserLevels]
  BY <1>1, LevelMapFacts
<1>3. \A k \in DOMAIN h.levels : h.levels[k] % 2 = 1
  BY <1>2, MarkedLevels
<1>4. name \in DOMAIN h.levels => Purged(h, name) = {name}
  BY <1>3, NameFacts DEF Purged
<1>5. KeysFreed(h, name) = IF name \in DOMAIN h.levels THEN 1 ELSE 0
  BY <1>4, FS_Singleton DEF KeysFreed
<1>6. CASE name \in DOMAIN h.levels
  <2>1. purged = [k \in DOMAIN h.levels \ {name} |-> h.levels[k]]
    BY <1>4, <1>6 DEF Without
  <2>2. QED
    BY <1>1, <1>2, <1>5, <2>1
<1>7. CASE name \notin DOMAIN h.levels
  <2>1. purged = h.levels /\ DOMAIN h.levels \ {name} = DOMAIN h.levels
    BY <1>7
  <2>2. QED
    BY <1>1, <1>2, <1>5, <2>1
<1>8. QED
  BY <1>6, <1>7

\* rcutils_logging_set_logger_level with a map to set the level in: what it leaves,
\* for each of its replies.
LEMMA SetLevelOutcomes ==
  ASSUME Inv, NEW name \in Name, NEW level \in Levels, SetLoggerLevel(name, level)
  PROVE  /\ Consistent(g') /\ lost' \in 0 .. MaxLost /\ keys' = lost' + Owned(g')
         /\ ret' = [call |-> "set_logger_level", name |-> name, arg |-> level, result |-> ret'.result]
         /\ g.valid => OnlyThatLogger(name, level, ret'.result)
<1>1. PICK h \in AutoInit :
       \/ /\ ~h.valid
          /\ g' = h /\ UNCHANGED <<keys, lost>>
          /\ Replies("set_logger_level", name, level, "LOGGING_SEVERITY_MAP_INVALID")
       \/ /\ h.valid /\ level \notin SeverityNames
          /\ g' = h /\ UNCHANGED <<keys, lost>>
          /\ Replies("set_logger_level", name, level, "INVALID_ARGUMENT")
       \/ /\ h.valid /\ level \in SeverityNames
          /\ LET purged == IF name \in DOMAIN h.levels THEN Without(h.levels, Purged(h, name))
                           ELSE h.levels
                 default == IF name = <<>> THEN level ELSE h.default
             IN  \/ /\ g' = [h EXCEPT !.levels = With(purged, name, SetByUser(level)),
                                      !.default = default]
                    /\ keys' = keys - KeysFreed(h, name) + 1 /\ UNCHANGED lost
                    /\ Replies("set_logger_level", name, level, "OK")
                 \/ /\ g' = [h EXCEPT !.levels = purged, !.default = default]
                    /\ \/ keys' = keys - KeysFreed(h, name) /\ UNCHANGED lost
                       \/ /\ lost < MaxLost
                          /\ keys' = keys - KeysFreed(h, name) + 1 /\ lost' = lost + 1
                    /\ Replies("set_logger_level", name, level, "ERROR")
  BY DEF SetLoggerLevel
<1>2. /\ Consistent(h) /\ Owned(h) = Owned(g) /\ (g.valid => h = g)
      /\ keys = lost + Owned(h) /\ lost \in 0 .. MaxLost /\ lost \in Nat
  BY AutoInitFacts, LoggingAssumption DEF Inv, Consistent
<1>3. CASE ~h.valid \/ level \notin SeverityNames
  <2>1. /\ g' = h /\ keys' = keys /\ lost' = lost
        /\ \/ ~h.valid
           \/ ret' = [call |-> "set_logger_level", name |-> name, arg |-> level, result |-> "INVALID_ARGUMENT"]
        /\ ret' = [call |-> "set_logger_level", name |-> name, arg |-> level, result |-> ret'.result]
    BY <1>1, <1>3 DEF Replies
  <2>2. g.valid => OnlyThatLogger(name, level, ret'.result)
    BY <1>2, <2>1 DEF OnlyThatLogger
  <2>3. QED
    BY <1>2, <2>1, <2>2
<1>4. CASE h.valid /\ level \in SeverityNames
  <2> DEFINE D == DOMAIN h.levels
             purged == IF name \in DOMAIN h.levels THEN Without(h.levels, Purged(h, name)) ELSE h.levels
             default == IF name = <<>> THEN level ELSE h.default
             added == With(purged, name, SetByUser(level))
  <2>1. \/ /\ g' = [h EXCEPT !.levels = added, !.default = default]
           /\ keys' = keys - KeysFreed(h, name) + 1 /\ lost' = lost
           /\ ret' = [call |-> "set_logger_level", name |-> name, arg |-> level, result |-> "OK"]
        \/ /\ g' = [h EXCEPT !.levels = purged, !.default = default]
           /\ \/ keys' = keys - KeysFreed(h, name) /\ lost' = lost
              \/ /\ lost < MaxLost
                 /\ keys' = keys - KeysFreed(h, name) + 1 /\ lost' = lost + 1
           /\ ret' = [call |-> "set_logger_level", name |-> name, arg |-> level, result |-> "ERROR"]
    BY <1>1, <1>4 DEF Replies
  <2>2. /\ h.levels \in LevelMaps /\ IsFiniteSet(D) /\ D \subseteq Name
        /\ purged \in [D \ {name} -> UserLevels]
        /\ \A n \in D \ {name} : purged[n] = h.levels[n]
        /\ KeysFreed(h, name) = IF name \in D THEN 1 ELSE 0
    BY SMTT(30), <1>2, <1>4, PurgeFacts
  <2>3. default \in Int /\ h \in Globals /\ h.initialized = TRUE /\ h.valid = TRUE
    BY <1>2, <1>4, LoggingAssumption DEF Consistent, Globals
  <2> HIDE DEF purged, default
  <2>4. /\ added \in [D \union {name} -> UserLevels] /\ added[name] = SetByUser(level)
        /\ \A n \in D \ {name} : added[n] = h.levels[n]
    BY <1>4, <2>2, MarkedLevels DEF With
  <2> HIDE DEF added
  <2>5. added \in LevelMaps /\ purged \in LevelMaps
    BY <2>2, <2>4, LevelMapFacts
  <2>6. /\ IsFiniteSet(D \union {name}) /\ IsFiniteSet(D \ {name}) /\ Cardinality(D) \in Nat
        /\ Cardinality(D \union {name}) = IF name \in D THEN Cardinality(D) ELSE Cardinality(D) + 1
        /\ Cardinality(D \ {name}) = IF name \in D THEN Cardinality(D) - 1 ELSE Cardinality(D)
    BY <2>2, FS_AddElement, FS_RemoveElement, FS_CardinalityType
  <2>7. keys = lost + Cardinality(D)
    BY <1>2, <2>2, LevelMapFacts DEF Owned
  <2>8. CASE /\ g' = [h EXCEPT !.levels = added, !.default = default]
             /\ keys' = keys - KeysFreed(h, name) + 1 /\ lost' = lost
             /\ ret' = [call |-> "set_logger_level", name |-> name, arg |-> level, result |-> "OK"]
    <3>1. g' \in Globals
      BY <2>3, <2>5, <2>8, GlobalsExcept
    <3>2. /\ g'.levels = added /\ g'.initialized = TRUE /\ g'.valid = TRUE
          /\ added # NULL /\ DOMAIN added = D \union {name}
      BY <2>3, <2>4, <2>5, <2>8, LevelMapFacts DEF Globals
    <3>3. Consistent(g') /\ Owned(g') = Cardinality(D \union {name})
      BY <2>6, <3>1, <3>2 DEF Consistent, Owned
    <3>4. keys' = lost' + Owned(g')
      BY <1>2, <2>2, <2>6, <2>7, <2>8, <3>3
    <3>5. g.valid => OnlyThatLogger(name, level, ret'.result)
      BY <1>2, <1>4, <2>4, <2>8, <3>2, MarkedLevels DEF OnlyThatLogger
    <3>6. QED
      BY <1>2, <2>8, <3>3, <3>4, <3>5
  <2>9. CASE /\ g' = [h EXCEPT !.levels = purged, !.default = default]
             /\ \/ keys' = keys - KeysFreed(h, name) /\ lost' = lost
                \/ /\ lost < MaxLost
                   /\ keys' = keys - KeysFreed(h, name) + 1 /\ lost' = lost + 1
             /\ ret' = [call |-> "set_logger_level", name |-> name, arg |-> level, result |-> "ERROR"]
    <3>1. g' \in Globals
      BY <2>3, <2>5, <2>9, GlobalsExcept
    <3>2. /\ g'.levels = purged /\ g'.initialized = TRUE /\ g'.valid = TRUE
          /\ purged # NULL /\ DOMAIN purged = D \ {name}
      BY <2>2, <2>3, <2>5, <2>9, LevelMapFacts DEF Globals
    <3>3. Consistent(g') /\ Owned(g') = Cardinality(D \ {name})
      BY <2>6, <3>1, <3>2 DEF Consistent, Owned
    <3>4. keys' = lost' + Owned(g') /\ lost' \in 0 .. MaxLost
      BY <1>2, <2>2, <2>6, <2>7, <2>9, <3>3, LoggingAssumption
    <3>5. g.valid => OnlyThatLogger(name, level, ret'.result)
      BY <1>2, <2>2, <2>9, <3>2 DEF OnlyThatLogger
    <3>6. QED
      BY <2>9, <3>3, <3>4, <3>5
  <2>10. QED
    BY <2>1, <2>8, <2>9
<1>5. QED
  BY <1>3, <1>4

-----------------------------------------------------------------------------
\* The calls that only initialize, set a variable, or log without a search.
LEMMA PlainCalls ==
  ASSUME Inv,
         \/ Initialize \/ Shutdown
         \/ \E handler \in {"console", "user", NULL} : SetOutputHandler(handler)
         \/ \E level \in Levels : SetDefaultLoggerLevel(level)
         \/ \E name \in Name : GetLoggerLevel(name)
         \/ \E severity \in Severities : LogUnnamed(severity)
         \/ \E severity \in Severities : LogUnconditionally(severity)
  PROVE  Inv' /\ ret'.call \notin {"effective", "log", "set_logger_level"}
<1>1. Consistent(g) /\ keys = lost + Owned(g) /\ lost \in 0 .. MaxLost
  BY DEF Inv
<1>2. ASSUME Idle, walk' = walk, UNCHANGED <<keys, lost>>, Consistent(g'), Owned(g') = Owned(g),
             ret'.call \notin {"effective", "log", "set_logger_level", "log_unnamed"}
      PROVE  Inv'
  <2>1. UnnamedHandled'
    BY <1>2 DEF UnnamedHandled
  <2>2. QED
    BY <1>1, <1>2, <2>1, PlainStep
<1>3. CASE Initialize
  <2>1. PICK h \in AutoInit :
          /\ g' = h
          /\ Replies("initialize", <<>>, 0, IF h.initialized THEN "OK" ELSE "ERROR")
    BY <1>3 DEF Initialize
  <2>2. ret'.call = "initialize"
    BY <2>1 DEF Replies
  <2>3. QED
    BY <1>1, <1>2, <1>3, <2>1, <2>2, AutoInitFacts DEF Initialize
<1>4. CASE Shutdown
  <2>1. ret'.call = "shutdown" /\ Idle /\ walk' = walk /\ lost' = lost
    BY <1>4 DEF Shutdown, Replies
  <2>2. CASE g.initialized
    <3>1. g' = ShutDown(g) /\ g \in Globals /\ g.valid /\ g.levels # NULL
      BY <1>1, <1>4, <2>2 DEF Shutdown, Consistent
    <3>2. g' \in Globals
      BY <3>1, GlobalsExcept DEF ShutDown
    <3>3. g'.initialized = FALSE /\ g'.valid = FALSE /\ g'.levels = NULL
      BY <3>1 DEF ShutDown, Globals
    <3>4. Consistent(g') /\ Owned(g') = 0
      BY <3>2, <3>3 DEF Consistent, Owned
    <3>5. keys' = keys - Cardinality(DOMAIN g.levels) /\ Owned(g) = Cardinality(DOMAIN g.levels)
      BY <1>4, <2>2, <3>1 DEF Shutdown, Owned
    <3>6. Cardinality(DOMAIN g.levels) \in Nat
      BY <1>1, <3>1, FS_CardinalityType DEF Consistent
    <3>7. keys' = lost' + Owned(g')
      BY <1>1, <2>1, <3>4, <3>5, <3>6, LoggingAssumption
    <3>8. UnnamedHandled'
      BY <2>1 DEF UnnamedHandled
    <3>9. QED
      BY <1>1, <2>1, <3>4, <3>7, <3>8, PlainStep
  <2>3. CASE ~g.initialized
    <3>1. g' = g /\ keys' = keys
      BY <1>4, <2>3 DEF Shutdown
    <3>2. QED
      BY <1>1, <1>2, <2>1, <3>1
  <2>4. QED
    BY <2>2, <2>3
<1>5. ASSUME NEW handler \in {"console", "user", NULL}, SetOutputHandler(handler)
      PROVE  Inv' /\ ret'.call \notin {"effective", "log", "set_logger_level"}
  <2>1. PICK h \in AutoInit : g' = [h EXCEPT !.handler = handler]
    BY <1>5 DEF SetOutputHandler
  <2>2. Consistent(h) /\ Owned(h) = Owned(g) /\ h \in Globals
    BY <1>1, AutoInitFacts DEF Consistent
  <2>3. g' \in Globals
    BY <2>1, <2>2, GlobalsExcept
  <2>4. g'.initialized = h.initialized /\ g'.valid = h.valid /\ g'.levels = h.levels
    BY <2>1, <2>2 DEF Globals
  <2>5. Consistent(g') /\ Owned(g') = Owned(g)
    BY <2>2, <2>3, <2>4 DEF Consistent, Owned
  <2>6. ret'.call = "set_output_handler" /\ Idle /\ walk' = walk /\ UNCHANGED <<keys, lost>>
    BY <1>5 DEF SetOutputHandler, Replies
  <2>7. QED
    BY <1>2, <2>5, <2>6
<1>6. ASSUME NEW level \in Levels, SetDefaultLoggerLevel(level)
      PROVE  Inv' /\ ret'.call \notin {"effective", "log", "set_logger_level"}
  <2> DEFINE default == IF level = UNSET THEN INFO ELSE level
  <2>1. PICK h \in AutoInit : g' = [h EXCEPT !.default = default]
    BY <1>6 DEF SetDefaultLoggerLevel
  <2>2. Consistent(h) /\ Owned(h) = Owned(g) /\ h \in Globals
    BY <1>1, AutoInitFacts DEF Consistent
  <2>3. default \in Int
    BY LoggingAssumption DEF INFO
  <2> HIDE DEF default
  <2>4. g' \in Globals
    BY <2>1, <2>2, <2>3, GlobalsExcept
  <2>5. g'.initialized = h.initialized /\ g'.valid = h.valid /\ g'.levels = h.levels
    BY <2>1, <2>2 DEF Globals
  <2>6. Consistent(g') /\ Owned(g') = Owned(g)
    BY <2>2, <2>4, <2>5 DEF Consistent, Owned
  <2>7. ret'.call = "set_default_logger_level" /\ Idle /\ walk' = walk /\ UNCHANGED <<keys, lost>>
    BY <1>6 DEF SetDefaultLoggerLevel, Replies
  <2>8. QED
    BY <1>2, <2>6, <2>7
<1>7. ASSUME NEW name \in Name, GetLoggerLevel(name)
      PROVE  Inv' /\ ret'.call \notin {"effective", "log", "set_logger_level"}
  <2>1. g' \in AutoInit /\ ret'.call = "get_logger_level" /\ Idle /\ walk' = walk /\ UNCHANGED <<keys, lost>>
    BY <1>7 DEF GetLoggerLevel, Replies
  <2>2. PICK h \in AutoInit : g' = h
    BY <2>1
  <2>3. QED
    BY <1>1, <1>2, <2>1, <2>2, AutoInitFacts
<1>8. ASSUME NEW severity \in Severities, LogUnnamed(severity)
      PROVE  Inv' /\ ret'.call \notin {"effective", "log", "set_logger_level"}
  <2>1. PICK h \in AutoInit :
          /\ g' = h
          /\ \/ ~Enabled(h.default, severity) /\ Replies("log_unnamed", <<>>, severity, "disabled")
             \/ Enabled(h.default, severity) /\ LogInternal(h, "log_unnamed", <<>>, severity)
    BY <1>8 DEF LogUnnamed
  <2>2. Idle /\ walk' = walk /\ UNCHANGED <<keys, lost>>
    BY <1>8 DEF LogUnnamed
  <2>3. /\ Consistent(h) /\ Owned(h) = Owned(g) /\ h \in Globals
        /\ ~h.initialized => h.handler = "console"
    BY <1>1, AutoInitFacts DEF Consistent
  <2>4. UnnamedHandled' /\ ret'.call = "log_unnamed"
    <3>1. CASE ~Enabled(h.default, severity) /\ Replies("log_unnamed", <<>>, severity, "disabled")
      BY <2>1, <3>1 DEF UnnamedHandled, Enabled, Replies
    <3>2. CASE Enabled(h.default, severity) /\ LogInternal(h, "log_unnamed", <<>>, severity)
      <4>1. PICK r \in {"no_time", Handled(h, severity)} :
              ret' = [call |-> "log_unnamed", name |-> <<>>, arg |-> severity, result |-> r]
        BY <3>2 DEF LogInternal, Replies
      <4>2. /\ r # "disabled" /\ (r \in {"console", "user"} => r = h.handler)
            /\ (r \in {"console", "user"} /\ h.handler = "console") => h.initialized
        BY <2>3, ReachedIsInPlace
      <4>3. r \in {"console", "user"} => h.initialized
        BY <2>3, <4>2
      <4>4. QED
        BY <2>1, <3>2, <4>1, <4>2, <4>3 DEF UnnamedHandled, Enabled
    <3>3. QED
      BY <2>1, <3>1, <3>2
  <2>5. QED
    BY <1>1, <2>1, <2>2, <2>3, <2>4, PlainStep
<1>9. ASSUME NEW severity \in Severities, LogUnconditionally(severity)
      PROVE  Inv' /\ ret'.call \notin {"effective", "log", "set_logger_level"}
  <2>1. g' = g /\ Idle /\ walk' = walk /\ UNCHANGED <<keys, lost>>
    BY <1>9 DEF LogUnconditionally
  <2>2. ret'.call = "log_internal"
    BY <1>9 DEF LogUnconditionally, LogInternal, Replies
  <2>3. QED
    BY <1>1, <1>2, <2>1, <2>2
<1>10. QED
  BY <1>3, <1>4, <1>5, <1>6, <1>7, <1>8, <1>9

\* rcutils_logging_get_logger_effective_level, at the logger itself.
LEMMA BeginStep ==
  ASSUME Inv, NEW call \in {"effective", "log"}, NEW name \in Name, NEW arg, Begin(call, name, arg)
  PROVE  Inv' /\ (ret' = ret \/ ret'.call = call)
<1>1. PICK h \in AutoInit :
       /\ g' = h
       /\ \/ /\ h.levels = NULL
             /\ Conclude(h, call, name, arg, -1) /\ UNCHANGED walk
          \/ /\ h.levels # NULL /\ DOMAIN h.levels = {}
             /\ Conclude(h, call, name, arg, h.default) /\ UNCHANGED walk
          \/ /\ h.levels # NULL /\ DOMAIN h.levels # {}
             /\ SeverityLevel(h, name) # UNSET
             /\ Conclude(h, call, name, arg, SeverityLevel(h, name)) /\ UNCHANGED walk
          \/ /\ h.levels # NULL /\ DOMAIN h.levels # {}
             /\ SeverityLevel(h, name) = UNSET
             /\ \/ /\ walk' = [call |-> call, name |-> name, arg |-> arg, length |-> Len(name)]
                   /\ UNCHANGED ret
                \/ Conclude(h, call, name, arg, -1) /\ UNCHANGED walk
  BY DEF Begin
<1>2. Idle /\ UNCHANGED <<keys, lost>>
  BY DEF Begin
<1>3. Consistent(h) /\ Owned(h) = Owned(g) /\ h \in Globals
  BY AutoInitFacts DEF Inv, Consistent
<1>4. Consistent(g') /\ keys' = lost' + Owned(g') /\ lost' \in 0 .. MaxLost
  BY <1>1, <1>2, <1>3 DEF Inv
<1>5. CASE \E level : /\ Conclude(h, call, name, arg, level) /\ UNCHANGED walk
                      /\ level = -1 \/ (level = NearestIn(h, name) /\ h.initialized)
  <2>1. WalkInv'
    BY <1>2, <1>5 DEF Idle, WalkInv
  <2>2. EffectiveFromMap' /\ LogFromMap' /\ UnnamedHandled' /\ ret'.call = call
    BY <1>1, <1>3, <1>5, ConcludeReplies
  <2>3. QED
    BY <1>4, <2>1, <2>2 DEF Inv, Consistent, Owned
<1>6. CASE /\ h.levels # NULL /\ DOMAIN h.levels # {} /\ SeverityLevel(h, name) = UNSET
           /\ walk' = [call |-> call, name |-> name, arg |-> arg, length |-> Len(name)]
           /\ UNCHANGED ret
  <2>1. h = g
    BY <1>6, AutoInitFacts DEF Inv
  <2>2. g' = g /\ ret' = ret
    BY <1>1, <1>6, <2>1
  <2>3. EffectiveFromMap' /\ LogFromMap' /\ UnnamedHandled'
    BY <2>2, NearestNext DEF Inv, EffectiveFromMap, LogFromMap, UnnamedHandled
  <2>4. Len(name) \in Nat
    BY NameFacts
  <2>5. \A a \in SpecifiedIn(g, name) : Len(a) < Len(name)
    BY <1>3, <1>6, <2>1, OwnLevelIsNearest
  <2>6. g.initialized
    BY <1>3, <1>6, <2>1 DEF Consistent
  <2>7. /\ walk'.call = call /\ walk'.name = name /\ walk'.arg = arg /\ walk'.length = Len(name)
        /\ walk' = [call |-> walk'.call, name |-> walk'.name, arg |-> walk'.arg, length |-> walk'.length]
    BY <1>6
  <2>8. WalkInv'
    BY <2>2, <2>4, <2>5, <2>6, <2>7 DEF WalkInv
  <2>9. QED
    BY <1>4, <2>2, <2>3, <2>8 DEF Inv, Consistent, Owned
<1>7. h.levels # NULL => h.initialized
  BY <1>3 DEF Consistent
<1>8. QED
  BY <1>1, <1>3, <1>5, <1>6, <1>7, OwnLevelIsNearest

\* The loop over the ancestors.
LEMMA NextAncestorStep ==
  ASSUME Inv, NextAncestor
  PROVE  Inv' /\ (ret' = ret \/ ret'.call \in {"effective", "log"})
<1> DEFINE index == FindLast(walk.name, walk.length)
           severity == SeverityLevel(g, SubSeq(walk.name, 1, index - 1))
<1>1. /\ walk # NoWalk /\ g' = g /\ keys' = keys /\ lost' = lost
  BY DEF NextAncestor, Idle
<1>2. /\ g.initialized /\ walk.call \in {"effective", "log"} /\ walk.name \in Name
      /\ walk = [call |-> walk.call, name |-> walk.name, arg |-> walk.arg, length |-> walk.length]
      /\ walk.length \in 0 .. Len(walk.name)
      /\ \A a \in SpecifiedIn(g, walk.name) : Len(a) < walk.length
  BY <1>1 DEF Inv, WalkInv
<1>3. g \in Globals /\ g.levels # NULL
  BY <1>2 DEF Inv, Consistent
<1>4. /\ index \in 0 .. walk.length
      /\ index = 0 => NearestIn(g, walk.name) = g.default
      /\ (index # 0 /\ severity # UNSET) => NearestIn(g, walk.name) = severity
      /\ (index # 0 /\ severity = UNSET) => \A a \in SpecifiedIn(g, walk.name) : Len(a) < index - 1
  BY <1>2, <1>3, NextAncestorIsNext
<1>5. \/ /\ index # 0 /\ severity = UNSET
         /\ walk' = [walk EXCEPT !.length = index - 1] /\ ret' = ret
      \/ /\ ~(index # 0 /\ severity = UNSET)
         /\ Conclude(g, walk.call, walk.name, walk.arg, IF index = 0 THEN g.default ELSE severity)
         /\ walk' = NoWalk
  BY DEF NextAncestor, Shortened
<1> HIDE DEF index, severity
<1>6. Consistent(g') /\ keys' = lost' + Owned(g') /\ lost' \in 0 .. MaxLost
  BY <1>1 DEF Inv
<1>7. CASE /\ index # 0 /\ severity = UNSET
           /\ walk' = [walk EXCEPT !.length = index - 1] /\ ret' = ret
  <2>1. EffectiveFromMap' /\ LogFromMap' /\ UnnamedHandled'
    BY <1>1, <1>7, NearestNext DEF Inv, EffectiveFromMap, LogFromMap, UnnamedHandled
  <2>2. walk' = [call |-> walk.call, name |-> walk.name, arg |-> walk.arg, length |-> index - 1]
    BY <1>2, <1>7
  <2>3. index - 1 \in 0 .. Len(walk.name)
    BY <1>2, <1>4, <1>7, NameFacts
  <2>4. WalkInv'
    BY <1>1, <1>2, <1>4, <1>7, <2>2, <2>3 DEF WalkInv
  <2>5. QED
    BY <1>6, <1>7, <2>1, <2>4 DEF Inv, Consistent, Owned
<1>8. CASE /\ ~(index # 0 /\ severity = UNSET)
           /\ Conclude(g, walk.call, walk.name, walk.arg, IF index = 0 THEN g.default ELSE severity)
           /\ walk' = NoWalk
  <2>1. (IF index = 0 THEN g.default ELSE severity) = NearestIn(g, walk.name)
    BY <1>4, <1>8
  <2>2. /\ EffectiveFromMap' /\ LogFromMap' /\ UnnamedHandled'
        /\ ret'.call \in {"effective", "log"}
    BY <1>1, <1>2, <1>3, <1>8, <2>1, ConcludeReplies
  <2>3. WalkInv'
    BY <1>8 DEF WalkInv
  <2>4. QED
    BY <1>6, <2>2, <2>3 DEF Inv, Consistent, Owned
<1>9. QED
  BY <1>5, <1>7, <1>8

-----------------------------------------------------------------------------
LEMMA InitInv == Init => Inv
<1> SUFFICES ASSUME Init
             PROVE  Inv
  OBVIOUS
<1>1. /\ g = [initialized |-> FALSE, valid |-> FALSE, default |-> 0,
              handler |-> NULL, levels |-> NULL]
      /\ keys = 0 /\ lost = 0 /\ walk = NoWalk /\ ret.call = "none"
  BY DEF Init
<1>2. g \in Globals
  BY <1>1 DEF Globals
<1>3. Consistent(g) /\ Owned(g) = 0
  BY <1>1, <1>2 DEF Consistent, Owned
<1>4. WalkInv /\ EffectiveFromMap /\ LogFromMap /\ UnnamedHandled
  BY <1>1 DEF WalkInv, EffectiveFromMap, LogFromMap, UnnamedHandled
<1>5. QED
  BY <1>1, <1>3, <1>4, LoggingAssumption DEF Inv

LEMMA NextInv == Inv /\ [Next]_vars => Inv'
<1> SUFFICES ASSUME Inv, [Next]_vars
             PROVE  Inv'
  OBVIOUS
<1>1. CASE UNCHANGED vars
  <2>1. g' = g /\ keys' = keys /\ lost' = lost /\ walk' = walk /\ ret' = ret
    BY <1>1 DEF vars
  <2>3. EffectiveFromMap' /\ LogFromMap' /\ UnnamedHandled'
    BY <2>1, NearestNext DEF Inv, EffectiveFromMap, LogFromMap, UnnamedHandled
  <2>4. WalkInv'
    BY <2>1 DEF Inv, WalkInv
  <2>5. QED
    BY <2>1, <2>3, <2>4 DEF Inv, Consistent, Owned
<1>2. CASE \/ Initialize \/ Shutdown
           \/ \E handler \in {"console", "user", NULL} : SetOutputHandler(handler)
           \/ \E level \in Levels : SetDefaultLoggerLevel(level)
           \/ \E name \in Name : GetLoggerLevel(name)
           \/ \E severity \in Severities : LogUnnamed(severity)
           \/ \E severity \in Severities : LogUnconditionally(severity)
  BY <1>2, PlainCalls
<1>3. ASSUME NEW name \in Name, NEW level \in Levels, SetLoggerLevel(name, level)
      PROVE  Inv'
  <2>1. Idle /\ walk' = walk
    BY <1>3 DEF SetLoggerLevel
  <2>2. /\ Consistent(g') /\ lost' \in 0 .. MaxLost /\ keys' = lost' + Owned(g')
        /\ ret'.call = "set_logger_level"
    BY <1>3, SetLevelOutcomes
  <2>3. UnnamedHandled'
    BY <2>2 DEF UnnamedHandled
  <2>4. QED
    BY <2>1, <2>2, <2>3, PlainStep
<1>4. ASSUME NEW name \in Name, GetEffectiveLevel(name)
      PROVE  Inv'
  BY <1>4, BeginStep DEF GetEffectiveLevel
<1>5. ASSUME NEW name \in Name, NEW severity \in Severities, Log(name, severity)
      PROVE  Inv'
  BY <1>5, BeginStep DEF Log
<1>6. CASE NextAncestor
  BY <1>6, NextAncestorStep
<1>7. QED
  BY <1>1, <1>2, <1>3, <1>4, <1>5, <1>6 DEF Next

LEMMA AlwaysInv == Spec => []Inv
BY InitInv, NextInv, PTL DEF Spec

(* logging.c, whatever calls are made in whatever order and wherever they   *)
(* fail: the map of levels is valid when it is there, and then logging is   *)
(* initialized; it holds valid levels marked as the user's, and every name  *)
(* that was copied is owned by an entry or was lost by the call that        *)
(* reported the failure.                                                    *)
THEOREM StateConsistent == Spec => []StateIsConsistent
BY AlwaysInv, InvIsConsistent, PTL

\* Among the ancestors with a level, there is a longest.
LEMMA LongestSpecified ==
  ASSUME g \in Globals, g.levels # NULL, NEW name \in Name, Specified(name) # {}
  PROVE  \E a \in Specified(name) : \A b \in Specified(name) : Len(b) <= Len(a)
<1>1. \A a \in Specified(name) : a \in SpecifiedIn(g, name)
  BY DEF Specified, SpecifiedIn, IsSet
<1>2. \A a \in Specified(name) : Len(a) \in 0 .. Len(name)
  BY <1>1, AncestorFacts, NameFacts
<1> DEFINE S == {Len(a) : a \in Specified(name)}
<1>3. S \subseteq 0 .. Len(name) /\ S # {} /\ Len(name) \in Nat
  <2>1. PICK x : x \in Specified(name)
    OBVIOUS
  <2>2. Len(x) \in S
    BY <2>1
  <2>3. \A i \in S : i \in 0 .. Len(name)
    BY <1>2
  <2>4. QED
    BY <2>2, <2>3, NameFacts
<1>4. \E i \in S : \A j \in S : i >= j
  BY <1>3, GreatestOf
<1>5. PICK a \in Specified(name) : \A j \in S : Len(a) >= j
  BY <1>4
<1>6. ASSUME NEW b \in Specified(name) PROVE Len(b) <= Len(a)
  <2>1. Len(b) \in S /\ Len(a) \in Nat /\ Len(b) \in Nat
    BY <1>2
  <2>2. QED
    BY <1>5, <2>1
<1>7. QED
  BY <1>6

\* What the map has for a name is what the header says, unless the empty name is the
\* closest that has a level and its entry is not the default level.
LEMMA MapIsNearest ==
  ASSUME g \in Globals, g.levels # NULL, NEW name \in Name
  PROVE  StaleFor(name) \/ NearestIn(g, name) = NearestLevel(name)
<1>1. /\ \A a : a \in SpecifiedIn(g, name) /\ a # <<>> => a \in Specified(name)
      /\ Specified(name) \subseteq SpecifiedIn(g, name)
  BY DEF Specified, SpecifiedIn, IsSet
<1>2. CASE Specified(name) = {} /\ <<>> \in SpecifiedIn(g, name)
  <2>1. \A b \in SpecifiedIn(g, name) : b = <<>>
    BY <1>1, <1>2
  <2>2. \A b \in SpecifiedIn(g, name) : Len(b) <= Len(<<>>)
    BY <2>1
  <2>3. NearestIn(g, name) = Unmarked(g.levels[<<>>])
    BY <1>2, <2>2, LongestIsNearest
  <2>4. SelfOrAncestor(<<>>, name) /\ IsSet(<<>>)
    BY <1>2 DEF SpecifiedIn, IsSet
  <2>5. NearestLevel(name) = g.default
    BY <1>2 DEF NearestLevel
  <2>6. QED
    BY <1>2, <2>3, <2>4, <2>5 DEF StaleFor
<1>3. CASE Specified(name) = {} /\ <<>> \notin SpecifiedIn(g, name)
  <2>1. SpecifiedIn(g, name) = {}
    BY <1>1, <1>3
  <2>2. QED
    BY <1>3, <2>1 DEF NearestIn, NearestLevel
<1>4. CASE Specified(name) # {}
  <2> DEFINE c == CHOOSE a \in Specified(name) : \A b \in Specified(name) : Len(b) <= Len(a)
  <2>1. c \in Specified(name) /\ \A b \in Specified(name) : Len(b) <= Len(c)
    BY <1>4, LongestSpecified
  <2>2. NearestLevel(name) = Unmarked(g.levels[c])
    BY <1>4 DEF NearestLevel
  <2> HIDE DEF c
  <2>3. c \in SpecifiedIn(g, name) /\ Len(c) \in Nat /\ Len(<<>>) = 0
    BY <1>1, <2>1, AncestorFacts
  <2>4. \A b \in SpecifiedIn(g, name) : Len(b) <= Len(c)
    BY <1>1, <2>1, <2>3
  <2>5. QED
    BY <2>2, <2>3, <2>4, LongestIsNearest
<1>5. QED
  BY <1>2, <1>3, <1>4

(* The loop of rcutils_logging_get_logger_effective_level returns the level *)
(* of the closest ancestor that has one, for every set of names and levels, *)
(* but for a copy of the default level that is out of date.                 *)
THEOREM NearestLevelFound == Spec => []EffectiveLevelIsNearest
<1>1. ASSUME Inv PROVE EffectiveLevelIsNearest
  <2> SUFFICES ASSUME ret.call = "effective", ret.result # -1, ~StaleFor(ret.name)
               PROVE  ret.result = NearestLevel(ret.name)
    BY DEF EffectiveLevelIsNearest
  <2>1. /\ g.initialized /\ ret.name \in Name /\ ret.result = NearestIn(g, ret.name)
        /\ g \in Globals /\ g.levels # NULL
    BY <1>1 DEF Inv, EffectiveFromMap, Consistent
  <2>2. QED
    BY <2>1, MapIsNearest
<1>2. QED
  BY <1>1, AlwaysInv, PTL

(* A message that rcutils_log hands to a handler was enabled, logging is    *)
(* initialized and the handler is the one in place, a failed initialization *)
(* on the way included; a message it drops as disabled was not enabled.     *)
THEOREM HandledEnabled == Spec => []HandledIsEnabled
<1>1. ASSUME Inv PROVE HandledIsEnabled
  <2>1. CASE ret.call = "log" /\ ret.result \in {"console", "user", "disabled"}
    <3>1. g.initialized /\ ret.name \in Name /\ g \in Globals /\ g.levels # NULL
      BY <1>1, <2>1 DEF Inv, LogFromMap, Consistent
    <3>2. StaleFor(ret.name) \/ NearestIn(g, ret.name) = NearestLevel(ret.name)
      BY <3>1, MapIsNearest
    <3>3. /\ ret.result \in {"console", "user"} =>
               ret.result = g.handler /\ ret.arg >= NearestIn(g, ret.name)
          /\ ret.result = "disabled" => ~(ret.arg >= NearestIn(g, ret.name))
      BY <1>1, <2>1 DEF Inv, LogFromMap
    <3>4. QED
      BY <2>1, <3>1, <3>2, <3>3 DEF HandledIsEnabled
  <2>2. CASE ret.call = "log_unnamed"
    BY <1>1, <2>2 DEF Inv, UnnamedHandled, HandledIsEnabled
  <2>3. QED
    BY <2>1, <2>2 DEF HandledIsEnabled
<1>2. QED
  BY <1>1, AlwaysInv, PTL

(* rcutils_logging_set_logger_level changes the level of that logger alone, *)
(* in the steps where it succeeds and in those where it fails.              *)
THEOREM SettingLocal == Spec => SettingIsLocal
<1>1. ASSUME Inv, [Next]_vars
      PROVE  [(g.valid /\ ret' # ret /\ ret'.call = "set_logger_level")
               => OnlyThatLogger(ret'.name, ret'.arg, ret'.result)]_vars
  <2> SUFFICES ASSUME g.valid, ret' # ret, ret'.call = "set_logger_level"
               PROVE  OnlyThatLogger(ret'.name, ret'.arg, ret'.result)
    OBVIOUS
  <2>1. Next
    BY <1>1 DEF vars
  <2>2. ~\/ Initialize \/ Shutdown
         \/ \E handler \in {"console", "user", NULL} : SetOutputHandler(handler)
         \/ \E level \in Levels : SetDefaultLoggerLevel(level)
         \/ \E name \in Name : GetLoggerLevel(name)
         \/ \E severity \in Severities : LogUnnamed(severity)
         \/ \E severity \in Severities : LogUnconditionally(severity)
    BY <1>1, PlainCalls
  <2>3. ~\E name \in Name : GetEffectiveLevel(name)
    BY <1>1, BeginStep DEF GetEffectiveLevel
  <2>4. ~\E name \in Name, severity \in Severities : Log(name, severity)
    BY <1>1, BeginStep DEF Log
  <2>5. ~NextAncestor
    BY <1>1, NextAncestorStep
  <2>6. \E name \in Name, level \in Levels : SetLoggerLevel(name, level)
    BY <2>1, <2>2, <2>3, <2>4, <2>5 DEF Next
  <2>7. PICK name \in Name, level \in Levels : SetLoggerLevel(name, level)
    BY <2>6
  <2>8. /\ ret' = [call |-> "set_logger_level", name |-> name, arg |-> level, result |-> ret'.result]
        /\ OnlyThatLogger(name, level, ret'.result)
    BY <1>1, <2>7, SetLevelOutcomes
  <2>9. ret'.name = name /\ ret'.arg = level
    BY <2>8
  <2>10. QED
    BY <2>8, <2>9
<1>2. QED
  BY <1>1, AlwaysInv, PTL DEF Spec, SettingIsLocal
=============================================================================
