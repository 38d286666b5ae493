------------------------- MODULE Precedence_proofs -------------------------
(***************************************************************************)
(* The theorems about precedence, for any finite catalogue, any severities *)
(* and scopes, any configuration and any order of the ids.                 *)
(***************************************************************************)
EXTENDS Aggregation, FiniteSetTheorems, WellFoundedInduction, TLAPS

----------------------------------------------------------------------------
\* Orders on finite sets

\* A transitive and irreflexive relation has a minimal element in every finite
\* set: a smallest counterexample would leave a smaller one below any of its
\* elements.
LEMMA MinimalElement ==
    ASSUME NEW S, IsFiniteSet(S), S # {}, NEW R,
           \A x \in S : <<x, x>> \notin R,
           \A x, y, z \in S : <<x, y>> \in R /\ <<y, z>> \in R => <<x, z>> \in R
    PROVE  \E x \in S : \A y \in S : <<y, x>> \notin R
<1> DEFINE Lacks(U) == U # {} /\ \A x \in U : \E y \in U : <<y, x>> \in R
           Bad == {U \in SUBSET S : Lacks(U)}
<1> SUFFICES ASSUME Lacks(S) PROVE FALSE
  OBVIOUS
<1>1. IsWellFoundedOn(StrictSubsetOrdering(S), SUBSET S)
  <2>1. FiniteSubsetsOf(S) = SUBSET S
    BY FS_FiniteSubsetsOfFinite, Zenon
  <2>2. IsWellFoundedOn(StrictSubsetOrdering(S), FiniteSubsetsOf(S))
    BY FS_StrictSubsetOrderingWellFounded, Zenon
  <2>3. QED
    BY <2>1, <2>2, Zenon
<1>2. Bad # {} /\ Bad \subseteq SUBSET S
  OBVIOUS
<1> HIDE DEF Bad
<1>3. \E U \in Bad : \A V \in Bad : ~(<<V, U>> \in StrictSubsetOrdering(S))
  BY <1>1, <1>2, WFMin, Zenon
<1>4. PICK U \in Bad : \A V \in Bad : ~(V \subseteq U /\ V # U)
  BY <1>2, <1>3 DEF StrictSubsetOrdering
<1>5. U \subseteq S /\ Lacks(U)
  BY DEF Bad
<1>6. PICK x \in U : TRUE
  BY <1>5
<1> DEFINE V == {y \in U : <<y, x>> \in R}
<1>7. V # {} /\ V \subseteq U /\ x \notin V
  BY <1>5, <1>6
<1>8. \A z \in V : \E y \in V : <<y, z>> \in R
  BY <1>5, <1>6
<1>9. V \in Bad
  BY <1>5, <1>7, <1>8 DEF Bad
<1>10. QED
  BY <1>4, <1>6, <1>7, <1>9

\* Of the positions of a list some are last.
LEMMA LastPosition ==
    ASSUME NEW n \in Nat, NEW S \in SUBSET (1 .. n), S # {}
    PROVE  \E i \in S : \A j \in S : j <= i
<1> DEFINE R == {p \in S \X S : p[1] > p[2]}
<1>1. IsFiniteSet(S)
  <2>1. IsFiniteSet(1 .. n)
    BY FS_Interval
  <2>2. QED
    BY <2>1, FS_Subset, Zenon
<1>2. \A x \in S : <<x, x>> \notin R
  OBVIOUS
<1>3. \A x, y, z \in S : <<x, y>> \in R /\ <<y, z>> \in R => <<x, z>> \in R
  OBVIOUS
<1>4. \A x, y \in S : <<y, x>> \notin R => y <= x
  OBVIOUS
<1> HIDE DEF R
<1>5. PICK x \in S : \A y \in S : <<y, x>> \notin R
  BY <1>1, <1>2, <1>3, MinimalElement
<1>6. QED
  BY <1>4, <1>5

----------------------------------------------------------------------------
\* The catalogue

Entry == [name : STRING, path : STRING, precedence : Int]
Typed == /\ catalogue \in [Slots -> Declarations \cup {None}]
         /\ \E n \in Nat : config.sources \in [1 .. n -> Entry]

LEMMA Typing == Spec => []Typed
<1>1. Init => Typed
  <2> SUFFICES ASSUME Init PROVE Typed
    OBVIOUS
  <2>1. config.sources \in Seq(Entry)
    BY ConfigsAssumption DEF Init, Entry
  <2>2. config.sources \in [1 .. Len(config.sources) -> Entry] /\ Len(config.sources) \in Nat
    BY <2>1
  <2>3. QED
    BY <2>2 DEF Init, Typed
<1>2. Typed /\ [Next]_vars => Typed'
  <2> SUFFICES ASSUME Typed, [Next]_vars PROVE Typed'
    OBVIOUS
  <2>1. CASE DeclareSome
    BY <2>1 DEF DeclareSome, Declare, Typed
  <2>2. CASE Reorder
    <3>1. PICK i \in DOMAIN config.sources, j \in DOMAIN config.sources :
             config' = [config EXCEPT !.sources[i] = config.sources[j],
                                      !.sources[j] = config.sources[i]]
      BY <2>2 DEF Reorder
    <3>2. PICK n \in Nat : config.sources \in [1 .. n -> Entry]
      BY DEF Typed
    <3>3. config'.sources \in [1 .. n -> Entry]
      BY <3>1, <3>2
    <3>4. QED
      BY <2>2, <3>2, <3>3 DEF Typed, Reorder
  <2>3. CASE UNCHANGED vars
    BY <2>3 DEF Typed, vars
  <2>4. QED
    BY <2>1, <2>2, <2>3 DEF Next
<1>3. QED
  BY <1>1, <1>2, PTL DEF Spec

\* The rank of a source is an integer, also of a source not configured.
LEMMA RankIsInteger == ASSUME Typed, NEW name PROVE PrecedenceOf(config, name) \in Int
<1> DEFINE entries == {i \in DOMAIN config.sources : config.sources[i].name = name}
<1>1. PICK n \in Nat : config.sources \in [1 .. n -> Entry]
  BY DEF Typed
<1>2. CASE entries = {}
  BY <1>2 DEF PrecedenceOf
<1>3. CASE entries # {}
  <2>1. \E i \in entries : \A j \in entries : j <= i
    BY <1>1, <1>3, LastPosition
  <2> DEFINE last == CHOOSE i \in entries : \A j \in entries : j <= i
  <2>2. last \in entries
    BY <2>1, Zenon
  <2> HIDE DEF last
  <2>3. config.sources[last].precedence \in Int
    BY <1>1, <2>2 DEF Entry
  <2>4. QED
    BY <1>3, <2>3 DEF PrecedenceOf, last
<1>4. QED
  BY <1>2, <1>3

\* What is imported is of some slot, and the slot determines it.
LEMMA ImportedTyped ==
    ASSUME Typed
    PROVE  /\ \A a \in Imported : /\ EffectiveId(a) \in Slots
                                  /\ SevRank(a) \in 0 .. 2 /\ SourceRank(config, a) \in Int
           /\ \A a, b \in Imported : EffectiveId(a) = EffectiveId(b) => a = b
<1>1. ASSUME NEW a \in Imported
      PROVE  /\ EffectiveId(a) \in Slots /\ catalogue[EffectiveId(a)] \in Declarations
             /\ a = [source |-> EffectiveId(a)[1],
                     constraint |-> [id |-> EffectiveId(a)[2],
                                     severity |-> catalogue[EffectiveId(a)].severity,
                                     scope |-> catalogue[EffectiveId(a)].scope]]
             /\ a.constraint.severity \in Severities
  <2>1. PICK s \in Slots :
           /\ catalogue[s] # None
           /\ a = [source |-> s[1],
                   constraint |-> [id |-> s[2], severity |-> catalogue[s].severity,
                                   scope |-> catalogue[s].scope]]
    BY DEF Imported
  <2>2. s = <<s[1], s[2]>>
    BY SlotsAssumption
  <2>3. EffectiveId(a) = s
    BY <2>1, <2>2 DEF EffectiveId
  <2>4. catalogue[s] \in Declarations
    BY <2>1 DEF Typed
  <2>5. a.constraint.severity \in Severities
    BY <2>1, <2>4 DEF Declarations
  <2>6. QED
    BY <2>1, <2>3, <2>4, <2>5
<1>2. ASSUME NEW a \in Imported PROVE SevRank(a) \in 0 .. 2 /\ SourceRank(config, a) \in Int
  BY <1>1, RankIsInteger DEF SevRank, SourceRank, Rank, Severities
<1>3. ASSUME NEW a \in Imported, NEW b \in Imported, EffectiveId(a) = EffectiveId(b) PROVE a = b
  <2>1. EffectiveId(a)[1] = EffectiveId(b)[1] /\ EffectiveId(a)[2] = EffectiveId(b)[2]
    BY <1>3
  <2>2. QED
    BY <1>1, <1>3, <2>1
<1>4. QED
  BY <1>1, <1>2, <1>3

----------------------------------------------------------------------------
\* The decisions

\* When a is recorded as winning over b.
Outranks(a, b) ==
    \/ /\ SourceRank(config, a) = SourceRank(config, b) /\ SevRank(a) = SevRank(b)
       /\ Before(a, b)
    \/ SourceRank(config, a) <= SourceRank(config, b) /\ SevRank(a) > SevRank(b)
    \/ SourceRank(config, a) > SourceRank(config, b) /\ SevRank(a) = SevRank(b)

LEMMA BeatsIfOutranks ==
    ASSUME Typed, NEW a \in Imported, NEW b \in Imported
    PROVE  Beats(config, a, b) <=> Compared(a, b) /\ Outranks(a, b)
<1>1. /\ SevRank(a) \in Int /\ SevRank(b) \in Int
      /\ SourceRank(config, a) \in Int /\ SourceRank(config, b) \in Int
  BY ImportedTyped
<1>2. WinReason(config, a, b) # "none" <=> Outranks(a, b)
  BY <1>1 DEF WinReason, Outranks
<1>3. QED
  BY <1>2 DEF Beats

LEMMA WinsAndConflicts ==
    ASSUME Typed, NEW a \in Imported, NEW b \in Imported
    PROVE  /\ <<EffectiveId(a), EffectiveId(b)>> \in Wins
                <=> Compared(a, b) /\ Outranks(a, b)
           /\ {EffectiveId(a), EffectiveId(b)} \in Conflicts(Imported, config)
                <=> \/ Compared(a, b) /\ Relaxes(config, a, b)
                    \/ Compared(b, a) /\ Relaxes(config, b, a)
<1>1. Compared(a, b) /\ Outranks(a, b) => <<EffectiveId(a), EffectiveId(b)>> \in Wins
  <2> SUFFICES ASSUME Beats(config, a, b)
               PROVE  <<EffectiveId(a), EffectiveId(b)>> \in Wins
    BY BeatsIfOutranks
  <2>1. <<a, b>> \in {r \in Imported \X Imported : Beats(config, r[1], r[2])}
    OBVIOUS
  <2>2. [winner |-> EffectiveId(a), loser |-> EffectiveId(b), reason |-> WinReason(config, a, b)]
          \in Records(Imported, config)
    BY <2>1 DEF Records
  <2>3. QED
    BY <2>2 DEF Wins
<1>2. <<EffectiveId(a), EffectiveId(b)>> \in Wins => Compared(a, b) /\ Outranks(a, b)
  <2> SUFFICES ASSUME <<EffectiveId(a), EffectiveId(b)>> \in Wins
               PROVE  Beats(config, a, b)
    BY BeatsIfOutranks
  <2>1. PICK r \in Records(Imported, config) :
           r.winner = EffectiveId(a) /\ r.loser = EffectiveId(b)
    BY DEF Wins
  <2>2. PICK p \in Imported \X Imported :
           /\ Beats(config, p[1], p[2])
           /\ EffectiveId(p[1]) = EffectiveId(a) /\ EffectiveId(p[2]) = EffectiveId(b)
    BY <2>1 DEF Records
  <2>3. p[1] = a /\ p[2] = b
    BY <2>2, ImportedTyped
  <2>4. QED
    BY <2>2, <2>3
<1>3. ASSUME NEW x \in Imported, NEW y \in Imported, Compared(x, y), Relaxes(config, x, y)
      PROVE  {EffectiveId(x), EffectiveId(y)} \in Conflicts(Imported, config)
  <2>1. <<x, y>> \in {r \in Imported \X Imported :
                        Compared(r[1], r[2]) /\ Relaxes(config, r[1], r[2])}
    BY <1>3
  <2>2. QED
    BY <2>1 DEF Conflicts
<1>4. {EffectiveId(a), EffectiveId(b)} \in Conflicts(Imported, config) =>
          \/ Compared(a, b) /\ Relaxes(config, a, b)
          \/ Compared(b, a) /\ Relaxes(config, b, a)
  <2> SUFFICES ASSUME {EffectiveId(a), EffectiveId(b)} \in Conflicts(Imported, config)
               PROVE  \/ Compared(a, b) /\ Relaxes(config, a, b)
                      \/ Compared(b, a) /\ Relaxes(config, b, a)
    OBVIOUS
  <2>1. PICK p \in Imported \X Imported :
           /\ Compared(p[1], p[2]) /\ Relaxes(config, p[1], p[2])
           /\ {EffectiveId(p[1]), EffectiveId(p[2])} = {EffectiveId(a), EffectiveId(b)}
    BY DEF Conflicts
  <2>2. \/ EffectiveId(p[1]) = EffectiveId(a) /\ EffectiveId(p[2]) = EffectiveId(b)
        \/ EffectiveId(p[1]) = EffectiveId(b) /\ EffectiveId(p[2]) = EffectiveId(a)
    BY <2>1, Zenon
  <2>3. (p[1] = a /\ p[2] = b) \/ (p[1] = b /\ p[2] = a)
    BY <2>2, ImportedTyped
  <2>4. QED
    BY <2>1, <2>3
<1>5. {EffectiveId(a), EffectiveId(b)} = {EffectiveId(b), EffectiveId(a)}
  OBVIOUS
<1>6. QED
  BY <1>1, <1>2, <1>3, <1>4, <1>5

\* Of two constraints that are compared just one of four things holds: this is
\* where the branches of resolve_precedence meet.
LEMMA Trichotomy ==
    ASSUME Typed, NEW a \in Imported, NEW b \in Imported, Compared(a, b)
    PROVE  /\ Compared(b, a)
           /\ Outranks(a, b) \/ Outranks(b, a) \/ Relaxes(config, a, b) \/ Relaxes(config, b, a)
           /\ ~(Outranks(a, b) /\ Outranks(b, a))
           /\ (Relaxes(config, a, b) \/ Relaxes(config, b, a))
                 => ~Outranks(a, b) /\ ~Outranks(b, a)
<1>1. EffectiveId(a) # EffectiveId(b)
  BY DEF Compared, EffectiveId
<1>2. /\ IdOrder[EffectiveId(a)] \in Int /\ IdOrder[EffectiveId(b)] \in Int
      /\ IdOrder[EffectiveId(a)] # IdOrder[EffectiveId(b)]
  BY <1>1, ImportedTyped, SlotsAssumption
<1>3. /\ SevRank(a) \in Int /\ SevRank(b) \in Int
      /\ SourceRank(config, a) \in Int /\ SourceRank(config, b) \in Int
  BY ImportedTyped
<1>4. Compared(b, a)
  BY DEF Compared, ScopesEqual
<1>5. QED
  BY <1>2, <1>3, <1>4 DEF Outranks, Relaxes, Before

\* Every pair of one scope and two sources gets one decision (precedence.py).
THEOREM PairsAreDecidedOnce == Spec => []EveryPairDecidedOnce
<1>1. Typed => EveryPairDecidedOnce
  <2> DEFINE Decided(x, y) == {d \in {"x", "y", "conflict"} :
                    \/ d = "x" /\ <<x, y>> \in Wins
                    \/ d = "y" /\ <<y, x>> \in Wins
                    \/ d = "conflict" /\ {x, y} \in Conflicts(Imported, config)}
  <2> SUFFICES ASSUME Typed, NEW p \in Pairs
               PROVE  Cardinality(Decided(EffectiveId(p[1]), EffectiveId(p[2]))) = 1
    BY DEF EveryPairDecidedOnce
  <2>1. p[1] \in Imported /\ p[2] \in Imported /\ Compared(p[1], p[2])
    BY DEF Pairs
  <2> DEFINE x == EffectiveId(p[1])
             y == EffectiveId(p[2])
             win == <<x, y>> \in Wins
             lose == <<y, x>> \in Wins
             clash == {x, y} \in Conflicts(Imported, config)
  <2>2. /\ win <=> Outranks(p[1], p[2]) /\ Compared(p[1], p[2])
        /\ lose <=> Outranks(p[2], p[1]) /\ Compared(p[2], p[1])
        /\ clash <=> \/ Compared(p[1], p[2]) /\ Relaxes(config, p[1], p[2])
                     \/ Compared(p[2], p[1]) /\ Relaxes(config, p[2], p[1])
    BY <2>1, WinsAndConflicts
  <2>3. /\ win \/ lose \/ clash
        /\ ~(win /\ lose) /\ ~(win /\ clash) /\ ~(lose /\ clash)
    BY <2>1, <2>2, Trichotomy
  <2>4. Decided(x, y) = {"x"} \/ Decided(x, y) = {"y"} \/ Decided(x, y) = {"conflict"}
    <3> HIDE DEF x, y
    <3>1. QED
      BY <2>3
  <2>5. QED
    BY <2>4, FS_Singleton
<1>2. QED
  BY <1>1, Typing, PTL

\* No set of constraints is decided in a circle.  "Beats" is not transitive,
\* since constraints of one source are not compared; it lies in an order that
\* is: severity first, then precedence, then the id.
THEOREM DecisionsAreAcyclic == Spec => []DecisionsAcyclic
<1>1. Typed => DecisionsAcyclic
  <2> SUFFICES ASSUME Typed, NEW S \in SUBSET {EffectiveId(ic) : ic \in Imported}, S # {}
               PROVE  \E x \in S : \A y \in S : <<y, x>> \notin Wins
    BY DEF DecisionsAcyclic
  <2> DEFINE Of(s) == CHOOSE ic \in Imported : EffectiveId(ic) = s
             sev(s) == SevRank(Of(s))
             src(s) == SourceRank(config, Of(s))
             R == {p \in S \X S :
                     \/ sev(p[1]) > sev(p[2])
                     \/ sev(p[1]) = sev(p[2]) /\ src(p[1]) > src(p[2])
                     \/ /\ sev(p[1]) = sev(p[2]) /\ src(p[1]) = src(p[2])
                        /\ IdOrder[p[1]] < IdOrder[p[2]]}
  <2>1. \A s \in S : Of(s) \in Imported /\ EffectiveId(Of(s)) = s
    OBVIOUS
  <2> HIDE DEF Of
  <2>2. \A s \in S : s \in Slots /\ sev(s) \in Int /\ src(s) \in Int /\ IdOrder[s] \in Int
    BY <2>1, ImportedTyped, SlotsAssumption
  <2>3. IsFiniteSet(S)
    BY <2>2, SlotsAssumption, FS_Subset
  <2>4. \A x, y \in S : <<y, x>> \in Wins => <<y, x>> \in R
    <3> SUFFICES ASSUME NEW x \in S, NEW y \in S, <<y, x>> \in Wins PROVE <<y, x>> \in R
      OBVIOUS
    <3>1. Outranks(Of(y), Of(x))
      BY <2>1, WinsAndConflicts
    <3>2. QED
      BY <2>1, <2>2, <3>1 DEF Outranks, Before
  <2> HIDE DEF sev, src
  <2>5. \A x \in S : <<x, x>> \notin R
    BY <2>2
  <2>6. \A x, y, z \in S : <<x, y>> \in R /\ <<y, z>> \in R => <<x, z>> \in R
    BY <2>2
  <2> HIDE DEF R
  <2>7. PICK x \in S : \A y \in S : <<y, x>> \notin R
    BY <2>3, <2>5, <2>6, MinimalElement
  <2>8. QED
    BY <2>4, <2>7
<1>2. QED
  BY <1>1, Typing, PTL

\* In an importable catalogue strictness is never lost by aggregation.
THEOREM UnbeatenIsStrict == Spec => []UnbeatenIsStrictest
<1>1. Typed => UnbeatenIsStrictest
  <2> SUFFICES ASSUME Typed, Conflicts(Imported, config) = {}, NEW p \in Pairs,
                      EffectiveId(p[1]) \notin {w[2] : w \in Wins}
               PROVE  SevRank(p[2]) <= SevRank(p[1])
    BY DEF UnbeatenIsStrictest
  <2>1. p[1] \in Imported /\ p[2] \in Imported /\ Compared(p[1], p[2]) /\ Compared(p[2], p[1])
    BY DEF Pairs, Compared, ScopesEqual
  <2>2. <<EffectiveId(p[2]), EffectiveId(p[1])>> \notin Wins
    OBVIOUS
  <2>3. ~Outranks(p[2], p[1]) /\ ~Relaxes(config, p[1], p[2])
    BY <2>1, <2>2, WinsAndConflicts
  <2>4. /\ SevRank(p[1]) \in Int /\ SevRank(p[2]) \in Int
        /\ SourceRank(config, p[1]) \in Int /\ SourceRank(config, p[2]) \in Int
    BY <2>1, ImportedTyped
  <2>5. QED
    BY <2>3, <2>4 DEF Outranks, Relaxes
<1>2. QED
  BY <1>1, Typing, PTL

----------------------------------------------------------------------------
\* The order of the configuration

\* Where names are unique, the rank of a source is that of its one entry.
LEMMA RankOfOnlyEntry ==
    ASSUME NEW c, NEW n \in Nat, c.sources \in [1 .. n -> Entry], NEW k \in 1 .. n,
           \A i, j \in 1 .. n : c.sources[i].name = c.sources[j].name => i = j
    PROVE  PrecedenceOf(c, c.sources[k].name) = c.sources[k].precedence
<1> DEFINE entries == {i \in DOMAIN c.sources : c.sources[i].name = c.sources[k].name}
<1>1. entries = {k}
  OBVIOUS
<1>2. (CHOOSE i \in entries : \A j \in entries : j <= i) = k
  <2>1. \A j \in entries : j <= k
    BY <1>1
  <2> HIDE DEF entries
  <2>2. QED
    BY <1>1, <2>1
<1>3. entries # {}
  BY <1>1
<1>4. QED
  BY <1>2, <1>3 DEF PrecedenceOf

LEMMA SwapKeepsRanks ==
    ASSUME Typed, UniqueNames, Reorder, NEW name
    PROVE  PrecedenceOf(config', name) = PrecedenceOf(config, name)
<1>1. PICK i \in DOMAIN config.sources, j \in DOMAIN config.sources :
         config' = [config EXCEPT !.sources[i] = config.sources[j],
                                  !.sources[j] = config.sources[i]]
  BY DEF Reorder
<1>2. PICK n \in Nat : config.sources \in [1 .. n -> Entry]
  BY DEF Typed
<1> DEFINE moved(k) == IF k = i THEN j ELSE IF k = j THEN i ELSE k
<1>3. config'.sources \in [1 .. n -> Entry]
  BY <1>1, <1>2
<1>4. \A k \in 1 .. n : config'.sources[k] = config.sources[moved(k)] /\ moved(k) \in 1 .. n
                       /\ moved(moved(k)) = k
  BY <1>1, <1>2
<1>5. \A k, l \in 1 .. n : config.sources[k].name = config.sources[l].name => k = l
  BY <1>2 DEF UniqueNames
<1> HIDE DEF moved
<1>6. \A k, l \in 1 .. n : config'.sources[k].name = config'.sources[l].name => k = l
  BY <1>4, <1>5
<1>7. CASE \E k \in 1 .. n : config.sources[k].name = name
  <2>1. PICK k \in 1 .. n : config.sources[k].name = name
    BY <1>7
  <2>2. moved(k) \in 1 .. n /\ config'.sources[moved(k)] = config.sources[k]
    BY <1>4
  <2>3. PrecedenceOf(config, name) = config.sources[k].precedence
    BY <1>2, <1>5, <2>1, RankOfOnlyEntry
  <2>4. PrecedenceOf(config', config'.sources[moved(k)].name) = config'.sources[moved(k)].precedence
    BY <1>3, <1>6, <2>2, RankOfOnlyEntry
  <2>5. QED
    BY <2>1, <2>2, <2>3, <2>4
<1>8. CASE ~ \E k \in 1 .. n : config.sources[k].name = name
  <2>1. {k \in DOMAIN config.sources : config.sources[k].name = name} = {}
    BY <1>2, <1>8
  <2>2. {k \in DOMAIN config'.sources : config'.sources[k].name = name} = {}
    BY <1>3, <1>4, <1>8
  <2>3. QED
    BY <2>1, <2>2 DEF PrecedenceOf
<1>9. QED
  BY <1>7, <1>8

\* Where names are unique, the sources may be listed in any order
\* (registry.config.yaml:2): swaps of two entries make every order.
THEOREM SourceOrderIsIrrelevant == Spec => SourceOrderIrrelevant
<1> DEFINE Same == Reorder /\ UniqueNames =>
                     /\ Records(Imported, config)' = Records(Imported, config)
                     /\ Conflicts(Imported, config)' = Conflicts(Imported, config)
<1>1. Typed /\ [Next]_vars => [Same]_vars
  <2> SUFFICES ASSUME Typed, Reorder, UniqueNames
               PROVE  /\ Records(Imported, config)' = Records(Imported, config)
                      /\ Conflicts(Imported, config)' = Conflicts(Imported, config)
    OBVIOUS
  <2>1. Imported' = Imported
    BY DEF Reorder, Imported
  <2>2. \A ic : SourceRank(config', ic) = SourceRank(config, ic)
    BY SwapKeepsRanks DEF SourceRank
  <2>3. \A a, b : /\ WinReason(config', a, b) = WinReason(config, a, b)
                  /\ Beats(config', a, b) = Beats(config, a, b)
                  /\ Relaxes(config', a, b) = Relaxes(config, a, b)
    BY <2>2 DEF WinReason, Beats, Relaxes
  <2>4. Records(Imported', config') = Records(Imported, config)
    BY <2>1, <2>3 DEF Records
  <2>5. Conflicts(Imported', config') = Conflicts(Imported, config)
    BY <2>1, <2>3 DEF Conflicts
  <2>6. QED
    BY <2>4, <2>5
<1>2. QED
  BY <1>1, Typing, PTL DEF Spec, SourceOrderIrrelevant
=============================================================================
