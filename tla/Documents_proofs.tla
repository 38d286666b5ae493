-------------------------- MODULE Documents_proofs --------------------------
(***************************************************************************)
(* What the readers of outside documents make of them, for documents of    *)
(* any length: the SARIF normaliser finds exactly what a report says, and  *)
(* the catalogue importers parse listings and rulesets as they promise.    *)
(*                                                                         *)
(* Both readers are folds.  A fold is unrolled once, into the sequence of  *)
(* what it has after each member (RunExists, FoldExists), and that is      *)
(* argued about by induction over the positions (PositionInduction).       *)
(***************************************************************************)
EXTENDS Sarif, CatalogueImport, TLAPS, WellFoundedInduction, FiniteSetTheorems, SequenceTheorems

\* Every set of naturals that has a member has a least one.
LEMMA LeastMember ==
    ASSUME NEW S \in SUBSET Nat, S # {}
    PROVE  \E x \in S : \A y \in S : x <= y
<1> DEFINE Less == OpToRel(<, Nat)
<1>1. \A p \in Nat \X Nat : p \in Less <=> p[1] < p[2]
  BY DEF OpToRel
<1>2. IsWellFoundedOn(Less, Nat)
  BY NatLessThanWellFounded, Zenon
<1> HIDE DEF Less
<1>3. PICK x \in S : \A y \in S : <<y, x>> \notin Less
  BY <1>2, WFMin, Zenon
<1>4. ASSUME NEW y \in S PROVE ~(y < x)
  BY <1>1, <1>3
<1>5. QED
  BY <1>4

\* Induction over positions: what holds of none of them and of each that
\* follows one it holds of, holds of all.
LEMMA PositionInduction ==
    ASSUME NEW n \in Nat, NEW S, 0 \in S, \A i \in 1 .. n : i - 1 \in S => i \in S
    PROVE  n \in S /\ \A i \in 0 .. n : i \in S
<1> SUFFICES ASSUME (0 .. n) \ S # {} PROVE FALSE
  OBVIOUS
<1> DEFINE Left == (0 .. n) \ S
<1> n \in 0 .. n
  OBVIOUS
<1>1. PICK x \in Left : \A y \in Left : x <= y
  <2>1. Left \in SUBSET Nat /\ Left # {}
    OBVIOUS
  <2> HIDE DEF Left
  <2>2. QED
    BY <2>1, LeastMember
<1>2. x \in 1 .. n /\ x - 1 \in 0 .. n /\ x - 1 \in S
  BY <1>1
<1>3. QED
  BY <1>1, <1>2

\* Steps that lead from values of T to values of T have a run from each.
IsRun(g, m, T, base, step) ==
    g \in [0 .. m -> T] /\ g[0] = base /\ \A i \in 1 .. m : g[i] = step[<<g[i - 1], i>>]

LEMMA RunExists ==
    ASSUME NEW n \in Nat, NEW T, NEW base \in T, NEW step \in [T \X (1 .. n) -> T]
    PROVE  \E g : IsRun(g, n, T, base, step)
<1> DEFINE Run(m, g) == IsRun(g, m, T, base, step)
           S == {m \in 0 .. n : \E g : Run(m, g)}
<1> USE DEF IsRun
<1>1. 0 \in S
  <2>1. Run(0, [i \in 0 .. 0 |-> base])
    OBVIOUS
  <2> HIDE DEF Run
  <2>2. QED
    BY <2>1
<1>2. ASSUME NEW m \in 1 .. n, m - 1 \in S PROVE m \in S
  <2>1. PICK g : Run(m - 1, g)
    BY <1>2
  <2> DEFINE h == [i \in 0 .. m |-> IF i = m THEN step[<<g[m - 1], m>>] ELSE g[i]]
  <2>2. g[m - 1] \in T
    BY <2>1
  <2>3. h \in [0 .. m -> T] /\ h[0] = base
    BY <2>1, <2>2
  <2>4. \A i \in 1 .. m : h[i] = step[<<h[i - 1], i>>]
    BY <2>1
  <2>5. Run(m, h)
    BY <2>3, <2>4
  <2> HIDE DEF Run, h
  <2>6. QED
    BY <2>5
<1> HIDE DEF S
<1>3. n \in S
  BY <1>1, <1>2, PositionInduction, Zenon
<1>4. QED
  BY <1>3 DEF S

\* So have steps that fold a list, taking the members of a set of positions
\* from the last to the first, as the folds of the community modules do.
IsFold(g, m, T, base, step) ==
    /\ g \in [SUBSET (1 .. m) -> T] /\ g[{}] = base
    /\ \A s \in SUBSET (1 .. m) : s # {} => g[s] = step[<<g[s \ {Max(s)}], Max(s)>>]

LEMMA FoldExists ==
    ASSUME NEW n \in Nat, NEW T, NEW base \in T, NEW step \in [T \X (1 .. n) -> T]
    PROVE  \E g : IsFold(g, n, T, base, step)
<1> DEFINE Fold(m, g) == IsFold(g, m, T, base, step)
           S == {m \in 0 .. n : \E g : Fold(m, g)}
<1> USE DEF IsFold
<1>1. 0 \in S
  <2>1. Fold(0, [s \in SUBSET (1 .. 0) |-> base])
    <3>1. \A s \in SUBSET (1 .. 0) : s = {}
      OBVIOUS
    <3>2. QED
      BY <3>1
  <2> HIDE DEF Fold
  <2>2. QED
    BY <2>1
<1>2. ASSUME NEW m \in 1 .. n, m - 1 \in S PROVE m \in S
  <2>1. PICK g : Fold(m - 1, g)
    BY <1>2
  <2> DEFINE h == [s \in SUBSET (1 .. m) |-> IF m \in s THEN step[<<g[s \ {m}], m>>] ELSE g[s]]
  <2>2. \A s \in SUBSET (1 .. m) : s \ {m} \in SUBSET (1 .. m - 1) /\ g[s \ {m}] \in T
    BY <2>1
  <2>3. h \in [SUBSET (1 .. m) -> T] /\ h[{}] = base
    BY <2>1, <2>2
  <2>4. ASSUME NEW s \in SUBSET (1 .. m), s # {} PROVE h[s] = step[<<h[s \ {Max(s)}], Max(s)>>]
    <3>1. CASE m \in s
      <4>1. \A x \in s : m >= x /\ (x = m \/ ~(x >= m))
        OBVIOUS
      <4>2. Max(s) = m
        BY <3>1, <4>1 DEF Max
      <4>3. s \ {m} \in SUBSET (1 .. m) /\ h[s \ {m}] = g[s \ {m}]
        OBVIOUS
      <4>4. QED
        BY <3>1, <4>2, <4>3
    <3>2. CASE m \notin s
      <4>1. s \in SUBSET (1 .. m - 1)
        BY <3>2
      <4> DEFINE r == s \ {Max(s)}
      <4>2. r \in SUBSET (1 .. m) /\ m \notin r
        BY <3>2, Zenon
      <4>3. h[s] = g[s] /\ h[r] = g[r]
        BY <3>2, <4>2
      <4>4. QED
        BY <2>1, <2>4, <4>1, <4>3
    <3>3. QED
      BY <3>1, <3>2
  <2>5. Fold(m, h)
    BY <2>3, <2>4
  <2> HIDE DEF Fold, h
  <2>6. QED
    BY <2>5
<1> HIDE DEF S
<1>3. n \in S
  BY <1>1, <1>2, PositionInduction, Zenon
<1>4. QED
  BY <1>3 DEF S

\* A set of positions that has a member has a last one.
LEMMA MaxIsMember ==
    ASSUME NEW n \in Nat, NEW u \in SUBSET (1 .. n), u # {}
    PROVE  Max(u) \in u
<1> DEFINE Back == {n - x : x \in u}
<1>1. PICK y \in Back : \A z \in Back : y <= z
  <2>1. \A x \in u : n - x \in Nat /\ n - x \in Back
    OBVIOUS
  <2>3. Back \in SUBSET Nat /\ Back # {}
    BY <2>1
  <2> HIDE DEF Back
  <2>2. QED
    BY <2>3, LeastMember
<1>2. PICK x \in u : \A z \in u : x >= z
  <2>1. PICK x \in u : y = n - x
    OBVIOUS
  <2>2. ASSUME NEW z \in u PROVE x >= z
    <3>1. n - z \in Back
      OBVIOUS
    <3>2. n - x <= n - z
      BY <1>1, <2>1, <3>1
    <3>3. QED
      BY <3>2
  <2>3. QED
    BY <2>2
<1>3. QED
  BY <1>2 DEF Max

\* The positions up to i are those before i and i, the last of them.
LEMMA LastOfPositions ==
    ASSUME NEW i \in Nat \ {0}
    PROVE  1 .. i # {} /\ Max(1 .. i) = i /\ (1 .. i) \ {i} = 1 .. i - 1
<1>1. \A x \in 1 .. i : i >= x /\ (x = i \/ ~(x >= i))
  OBVIOUS
<1>2. i \in 1 .. i
  OBVIOUS
<1>3. Max(1 .. i) = i
  BY <1>1, <1>2 DEF Max
<1>4. QED
  BY <1>2, <1>3

\* Lists taken together one by one, from the first to the last.
IsConcatenation(flat, n, T, empty, ss) ==
    flat \in [0 .. n -> T] /\ flat[0] = empty /\ \A i \in 1 .. n : flat[i] = flat[i - 1] \o ss[i]

Flattened(ss, n) ==
    (CHOOSE f : f = [i \in 1 .. n |-> IF i = 1 THEN ss[i] ELSE f[i - 1] \o ss[i]])[n]

LEMMA ConcatenationIsRun ==
    ASSUME NEW n \in Nat \ {0}, NEW T, NEW empty \in T, NEW ss \in [1 .. n -> T],
           \A a, b \in T : a \o b \in T, \A a \in T : empty \o a = a
    PROVE  \E flat : IsConcatenation(flat, n, T, empty, ss) /\ flat[n] = Flattened(ss, n)
<1> DEFINE step == [p \in T \X (1 .. n) |-> p[1] \o ss[p[2]]]
           Flattens(f) == f = [i \in 1 .. n |-> IF i = 1 THEN ss[i] ELSE f[i - 1] \o ss[i]]
           f == CHOOSE f : Flattens(f)
<1>1. n \in Nat /\ 1 \in 1 .. n
  OBVIOUS
<1>2. step \in [T \X (1 .. n) -> T] /\ \A a \in T, i \in 1 .. n : step[<<a, i>>] = a \o ss[i]
  OBVIOUS
<1> HIDE DEF step
<1>3. PICK flat : IsRun(flat, n, T, empty, step)
  BY <1>1, <1>2, RunExists
<1>4. flat \in [0 .. n -> T] /\ flat[0] = empty
  BY <1>3 DEF IsRun
<1>5. ASSUME NEW i \in 1 .. n PROVE flat[i] = flat[i - 1] \o ss[i]
  <2>1. i - 1 \in 0 .. n
    OBVIOUS
  <2>2. flat[i - 1] \in T
    BY <1>4, <2>1
  <2>3. QED
    BY <1>2, <1>3, <2>2, Zenon DEF IsRun
<1>6. flat[1] = ss[1]
  <2>1. 1 - 1 = 0
    OBVIOUS
  <2>2. flat[1] = empty \o ss[1] /\ ss[1] \in T
    BY <1>1, <1>4, <1>5, <2>1, Zenon
  <2>3. QED
    BY <2>2, Zenon
<1>7. Flattens([i \in 1 .. n |-> flat[i]])
  <2> DEFINE g == [i \in 1 .. n |-> flat[i]]
  <2>1. ASSUME NEW i \in 1 .. n
        PROVE  g[i] = IF i = 1 THEN ss[i] ELSE g[i - 1] \o ss[i]
    <3>1. i # 1 => i - 1 \in 1 .. n
      OBVIOUS
    <3>2. g[i] = flat[i] /\ (i # 1 => g[i - 1] = flat[i - 1])
      BY <3>1, Zenon
    <3>3. QED
      BY <1>5, <1>6, <3>2, Zenon
  <2>2. g = [i \in 1 .. n |-> IF i = 1 THEN ss[i] ELSE g[i - 1] \o ss[i]]
    BY <2>1, Zenon
  <2>3. QED
    BY <2>2, Zenon
<1>8. Flattens(f)
  BY <1>7, Zenon
<1> HIDE DEF f
<1>9. \A i \in 1 .. n : f[i] = IF i = 1 THEN ss[i] ELSE f[i - 1] \o ss[i]
  BY <1>8, Zenon
<1> HIDE DEF Flattens
<1> DEFINE S == {i \in 0 .. n : i = 0 \/ f[i] = flat[i]}
<1>10. ASSUME NEW i \in 1 .. n, i - 1 \in S PROVE i \in S
  <2>1. i \in 0 .. n /\ (i - 1 = 0 => i = 1)
    OBVIOUS
  <2>2. f[i] = flat[i]
    BY <1>5, <1>6, <1>9, <1>10, <2>1, Zenon
  <2>3. QED
    BY <2>1, <2>2
<1>11. 0 \in S
  OBVIOUS
<1> HIDE DEF S
<1>12. n \in S
  BY <1>1, <1>10, <1>11, PositionInduction, Zenon
<1>13. f[n] = flat[n]
  <2>1. n # 0
    OBVIOUS
  <2>2. QED
    BY <1>12, <2>1, Zenon DEF S
<1>14. QED
  BY <1>4, <1>5, <1>13, Zenon DEF f, Flattens, IsConcatenation, Flattened

\* What flattens to a list is the concatenation of its members.
LEMMA FlattenIsRun ==
    ASSUME NEW V, NEW ss \in Seq(Seq(V))
    PROVE  \E flat : /\ IsConcatenation(flat, Len(ss), Seq(V), <<>>, ss)
                     /\ FlattenSeq(ss) = flat[Len(ss)]
<1> DEFINE n == Len(ss)
           T == Seq(V)
           empty == <<>>
<1>1. n \in Nat /\ ss \in [1 .. n -> T]
  OBVIOUS
<1>2. empty \in T /\ \A a \in T : empty \o a = a
  OBVIOUS
<1>3. \A a, b \in T : a \o b \in T
  OBVIOUS
<1>4. CASE n = 0
  <2>1. FlattenSeq(ss) = <<>>
    BY <1>4 DEF FlattenSeq
  <2> DEFINE flat == [i \in 0 .. n |-> empty]
  <2>2. flat \in [0 .. n -> T] /\ flat[0] = <<>> /\ flat[n] = <<>> /\ 1 .. n = {}
    BY <1>2, <1>4
  <2> HIDE DEF n, T, flat
  <2>3. QED
    BY <2>1, <2>2 DEF n, T, IsConcatenation
<1>5. CASE n # 0
  <2>1. FlattenSeq(ss) = Flattened(ss, n)
    BY <1>5 DEF FlattenSeq, Flattened
  <2>2. n \in Nat \ {0}
    BY <1>1, <1>5
  <2> HIDE DEF n, T, empty
  <2>3. \E flat : IsConcatenation(flat, n, T, empty, ss) /\ flat[n] = Flattened(ss, n)
    BY <1>1, <1>2, <1>3, <2>2, ConcatenationIsRun, Zenon
  <2>4. QED
    BY <2>1, <2>3, Zenon DEF n, T, empty
<1>6. QED
  BY <1>4, <1>5

\* The members of c are those of a and, behind them, those of b.
InARow(a, b, c) ==
    /\ \A p \in DOMAIN a : p \in DOMAIN c /\ c[p] = a[p]
    /\ \A j \in DOMAIN b : Len(a) + j \in DOMAIN c /\ c[Len(a) + j] = b[j]
    /\ \A p \in DOMAIN c : p \in DOMAIN a \/ \E j \in DOMAIN b : p = Len(a) + j

LEMMA PlacesInARow ==
    ASSUME NEW V, NEW a \in Seq(V), NEW b \in Seq(V)
    PROVE  InARow(a, b, a \o b)
<1>1. /\ Len(a) \in Nat /\ DOMAIN a = 1 .. Len(a)
      /\ Len(b) \in Nat /\ DOMAIN b = 1 .. Len(b)
      /\ DOMAIN (a \o b) = 1 .. Len(a) + Len(b)
      /\ \A p \in DOMAIN a : (a \o b)[p] = a[p]
      /\ \A j \in DOMAIN b : (a \o b)[Len(a) + j] = b[j]
  OBVIOUS
<1>2. ASSUME NEW p \in DOMAIN (a \o b), p \notin DOMAIN a
      PROVE  \E j \in DOMAIN b : p = Len(a) + j
  <2>1. p - Len(a) \in DOMAIN b /\ p = Len(a) + (p - Len(a))
    BY <1>1, <1>2
  <2>2. QED
    BY <2>1
<1>3. \A p \in DOMAIN a : p \in DOMAIN (a \o b)
  BY <1>1
<1>4. \A j \in DOMAIN b : Len(a) + j \in DOMAIN (a \o b)
  BY <1>1
<1>5. QED
  BY <1>1, <1>2, <1>3, <1>4 DEF InARow

\* Every member of every list is found behind the lists before its own, and
\* nothing else is.
KeepsPlaces(flat, ss, n) ==
    /\ \A i \in 1 .. n : \A j \in DOMAIN ss[i] :
          /\ Len(flat[i - 1]) + j \in DOMAIN flat[n]
          /\ flat[n][Len(flat[i - 1]) + j] = ss[i][j]
    /\ \A p \in DOMAIN flat[n] : \E i \in 1 .. n : \E j \in DOMAIN ss[i] :
          p = Len(flat[i - 1]) + j

LEMMA FlattenKeepsPlaces ==
    ASSUME NEW n \in Nat, NEW ss, NEW flat, DOMAIN flat[0] = {},
           \A k \in 1 .. n : InARow(flat[k - 1], ss[k], flat[k])
    PROVE  KeepsPlaces(flat, ss, n)
<1> DEFINE Placed(k) == \A i \in 1 .. k : \A j \in DOMAIN ss[i] :
                 /\ Len(flat[i - 1]) + j \in DOMAIN flat[k]
                 /\ flat[k][Len(flat[i - 1]) + j] = ss[i][j]
           Covered(k) == \A p \in DOMAIN flat[k] : \E i \in 1 .. k : \E j \in DOMAIN ss[i] :
                 p = Len(flat[i - 1]) + j
           S == {k \in 0 .. n : Placed(k) /\ Covered(k)}
<1>1. 0 \in S
  <2>1. DOMAIN flat[0] = {} /\ 1 .. 0 = {} /\ 0 \in 0 .. n
    OBVIOUS
  <2>2. QED
    BY <2>1
<1>2. ASSUME NEW k \in 1 .. n, k - 1 \in S PROVE k \in S
  <2>1. Placed(k - 1) /\ Covered(k - 1)
    BY <1>2
  <2>0. InARow(flat[k - 1], ss[k], flat[k])
    OBVIOUS
  <2>2. Placed(k)
    <3> SUFFICES ASSUME NEW i \in 1 .. k, NEW j \in DOMAIN ss[i]
                 PROVE  /\ Len(flat[i - 1]) + j \in DOMAIN flat[k]
                        /\ flat[k][Len(flat[i - 1]) + j] = ss[i][j]
      OBVIOUS
    <3>1. CASE i = k
      BY <2>0, <3>1, Zenon DEF InARow
    <3>2. CASE i # k
      <4>1. i \in 1 .. k - 1
        BY <3>2
      <4>2. /\ Len(flat[i - 1]) + j \in DOMAIN flat[k - 1]
            /\ flat[k - 1][Len(flat[i - 1]) + j] = ss[i][j]
        BY <2>1, <4>1
      <4>3. QED
        BY <2>0, <4>2, Zenon DEF InARow
    <3>3. QED
      BY <3>1, <3>2
  <2>3. Covered(k)
    <3> SUFFICES ASSUME NEW p \in DOMAIN flat[k]
                 PROVE  \E i \in 1 .. k : \E j \in DOMAIN ss[i] : p = Len(flat[i - 1]) + j
      OBVIOUS
    <3>1. CASE p \in DOMAIN flat[k - 1]
      <4>1. PICK i \in 1 .. k - 1 : \E j \in DOMAIN ss[i] : p = Len(flat[i - 1]) + j
        BY <2>1, <3>1
      <4>2. i \in 1 .. k
        OBVIOUS
      <4>3. QED
        BY <4>1, <4>2
    <3>2. CASE p \notin DOMAIN flat[k - 1]
      <4>1. PICK j \in DOMAIN ss[k] : p = Len(flat[k - 1]) + j
        BY <2>0, <3>2, Zenon DEF InARow
      <4>2. k \in 1 .. k
        OBVIOUS
      <4>3. QED
        BY <4>1, <4>2, Zenon
    <3>3. QED
      BY <3>1, <3>2
  <2>4. QED
    BY <2>2, <2>3
<1> HIDE DEF S
<1>3. n \in S
  BY <1>1, <1>2, PositionInduction, Zenon
<1>4. QED
  BY <1>3, Zenon DEF S, KeepsPlaces

----------------------------------------------------------------------------
\* The SARIF normaliser

\* What is kept of a list is gathered member by member.
LEMMA KeptIsRun ==
    ASSUME NEW V, NEW s \in Seq(V)
    PROVE  \E acc : /\ acc[0] = <<>> /\ \A i \in 1 .. Len(s) : acc[i] = Kept(acc[i - 1], s[i])
                    /\ FoldLeft(Kept, <<>>, s) = acc[Len(s)]
<1> DEFINE n == Len(s)
           T == Seq(V)
           base == <<>>
           step == [p \in T \X (1 .. n) |-> Kept(p[1], s[p[2]])]
           Folds(f) == f = [u \in SUBSET (1 .. n) |->
                              IF u = {} THEN base ELSE Kept(f[u \ {Max(u)}], s[Max(u)])]
           f == CHOOSE f : Folds(f)
           acc == [i \in 0 .. n |-> f[1 .. i]]
<1>1. n \in Nat /\ DOMAIN s = 1 .. n
  OBVIOUS
<1>2. FoldLeft(Kept, base, s) = f[1 .. n]
  BY <1>1 DEF FoldLeft, MapThenFoldSet
<1>3. base \in T /\ \A a \in T, i \in 1 .. n : Kept(a, s[i]) \in T
  BY DEF Kept
<1> HIDE DEF n, T, base
<1>4. step \in [T \X (1 .. n) -> T] /\ \A a \in T, i \in 1 .. n : step[<<a, i>>] = Kept(a, s[i])
  BY <1>3
<1> HIDE DEF step
<1>5. PICK g : IsFold(g, n, T, base, step)
  BY <1>1, <1>3, <1>4, FoldExists
<1>6. Folds(g)
  <2>1. ASSUME NEW u \in SUBSET (1 .. n), u # {}
        PROVE  u \ {Max(u)} \in SUBSET (1 .. n) /\ Max(u) \in 1 .. n
    BY <1>1, <2>1, MaxIsMember
  <2>2. ASSUME NEW u \in SUBSET (1 .. n)
        PROVE  g[u] = IF u = {} THEN base ELSE Kept(g[u \ {Max(u)}], s[Max(u)])
    BY <1>4, <1>5, <2>1, Zenon DEF IsFold
  <2>3. QED
    BY <1>5, <2>2, Zenon DEF IsFold
<1>7. Folds(f)
  BY <1>6, Zenon
<1> HIDE DEF f
<1>8. ASSUME NEW u \in SUBSET (1 .. n)
      PROVE  f[u] = IF u = {} THEN base ELSE Kept(f[u \ {Max(u)}], s[Max(u)])
  BY <1>7, Zenon
<1> HIDE DEF Folds
<1>9. acc[0] = base
  <2>1. 1 .. 0 = {} /\ 0 \in 0 .. n
    BY <1>1
  <2>2. QED
    BY <1>8, <2>1, Zenon
<1>10. ASSUME NEW i \in 1 .. n PROVE acc[i] = Kept(acc[i - 1], s[i])
  <2>1. i \in Nat \ {0} /\ i \in 0 .. n /\ i - 1 \in 0 .. n /\ 1 .. i \in SUBSET (1 .. n)
    BY <1>1
  <2>2. QED
    BY <1>8, <2>1, LastOfPositions, Zenon
<1>11. acc[n] = f[1 .. n]
  <2>1. n \in 0 .. n
    BY <1>1
  <2>2. QED
    BY <2>1, Zenon
<1>12. QED
  BY <1>2, <1>9, <1>10, <1>11, Zenon DEF n, base

Levels == {"note", "warning", "error"}

\* A member of a list.
Has(a, v) == \E p \in DOMAIN a : a[p] = v

\* One more member.
LEMMA AppendedMembers ==
    ASSUME NEW V, NEW a \in Seq(V), NEW x \in V
    PROVE  /\ Append(a, x) \in Seq(V)
           /\ \A v : Has(Append(a, x), v) <=> v = x \/ Has(a, v)
<1> DEFINE c == Append(a, x)
<1>1. /\ Len(a) \in Nat /\ DOMAIN a = 1 .. Len(a) /\ DOMAIN c = 1 .. Len(a) + 1
      /\ c \in Seq(V) /\ c[Len(a) + 1] = x /\ \A p \in 1 .. Len(a) : c[p] = a[p]
  OBVIOUS
<1> HIDE DEF c
<1>2. \A p \in 1 .. Len(a) + 1 : p = Len(a) + 1 \/ p \in 1 .. Len(a)
  BY <1>1
<1>3. Len(a) + 1 \in 1 .. Len(a) + 1 /\ \A p \in 1 .. Len(a) : p \in 1 .. Len(a) + 1
  BY <1>1
<1>4. \A v : Has(c, v) <=> v = x \/ Has(a, v)
  BY <1>1, <1>2, <1>3, Zenon DEF Has
<1>5. QED
  BY <1>1, <1>4, Zenon DEF c

\* What is kept of a list is what is not None.
LEMMA KeptMembers ==
    ASSUME NEW V, NEW s \in Seq(V)
    PROVE  \A v : Has(FoldLeft(Kept, <<>>, s), v) <=> v # None /\ Has(s, v)
<1> DEFINE n == Len(s)
           out == FoldLeft(Kept, <<>>, s)
           Gives(i, v) == v # None /\ \E q \in 1 .. i : s[q] = v
<1>1. n \in Nat /\ DOMAIN s = 1 .. n /\ \A i \in 1 .. n : s[i] \in V
  OBVIOUS
<1>2. <<>> \in Seq(V) /\ \A v : ~Has(<<>>, v)
  BY DEF Has
<1>3. PICK acc : acc[0] = <<>> /\ (\A i \in 1 .. n : acc[i] = Kept(acc[i - 1], s[i])) /\ out = acc[n]
  BY KeptIsRun, Zenon
<1> DEFINE S == {i \in 0 .. n : acc[i] \in Seq(V) /\ \A v : Has(acc[i], v) <=> Gives(i, v)}
<1> HIDE DEF n, out
<1>4. 0 \in S
  <2>1. 0 \in 0 .. n /\ 1 .. 0 = {}
    BY <1>1
  <2>2. QED
    BY <1>2, <1>3, <2>1, Zenon
<1>5. ASSUME NEW i \in 1 .. n, i - 1 \in S PROVE i \in S
  <2>1. i \in 0 .. n /\ i \in 1 .. i /\ \A q \in 1 .. i : q = i \/ q \in 1 .. i - 1
    BY <1>1
  <2>2. \A q \in 1 .. i - 1 : q \in 1 .. i
    BY <1>1
  <2>3. acc[i - 1] \in Seq(V) /\ \A v : Has(acc[i - 1], v) <=> Gives(i - 1, v)
    BY <1>5, Zenon
  <2>4. \A v : Gives(i, v) <=> Gives(i - 1, v) \/ (v # None /\ v = s[i])
    BY <2>1, <2>2, Zenon
  <2>5. CASE s[i] = None
    <3>1. acc[i] = acc[i - 1]
      BY <1>3, <2>5, Zenon DEF Kept
    <3>2. QED
      BY <2>1, <2>3, <2>4, <2>5, <3>1, Zenon
  <2>6. CASE s[i] # None
    <3>1. acc[i] = Append(acc[i - 1], s[i])
      BY <1>3, <2>6, Zenon DEF Kept
    <3> DEFINE a == acc[i - 1]
               x == s[i]
    <3>0. a \in Seq(V) /\ x \in V
      BY <1>1, <2>3, Zenon
    <3> HIDE DEF a, x
    <3>1a. Append(a, x) \in Seq(V) /\ \A v : Has(Append(a, x), v) <=> v = x \/ Has(a, v)
      BY <3>0, AppendedMembers, Zenon
    <3>2. acc[i] \in Seq(V) /\ \A v : Has(acc[i], v) <=> v = s[i] \/ Has(acc[i - 1], v)
      BY <3>1, <3>1a, Zenon DEF a, x
    <3>3. \A v : Has(acc[i], v) <=> Gives(i, v)
      BY <2>3, <2>4, <2>6, <3>2, Zenon
    <3>4. QED
      BY <2>1, <3>2, <3>3, Zenon
  <2>7. QED
    BY <2>5, <2>6
<1> HIDE DEF S
<1>6. n \in S
  BY <1>1, <1>4, <1>5, PositionInduction, Zenon
<1>7. \A v : Has(out, v) <=> Gives(n, v)
  BY <1>3, <1>6, Zenon DEF S
<1>8. QED
  BY <1>1, <1>7, Zenon DEF out, Has

\* The level of a result is the first that is given of its own, its rule's
\* and "warning".
LEMMA LevelIsResolved ==
    ASSUME NEW doc, NEW i, NEW j, None \notin Levels
    PROVE  Level(doc, i, j) = ResolvedLevel(doc[i].results[j], doc[i].rules)
<1> DEFINE result == doc[i].results[j]
           rules == doc[i].rules
           own == result.level
           default == IF result.rule \in DOMAIN rules THEN rules[result.rule] ELSE None
           levels == <<own, default, "warning">>
           given == {n \in 1 .. 3 : levels[n] # None}
           first == CHOOSE n \in given : \A m \in given : n <= m
<1>1. Level(doc, i, j) = levels[first]
  BY DEF Level
<1>2. ResolvedLevel(result, rules) = IF own # None THEN own ELSE IF default # None THEN default ELSE "warning"
  BY DEF ResolvedLevel
<1>4. levels[1] = own /\ levels[2] = default /\ levels[3] = "warning" /\ None # "warning"
  BY DEF Levels
<1> HIDE DEF levels, own, default, result, rules
<1>3. ASSUME NEW a \in 1 .. 3, levels[a] # None, \A b \in 1 .. 3 : levels[b] # None => a <= b
      PROVE  first = a
  <2>1. \A b \in given : (\A m \in given : b <= m) => b = a
    BY <1>3
  <2>2. a \in given /\ \A m \in given : a <= m
    BY <1>3
  <2>3. QED
    BY <2>1, <2>2
<1> HIDE DEF first, given
<1>5. CASE own # None
  <2>1. first = 1
    BY <1>3, <1>4, <1>5
  <2>2. QED
    BY <1>1, <1>2, <1>4, <1>5, <2>1 DEF result, rules
<1>6. CASE own = None /\ default # None
  <2>1. first = 2
    BY <1>3, <1>4, <1>6
  <2>2. QED
    BY <1>1, <1>2, <1>4, <1>6, <2>1 DEF result, rules
<1>7. CASE own = None /\ default = None
  <2>1. first = 3
    BY <1>3, <1>4, <1>7
  <2>2. QED
    BY <1>1, <1>2, <1>4, <1>7, <2>1 DEF result, rules
<1>8. QED
  BY <1>5, <1>6, <1>7

\* A result counts, by the normaliser's passes and by the document, alike.
LEMMA CountsAlike ==
    ASSUME NEW doc, NEW i, NEW j, NEW min, None \notin Levels
    PROVE  LET v == ViolationOf(doc[i].results[j], doc[i].rules)
           IN  v # None /\ LevelGte(v, min)
                 <=> /\ doc[i].results[j] # None
                     /\ \/ Level(doc, i, j) = "error"
                        \/ Level(doc, i, j) = "note" /\ min = "note"
                        \/ Level(doc, i, j) \notin {"error", "note", "none"} /\ min # "error"
<1> DEFINE result == doc[i].results[j]
           level == ResolvedLevel(result, doc[i].rules)
           v == ViolationOf(result, doc[i].rules)
<1>1. level = Level(doc, i, j)
  BY LevelIsResolved
<1>2. v = IF result = None \/ level = "none" THEN None ELSE Known(level)
  BY DEF ViolationOf
<1>3. DOMAIN LevelOrder = Levels
  BY DEF LevelOrder, Levels
<1>4. /\ Known(level) = IF level \in Levels THEN level ELSE "warning"
      /\ Known(min) = IF min \in Levels THEN min ELSE "warning"
      /\ Known(Known(level)) = Known(level) /\ Known(level) \in Levels
  BY <1>3 DEF Known, Levels
<1>5. LevelGte(Known(level), min) <=> LevelOrder[Known(level)] >= LevelOrder[Known(min)]
  BY <1>4 DEF LevelGte
<1>6. LevelOrder["note"] = 0 /\ LevelOrder["warning"] = 1 /\ LevelOrder["error"] = 2
  BY DEF LevelOrder
<1> HIDE DEF level, v, result
<1>7. LevelGte(Known(level), min) <=>
         \/ level = "error"
         \/ level = "note" /\ min = "note"
         \/ level \notin {"error", "note"} /\ min # "error"
  BY <1>4, <1>5, <1>6 DEF Levels
<1>8. Known(level) # None
  BY <1>4
<1>9. v # None /\ LevelGte(v, min) <=>
         /\ result # None
         /\ \/ level = "error"
            \/ level = "note" /\ min = "note"
            \/ level \notin {"error", "note", "none"} /\ min # "error"
  BY <1>2, <1>7, <1>8
<1>10. QED
  BY <1>1, <1>9 DEF v, result

\* The results of the runs before a run are as many as its offset in the
\* flattened list.
LEMMA OffsetsCount ==
    ASSUME NEW n \in Nat, NEW doc, NEW flat, Len(flat[0]) = 0,
           \A k \in 1 .. n : \E m \in Nat : Listed(doc[k]) = 1 .. m /\ Len(flat[k]) = Len(flat[k - 1]) + m
    PROVE  \A k \in 1 .. n : Len(flat[k - 1]) = Cardinality(ListedBefore(doc, k))
<1> DEFINE U(k) == UNION {{r} \X Listed(doc[r]) : r \in 1 .. k}
           S == {k \in 0 .. n : IsFiniteSet(U(k)) /\ Len(flat[k]) = Cardinality(U(k))}
<1>1. 0 \in S
  <2>1. U(0) = {} /\ 0 \in 0 .. n /\ Len(flat[0]) = 0
    OBVIOUS
  <2>2. QED
    BY <2>1, FS_EmptySet, Zenon
<1>2. ASSUME NEW k \in 1 .. n, k - 1 \in S PROVE k \in S
  <2>1. PICK m \in Nat : Listed(doc[k]) = 1 .. m /\ Len(flat[k]) = Len(flat[k - 1]) + m
    OBVIOUS
  <2> DEFINE W == {k} \X (1 .. m)
  <2>2. IsFiniteSet(W) /\ Cardinality(W) = m
    <3>1. IsFiniteSet(1 .. m) /\ Cardinality(1 .. m) = m
      BY FS_Interval
    <3>2. IsFiniteSet({k}) /\ Cardinality({k}) = 1
      BY FS_Singleton
    <3>3. IsFiniteSet(W) /\ Cardinality(W) = 1 * m
      BY <3>1, <3>2, FS_Product
    <3>4. QED
      BY <3>3
  <2>3. U(k) = U(k - 1) \cup W
    <3>1. \A r : r \in 1 .. k <=> r \in 1 .. k - 1 \/ r = k
      OBVIOUS
    <3>2. \A x : x \in U(k) <=> \E r \in 1 .. k : x \in {r} \X Listed(doc[r])
      BY Zenon
    <3>3. \A x : x \in U(k - 1) <=> \E r \in 1 .. k - 1 : x \in {r} \X Listed(doc[r])
      BY Zenon
    <3>4. \A x : x \in W <=> x \in {k} \X Listed(doc[k])
      BY <2>1, Zenon
    <3> HIDE DEF U, W
    <3>5. \A x : x \in U(k) <=> x \in U(k - 1) \/ x \in W
      BY <3>1, <3>2, <3>3, <3>4, Zenon
    <3>6. QED
      BY <3>5, Zenon
  <2>4. U(k - 1) \cap W = {}
    <3>1. k \notin 1 .. k - 1
      OBVIOUS
    <3>2. QED
      BY <3>1
  <2>5. IsFiniteSet(U(k - 1)) /\ Len(flat[k - 1]) = Cardinality(U(k - 1))
    BY <1>2
  <2> HIDE DEF U, W
  <2>6. IsFiniteSet(U(k)) /\ Cardinality(U(k)) = Cardinality(U(k - 1)) + m
    <3>1. Cardinality({}) = 0 /\ Cardinality(U(k - 1)) \in Nat
      BY <2>5, FS_EmptySet, FS_CardinalityType
    <3>2. IsFiniteSet(U(k - 1) \cup W) /\ Cardinality(U(k - 1) \cup W) =
             Cardinality(U(k - 1)) + Cardinality(W) - Cardinality(U(k - 1) \cap W)
      BY <2>2, <2>5, FS_Union, Zenon
    <3>3. IsFiniteSet(U(k)) /\ Cardinality(U(k)) = Cardinality(U(k - 1)) + m - 0
      BY <2>2, <2>3, <2>4, <3>1, <3>2, Zenon
    <3>4. Cardinality(U(k - 1)) + m - 0 = Cardinality(U(k - 1)) + m
      BY <3>1
    <3>5. QED
      BY <3>3, <3>4, Zenon
  <2>7. QED
    BY <2>1, <2>5, <2>6
<1> HIDE DEF S
<1>3. \A k \in 0 .. n : k \in S
  BY <1>1, <1>2, PositionInduction, Zenon
<1>4. \A k \in 1 .. n : k - 1 \in S
  BY <1>3
<1>5. QED
  BY <1>4, Zenon DEF S, ListedBefore

\* Taking the first of a list.
LEMMA FirstMembers ==
    ASSUME NEW V, NEW s \in Seq(V), NEW n \in Nat
    PROVE  /\ First(n, s) \in Seq(V)
           /\ \A p : p \in DOMAIN First(n, s) <=> p \in DOMAIN s /\ p <= n
           /\ \A p \in DOMAIN First(n, s) : First(n, s)[p] = s[p]
  BY DEF First

\* A list is a sequence of its members.
LEMMA ListIsSequence ==
    ASSUME NEW s, IsList(s)
    PROVE  Len(s) \in Nat /\ DOMAIN s = 1 .. Len(s) /\ s \in Seq({s[i] : i \in 1 .. Len(s)})
<1> DEFINE T == {s[i] : i \in 1 .. Len(s)}
<1>1. Len(s) \in Nat /\ s = [i \in 1 .. Len(s) |-> s[i]]
  BY DEF IsList
<1>2. s \in [1 .. Len(s) -> T]
  BY <1>1
<1>3. DOMAIN s = 1 .. Len(s)
  BY <1>1
<1> HIDE DEF T
<1>4. s \in Seq(T)
  BY <1>1, <1>2
<1>5. QED
  BY <1>1, <1>3, <1>4 DEF T

\* A run is converted result by result.
LEMMA ConvertedMembers ==
    ASSUME NEW run, run # None => run.results = None \/ IsList(run.results)
    PROVE  LET c == ConvertedRun(run)
           IN  /\ c \in Seq(Levels \cup {None}) /\ DOMAIN c = Listed(run)
               /\ \E m \in Nat : Listed(run) = 1 .. m /\ Len(c) = m
               /\ \A j \in Listed(run) : c[j] = ViolationOf(run.results[j], run.rules)
<1> DEFINE c == ConvertedRun(run)
           V == Levels \cup {None}
<1>1. CASE run = None \/ run.results = None
  <2>1. c = <<>> /\ Listed(run) = {}
    BY <1>1 DEF ConvertedRun, Listed
  <2>2. {} = 1 .. 0 /\ 0 \in Nat
    OBVIOUS
  <2>3. QED
    BY <2>1, <2>2
<1>2. CASE run # None /\ run.results # None
  <2> DEFINE m == Len(run.results)
  <2>1. m \in Nat /\ DOMAIN run.results = 1 .. m
    BY <1>2, ListIsSequence
  <2>2. c = [i \in 1 .. m |-> ViolationOf(run.results[i], run.rules)] /\ Listed(run) = 1 .. m
    BY <1>2, <2>1 DEF ConvertedRun, Listed
  <2>3. \A r, rules : ViolationOf(r, rules) \in V
    <3>1. DOMAIN LevelOrder = Levels /\ "warning" \in Levels
      BY DEF LevelOrder, Levels
    <3>2. QED
      BY <3>1 DEF ViolationOf, Known
  <2> HIDE DEF m, V, c
  <2>4. c \in [1 .. m -> V]
    BY <2>2, <2>3
  <2>5. c \in Seq(V) /\ Len(c) = m
    BY <2>1, <2>4
  <2>6. QED
    BY <2>1, <2>2, <2>5 DEF c, V
<1>3. QED
  BY <1>1, <1>2

\* Whatever the caps, the minimal level and the report, malformed parts
\* included: parse_sarif and compute_result fail exactly the reports that say
\* something of that level, a result of a run's own rule among them.
THEOREM NormaliserReads ==
    ASSUME NEW doc, IsDocument(doc), NEW min, None \notin Levels
    PROVE  ComputeResult(ParseSarif(doc), min) = "fail" <=> Reported(doc, min)
<1> DEFINE V == Levels \cup {None}
           first == First(MaxRuns, doc)
           n == Len(first)
           ss == [i \in DOMAIN first |-> ConvertedRun(first[i])]
           all == FlattenSeq(ss)
           capped == First(MaxResults, all)
           out == FoldLeft(Kept, <<>>, capped)
           Fails(v) == v # None /\ LevelGte(v, min)
<1>1. /\ n \in Nat /\ DOMAIN first = 1 .. n
      /\ \A i : i \in 1 .. n <=> i \in DOMAIN doc /\ i <= MaxRuns
      /\ \A i \in 1 .. n : first[i] = doc[i]
  <2> DEFINE D == {doc[i] : i \in 1 .. Len(doc)}
  <2>1. doc \in Seq(D)
    BY ListIsSequence DEF IsDocument
  <2>0. MaxRuns \in Nat
    BY CapsAssumption
  <2> HIDE DEF D
  <2>2. /\ first \in Seq(D)
        /\ \A p : p \in DOMAIN first <=> p \in DOMAIN doc /\ p <= MaxRuns
        /\ \A p \in DOMAIN first : first[p] = doc[p]
    BY <2>1, <2>0, FirstMembers, Zenon
  <2> HIDE DEF first
  <2>3. n \in Nat /\ DOMAIN first = 1 .. n
    BY <2>2
  <2>4. QED
    BY <2>2, <2>3, Zenon
<1>2. ASSUME NEW i \in 1 .. n
      PROVE  /\ doc[i] # None => doc[i].results = None \/ IsList(doc[i].results)
             /\ ss[i] = ConvertedRun(doc[i])
  BY <1>1 DEF IsDocument
<1> HIDE DEF first, V
<1>3. ASSUME NEW i \in 1 .. n
      PROVE  /\ ss[i] \in Seq(V) /\ DOMAIN ss[i] = Listed(doc[i])
             /\ \E m \in Nat : Listed(doc[i]) = 1 .. m /\ Len(ss[i]) = m
             /\ \A j \in Listed(doc[i]) : ss[i][j] = ViolationOf(doc[i].results[j], doc[i].rules)
  BY <1>2, ConvertedMembers, Zenon DEF V
<1>4. ss \in Seq(Seq(V)) /\ Len(ss) = n
  <2> DEFINE T == Seq(V)
  <2>1. ss \in [1 .. n -> T]
    BY <1>1, <1>3, Zenon
  <2> HIDE DEF T, ss, n
  <2>2. ss \in Seq(T) /\ Len(ss) = n
    BY <1>1, <2>1
  <2>3. QED
    BY <2>2 DEF T
<1> HIDE DEF ss, n
<1>5. PICK flat : IsConcatenation(flat, n, Seq(V), <<>>, ss) /\ all = flat[n]
  BY <1>4, FlattenIsRun, Zenon
<1> HIDE DEF all
<1>6. /\ DOMAIN flat[0] = {} /\ Len(flat[0]) = 0
      /\ \A i \in 0 .. n : flat[i] \in Seq(V)
  <2>1. flat[0] = <<>> /\ \A i \in 0 .. n : flat[i] \in Seq(V)
    BY <1>5, Zenon DEF IsConcatenation
  <2>2. QED
    BY <2>1
<1>7. ASSUME NEW i \in 1 .. n
      PROVE  i - 1 \in 0 .. n /\ i \in 0 .. n /\ flat[i - 1] \in Seq(V) /\ flat[i] = flat[i - 1] \o ss[i]
  <2>1. i - 1 \in 0 .. n /\ i \in 0 .. n
    BY <1>1
  <2>2. QED
    BY <1>5, <2>1, Zenon DEF IsConcatenation
<1>8. ASSUME NEW i \in 1 .. n
      PROVE  InARow(flat[i - 1], ss[i], flat[i]) /\ Len(flat[i]) = Len(flat[i - 1]) + Len(ss[i])
  <2>1. flat[i - 1] \in Seq(V) /\ ss[i] \in Seq(V) /\ flat[i] = flat[i - 1] \o ss[i]
    BY <1>3, <1>7, Zenon
  <2>2. InARow(flat[i - 1], ss[i], flat[i])
    BY <2>1, PlacesInARow, Zenon
  <2>3. QED
    BY <2>1, <2>2, ConcatProperties
<1>9. /\ \A i \in 1 .. n : \A j \in DOMAIN ss[i] :
            /\ Len(flat[i - 1]) + j \in DOMAIN all
            /\ all[Len(flat[i - 1]) + j] = ss[i][j]
      /\ \A p \in DOMAIN all : \E i \in 1 .. n : \E j \in DOMAIN ss[i] :
            p = Len(flat[i - 1]) + j
  <2>1. \A k \in 1 .. n : InARow(flat[k - 1], ss[k], flat[k])
    BY <1>8, Zenon
  <2>2. KeepsPlaces(flat, ss, n)
    <3>1. n \in Nat /\ DOMAIN flat[0] = {}
      BY <1>1, <1>6, Zenon
    <3>2. QED
      BY <2>1, <3>1, FlattenKeepsPlaces, Zenon
  <2>3. QED
    BY <1>5, <2>2, Zenon DEF KeepsPlaces
<1>10. ASSUME NEW i \in 1 .. n, NEW j \in Listed(doc[i]) PROVE ResultsBefore(doc, i, j) = Len(flat[i - 1]) + j
  <2>1. \A k \in 1 .. n : \E m \in Nat : Listed(doc[k]) = 1 .. m /\ Len(flat[k]) = Len(flat[k - 1]) + m
    BY <1>3, <1>8, Zenon
  <2>2. \A k \in 1 .. n : Len(flat[k - 1]) = Cardinality(ListedBefore(doc, k))
    <3>1. n \in Nat /\ Len(flat[0]) = 0
      BY <1>1, <1>6, Zenon
    <3>2. QED
      BY <2>1, <3>1, OffsetsCount, Zenon
  <2>3. QED
    BY <2>2, Zenon DEF ResultsBefore
<1>11. /\ \A p : p \in DOMAIN capped <=> p \in DOMAIN all /\ p <= MaxResults
       /\ \A p \in DOMAIN capped : capped[p] = all[p]
       /\ capped \in Seq(V)
  <2>1. n \in 0 .. n
    BY <1>1
  <2>2. all \in Seq(V)
    BY <1>5, <1>6, <2>1, Zenon
  <2>3. QED
    BY <2>2, CapsAssumption, FirstMembers, Zenon
<1>12. \A v : Has(out, v) <=> v # None /\ Has(capped, v)
  BY <1>11, KeptMembers, Zenon
<1>13. ComputeResult(ParseSarif(doc), min) = "fail" <=> \E i \in DOMAIN out : LevelGte(out[i], min)
  <2>1. ParseSarif(doc) = out
    BY Zenon DEF ParseSarif, first, ss, all, n
  <2>2. QED
    BY <2>1 DEF ComputeResult
<1> HIDE DEF out, capped
<1>14. (\E i \in DOMAIN out : LevelGte(out[i], min)) <=> \E p \in DOMAIN all : p <= MaxResults /\ Fails(all[p])
  <2>1. (\E i \in DOMAIN out : LevelGte(out[i], min)) <=> \E v : Has(out, v) /\ LevelGte(v, min)
    BY Zenon DEF Has
  <2>2. (\E v : v # None /\ Has(capped, v) /\ LevelGte(v, min))
           <=> \E p \in DOMAIN capped : Fails(capped[p])
    BY Zenon DEF Has
  <2>3. QED
    BY <1>11, <1>12, <2>1, <2>2, Zenon
<1>15. (\E p \in DOMAIN all : p <= MaxResults /\ Fails(all[p]))
         <=> \E i \in 1 .. n : \E j \in Listed(doc[i]) :
                Len(flat[i - 1]) + j <= MaxResults /\ Fails(ViolationOf(doc[i].results[j], doc[i].rules))
  <2>1. ASSUME NEW p \in DOMAIN all, p <= MaxResults, Fails(all[p])
        PROVE  \E i \in 1 .. n : \E j \in Listed(doc[i]) :
                Len(flat[i - 1]) + j <= MaxResults /\ Fails(ViolationOf(doc[i].results[j], doc[i].rules))
    <3> HIDE DEF Fails
    <3>1. PICK i \in 1 .. n : \E j \in DOMAIN ss[i] : p = Len(flat[i - 1]) + j
      BY <1>9, Zenon
    <3>2. PICK j \in DOMAIN ss[i] : p = Len(flat[i - 1]) + j
      BY <3>1, Zenon
    <3>3. all[p] = ss[i][j]
      BY <1>9, <3>2, Zenon
    <3>4. j \in Listed(doc[i]) /\ ss[i][j] = ViolationOf(doc[i].results[j], doc[i].rules)
      BY <1>3, Zenon
    <3>5. QED
      BY <2>1, <3>2, <3>3, <3>4, Zenon
  <2>2. ASSUME NEW i \in 1 .. n, NEW j \in Listed(doc[i]), Len(flat[i - 1]) + j <= MaxResults,
               Fails(ViolationOf(doc[i].results[j], doc[i].rules))
        PROVE  \E p \in DOMAIN all : p <= MaxResults /\ Fails(all[p])
    <3> HIDE DEF Fails
    <3>1. j \in DOMAIN ss[i] /\ ss[i][j] = ViolationOf(doc[i].results[j], doc[i].rules)
      BY <1>3, Zenon
    <3>2. Len(flat[i - 1]) + j \in DOMAIN all /\ all[Len(flat[i - 1]) + j] = ss[i][j]
      BY <1>9, <3>1, Zenon
    <3>3. QED
      BY <2>2, <3>1, <3>2, Zenon
  <2>3. QED
    BY <2>1, <2>2, Zenon
<1> DEFINE Counts(i, j) ==
             /\ doc[i].results[j] # None
             /\ \/ Level(doc, i, j) = "error"
                \/ Level(doc, i, j) = "note" /\ min = "note"
                \/ Level(doc, i, j) \notin {"error", "note", "none"} /\ min # "error"
<1>16. \A i, j : Fails(ViolationOf(doc[i].results[j], doc[i].rules)) <=> Counts(i, j)
  BY CountsAlike, Zenon
<1>17. Reported(doc, min) <=>
         \E i \in 1 .. n : \E j \in Listed(doc[i]) : Len(flat[i - 1]) + j <= MaxResults /\ Counts(i, j)
  <2>1. Reported(doc, min) <=>
          \E i \in DOMAIN doc : i <= MaxRuns /\ \E j \in Listed(doc[i]) :
             ResultsBefore(doc, i, j) <= MaxResults /\ Counts(i, j)
    <3>1. ASSUME NEW i \in DOMAIN doc
          PROVE \A j : j \in Listed(doc[i]) <=> doc[i] # None /\ doc[i].results # None /\ j \in DOMAIN doc[i].results
      BY DEF Listed
    <3>2. QED
      BY <3>1, Zenon DEF Reported
  <2>2. QED
    BY <1>1, <1>10, <2>1, Zenon
<1>18. QED
  BY <1>13, <1>14, <1>15, <1>16, <1>17, Zenon

----------------------------------------------------------------------------
\* The catalogue importers

\* The providers of an imported check are those of its resource types, be it
\* listed by the tool or built in.
Checks == {c \in ListedChecks : c.providers = InferProviders(c.resource_types)}
NamedLines == [key : {"Check", "ID", "Description"}, value : CheckIds]
PrintedLines == NamedLines \cup [key : {"Supported resources"}, value : ResourceSets]
Readings == [checks : Seq(Checks), current : Checks \cup {None}]
NothingRead == [checks |-> <<>>, current |-> None]

\* A header makes a check that names nothing yet.
LEMMA NewChecksAreChecks ==
    ASSUME NEW id \in CheckIds
    PROVE  NewCheck(id) \in Checks
<1>1. InferProviders({}) = {}
  BY DEF InferProviders
<1>2. QED
  BY <1>1 DEF NewCheck, Checks, ListedChecks

\* What a listed set of types stands for is among what all of them stand for.
LEMMA InferredProviders ==
    ASSUME NEW types \in ResourceSets
    PROVE  types \in SUBSET ListedTypes /\ InferProviders(types) \in SUBSET InferProviders(ListedTypes)
<1>1. types \in SUBSET ListedTypes
  BY DEF ListedTypes
<1>2. QED
  BY <1>1 DEF InferProviders

\* The check that is read is filed; none is dropped for want of an id, for a
\* listed line gives one.
LEMMA FlushedChecks ==
    ASSUME NEW a \in Readings
    PROVE  /\ a.checks \in Seq(Checks) /\ a.current \in Checks \cup {None}
           /\ Flush(a.checks, a.current) =
                IF a.current = None THEN a.checks ELSE Append(a.checks, a.current)
           /\ Flush(a.checks, a.current) \in Seq(Checks)
<1>1. a.checks \in Seq(Checks) /\ a.current \in Checks \cup {None}
  BY DEF Readings
<1>2. a.current # None => a.current.id # None
  BY <1>1, AbsenceAssumption DEF Checks, ListedChecks
<1>3. Flush(a.checks, a.current) =
        IF a.current = None THEN a.checks ELSE Append(a.checks, a.current)
  BY <1>2 DEF Flush
<1>4. QED
  BY <1>1, <1>3

\* A line leads from a reading to a reading.
LEMMA LinesAreRead ==
    ASSUME NEW a \in Readings, NEW line \in PrintedLines
    PROVE  ReadLine(a, line) \in Readings
<1>1. a.checks \in Seq(Checks) /\ a.current \in Checks \cup {None}
      /\ a = [checks |-> a.checks, current |-> a.current]
      /\ Flush(a.checks, a.current) \in Seq(Checks)
  BY FlushedChecks DEF Readings
<1> DEFINE Reading(checks, current) == [checks |-> checks, current |-> current]
<1>2. \A checks \in Seq(Checks), current \in Checks \cup {None} : Reading(checks, current) \in Readings
  BY DEF Readings
<1>3. CASE line.key = "Check"
  <2>1. line.value \in CheckIds
    BY <1>3 DEF PrintedLines, NamedLines
  <2>2. ReadLine(a, line) = Reading(Flush(a.checks, a.current), NewCheck(line.value))
    BY <1>3 DEF ReadLine
  <2>3. QED
    BY <1>1, <1>2, <2>1, <2>2, NewChecksAreChecks
<1>4. CASE line.key # "Check" /\ a.current = None
  BY <1>4 DEF ReadLine
<1>5. CASE line.key = "ID" /\ a.current # None
  <2> DEFINE c == [a.current EXCEPT !.id = line.value]
  <2>1. line.value \in CheckIds
    BY <1>5 DEF PrintedLines, NamedLines
  <2>2. ReadLine(a, line) = Reading(a.checks, c)
    BY <1>1, <1>5 DEF ReadLine
  <2>3. c \in Checks
    BY <1>1, <1>5, <2>1 DEF Checks, ListedChecks
  <2>4. QED
    BY <1>1, <1>2, <2>2, <2>3
<1>6. CASE line.key = "Description" /\ a.current # None
  <2> DEFINE c == [a.current EXCEPT !.title = line.value]
  <2>1. line.value \in CheckIds
    BY <1>6 DEF PrintedLines, NamedLines
  <2>2. ReadLine(a, line) = Reading(a.checks, c)
    BY <1>1, <1>6 DEF ReadLine
  <2>3. c \in Checks
    BY <1>1, <1>6, <2>1 DEF Checks, ListedChecks
  <2>4. QED
    BY <1>1, <1>2, <2>2, <2>3
<1>7. CASE line.key = "Supported resources" /\ a.current # None
  <2> DEFINE c == WithResources(a.current, line.value)
  <2>1. line.value \in ResourceSets
    BY <1>7 DEF PrintedLines, NamedLines
  <2>2. ReadLine(a, line) = Reading(a.checks, c)
    BY <1>1, <1>7 DEF ReadLine
  <2>3. c \in Checks
    BY <1>1, <1>7, <2>1, InferredProviders DEF Checks, ListedChecks, WithResources
  <2>4. QED
    BY <1>1, <1>2, <2>2, <2>3
<1>8. line.key \in {"Check", "ID", "Description", "Supported resources"}
  BY DEF PrintedLines, NamedLines
<1>9. QED
  BY <1>3, <1>4, <1>5, <1>6, <1>7, <1>8

\* The parser reads a listing line by line.
ReadInTurn(acc, lines) ==
    acc[0] = NothingRead /\ \A i \in 1 .. Len(lines) : acc[i] = ReadLine(acc[i - 1], lines[i])

LEMMA ListingIsRead ==
    ASSUME NEW s \in Seq(PrintedLines)
    PROVE  \E acc : ReadInTurn(acc, s)
                    /\ FoldLeft(ReadLine, NothingRead, s) = acc[Len(s)]
<1> DEFINE n == Len(s)
           T == Readings
           base == NothingRead
           step == [p \in T \X (1 .. n) |-> ReadLine(p[1], s[p[2]])]
           Folds(f) == f = [u \in SUBSET (1 .. n) |->
                              IF u = {} THEN base ELSE ReadLine(f[u \ {Max(u)}], s[Max(u)])]
           f == CHOOSE f : Folds(f)
           acc == [i \in 0 .. n |-> f[1 .. i]]
<1>1. n \in Nat /\ DOMAIN s = 1 .. n /\ \A i \in 1 .. n : s[i] \in PrintedLines
  OBVIOUS
<1>2. FoldLeft(ReadLine, base, s) = f[1 .. n]
  BY <1>1 DEF FoldLeft, MapThenFoldSet
<1>3. base \in T /\ \A a \in T, i \in 1 .. n : ReadLine(a, s[i]) \in T
  <2>1. base \in T
    BY DEF NothingRead, Readings
  <2>2. QED
    BY <1>1, <2>1, LinesAreRead, Zenon
<1> HIDE DEF n, T, base
<1>4. step \in [T \X (1 .. n) -> T] /\ \A a \in T, i \in 1 .. n : step[<<a, i>>] = ReadLine(a, s[i])
  BY <1>3
<1> HIDE DEF step
<1>5. PICK g : IsFold(g, n, T, base, step)
  BY <1>1, <1>3, <1>4, FoldExists
<1>6. Folds(g)
  <2>1. ASSUME NEW u \in SUBSET (1 .. n), u # {}
        PROVE  u \ {Max(u)} \in SUBSET (1 .. n) /\ Max(u) \in 1 .. n
    BY <1>1, <2>1, MaxIsMember
  <2>2. ASSUME NEW u \in SUBSET (1 .. n)
        PROVE  g[u] = IF u = {} THEN base ELSE ReadLine(g[u \ {Max(u)}], s[Max(u)])
    BY <1>4, <1>5, <2>1, Zenon DEF IsFold
  <2>3. QED
    BY <1>5, <2>2, Zenon DEF IsFold
<1>7. Folds(f)
  BY <1>6, Zenon
<1> HIDE DEF f
<1>8. ASSUME NEW u \in SUBSET (1 .. n)
      PROVE  f[u] = IF u = {} THEN base ELSE ReadLine(f[u \ {Max(u)}], s[Max(u)])
  BY <1>7, Zenon
<1> HIDE DEF Folds
<1>9. acc[0] = base
  <2>1. 1 .. 0 = {} /\ 0 \in 0 .. n
    BY <1>1
  <2>2. QED
    BY <1>8, <2>1, Zenon
<1>10. ASSUME NEW i \in 1 .. n PROVE acc[i] = ReadLine(acc[i - 1], s[i])
  <2>1. i \in Nat \ {0} /\ i \in 0 .. n /\ i - 1 \in 0 .. n /\ 1 .. i \in SUBSET (1 .. n)
    BY <1>1
  <2>2. QED
    BY <1>8, <2>1, LastOfPositions, Zenon
<1>11. acc[n] = f[1 .. n]
  <2>1. n \in 0 .. n
    BY <1>1
  <2>2. QED
    BY <2>1, Zenon
<1>12. QED
  BY <1>2, <1>9, <1>10, <1>11, Zenon DEF n, base, ReadInTurn

\* What the lines of a block do to a reading, one kind of line after the other.
AtHeader(a, b) == IF b.header THEN ReadLine(a, Line("Check", b.id)) ELSE a
AtId(a, b) == IF b.confirm THEN ReadLine(a, Line("ID", b.id)) ELSE a
AtResources(a, b) ==
    IF b.resources = None THEN a ELSE ReadLine(a, Line("Supported resources", b.resources))
AtDescription(a, b) == ReadLine(a, Line("Description", b.id))
ReadBlock(a, b) == AtDescription(AtResources(AtId(AtHeader(a, b), b), b), b)

\* Lines that are read one after the other, from the position after m.
InTurnAfter(acc, m, lines) ==
    \A j \in 1 .. Len(lines) : acc[m + j] = ReadLine(acc[m + j - 1], lines[j])

Extended(lines, line, there) == lines \o (IF there THEN <<line>> ELSE <<>>)

ReadsOn(acc, m, V, lines, line, there) ==
    LET all == Extended(lines, line, there)
    IN  /\ all \in Seq(V)
        /\ InTurnAfter(acc, m, all) =>
             /\ InTurnAfter(acc, m, lines)
             /\ acc[m + Len(all)] = IF there THEN ReadLine(acc[m + Len(lines)], line)
                                    ELSE acc[m + Len(lines)]

\* A line at the end of others, if it is there, is read after them.
LEMMA LastIsRead ==
    ASSUME NEW V, NEW lines \in Seq(V), NEW line, NEW there, there => line \in V, NEW acc, NEW m \in Nat
    PROVE  ReadsOn(acc, m, V, lines, line, there)
<1> DEFINE n == Len(lines)
           all == Extended(lines, line, there)
<1>1. n \in Nat
  OBVIOUS
<1>2. CASE ~there
  <2>1. all = lines
    BY <1>2 DEF Extended
  <2>2. QED
    BY <1>2, <2>1 DEF ReadsOn
<1>3. CASE there
  <2>1. /\ all \in Seq(V) /\ Len(all) = n + 1
        /\ all[n + 1] = line /\ \A j \in 1 .. n : all[j] = lines[j]
    BY <1>3 DEF Extended
  <2> HIDE DEF all, n
  <2>2. ASSUME InTurnAfter(acc, m, all)
        PROVE  /\ \A j \in 1 .. n : acc[m + j] = ReadLine(acc[m + j - 1], lines[j])
               /\ acc[m + Len(all)] = ReadLine(acc[m + n], line)
    <3>1. \A j \in 1 .. n + 1 : acc[m + j] = ReadLine(acc[m + j - 1], all[j])
      BY <2>1, <2>2 DEF InTurnAfter
    <3>2. n + 1 \in 1 .. n + 1 /\ m + (n + 1) - 1 = m + n /\ \A j \in 1 .. n : j \in 1 .. n + 1
      BY <1>1
    <3>3. QED
      BY <2>1, <3>1, <3>2, Zenon
  <2>3. QED
    BY <1>3, <2>1, <2>2 DEF InTurnAfter, ReadsOn, n, all
<1>4. QED
  BY <1>2, <1>3

\* A block's lines lead from the reading before them to that of the block.
LEMMA BlockIsRead ==
    ASSUME NEW b \in Blocks, NEW acc, NEW m \in Nat
    PROVE  /\ LinesOf(b) \in Seq(PrintedLines)
           /\ InTurnAfter(acc, m, LinesOf(b)) => acc[m + Len(LinesOf(b))] = ReadBlock(acc[m], b)
<1> DEFINE V == PrintedLines
           c == Line("Check", b.id)
           i == Line("ID", b.id)
           r == Line("Supported resources", b.resources)
           d == Line("Description", b.id)
           none == <<>>
           h == Extended(none, c, b.header)
           k == Extended(h, i, b.confirm)
           l == Extended(k, r, b.resources # None)
           e == Extended(l, d, TRUE)
<1>1. c \in V /\ i \in V /\ d \in V /\ (b.resources # None => r \in V)
  BY DEF Blocks, Line, PrintedLines, NamedLines
<1>2. LinesOf(b) = e
  <2>1. h = IF b.header THEN <<c>> ELSE <<>>
    BY DEF Extended
  <2> HIDE DEF c
  <2>2. k = (IF b.header THEN <<c>> ELSE <<>>) \o (IF b.confirm THEN <<i>> ELSE <<>>)
    BY <2>1, Zenon DEF k, Extended
  <2> HIDE DEF h
  <2>3. QED
    BY <2>2, Zenon DEF LinesOf, Extended, c
<1>3. ReadBlock(acc[m], b) =
        LET x == IF b.header THEN ReadLine(acc[m], c) ELSE acc[m]
            y == IF b.confirm THEN ReadLine(x, i) ELSE x
            z == IF b.resources # None THEN ReadLine(y, r) ELSE y
        IN  ReadLine(z, d)
  BY DEF ReadBlock, AtHeader, AtId, AtResources, AtDescription
<1>4. none \in Seq(V) /\ m + Len(none) = m
  OBVIOUS
<1> HIDE DEF V, c, i, r, d, none
<1>5. ReadsOn(acc, m, V, none, c, b.header) /\ h \in Seq(V)
  <2>1. none \in Seq(V)
    BY <1>4
  <2>2. b.header => c \in V
    BY <1>1
  <2>3. ReadsOn(acc, m, V, none, c, b.header)
    BY <2>1, <2>2, LastIsRead, Zenon
  <2>4. QED
    BY <2>3, Zenon DEF ReadsOn
<1> HIDE DEF h
<1>6. ReadsOn(acc, m, V, h, i, b.confirm) /\ k \in Seq(V)
  <2>1. h \in Seq(V)
    BY <1>5
  <2>2. b.confirm => i \in V
    BY <1>1
  <2>3. ReadsOn(acc, m, V, h, i, b.confirm)
    BY <2>1, <2>2, LastIsRead, Zenon
  <2>4. QED
    BY <2>3, Zenon DEF ReadsOn
<1> HIDE DEF k
<1>7. ReadsOn(acc, m, V, k, r, b.resources # None) /\ l \in Seq(V)
  <2>1. k \in Seq(V)
    BY <1>6
  <2>2. b.resources # None => r \in V
    BY <1>1
  <2>3. ReadsOn(acc, m, V, k, r, b.resources # None)
    BY <2>1, <2>2, LastIsRead, Zenon
  <2>4. QED
    BY <2>3, Zenon DEF ReadsOn
<1> HIDE DEF l
<1>8. ReadsOn(acc, m, V, l, d, TRUE) /\ e \in Seq(V)
  <2>1. l \in Seq(V)
    BY <1>7
  <2>2. TRUE => d \in V
    BY <1>1
  <2>3. ReadsOn(acc, m, V, l, d, TRUE)
    BY <2>1, <2>2, LastIsRead, Zenon
  <2>4. QED
    BY <2>3, Zenon DEF ReadsOn
<1> HIDE DEF e
<1>9. QED
  BY <1>2, <1>3, <1>4, <1>5, <1>6, <1>7, <1>8, Zenon DEF V, ReadsOn, h, k, l, e

\* A block with its header files the check before it and makes its own, the
\* whole of it; one without leaves the filed checks alone, and whether there
\* is a check it belongs to.
LEMMA BlockReading ==
    ASSUME NEW b \in Blocks, NEW a \in Readings
    PROVE  /\ ReadBlock(a, b) \in Readings
           /\ b.header => ReadBlock(a, b) = [checks |-> Flush(a.checks, a.current), current |-> CheckOf(b)]
           /\ ~b.header => /\ ReadBlock(a, b).checks = a.checks
                           /\ ReadBlock(a, b).current = None <=> a.current = None
<1>1. /\ Line("Check", b.id) \in PrintedLines /\ Line("ID", b.id) \in PrintedLines
      /\ Line("Description", b.id) \in PrintedLines
      /\ b.resources # None => Line("Supported resources", b.resources) \in PrintedLines
      /\ b.header \in BOOLEAN /\ b.confirm \in BOOLEAN /\ b.id \in CheckIds
  BY DEF Blocks, Line, PrintedLines, NamedLines
<1> DEFINE h == AtHeader(a, b)
           k == AtId(h, b)
           l == AtResources(k, b)
           e == AtDescription(l, b)
<1>2. h \in Readings
  BY <1>1, LinesAreRead DEF AtHeader
<1> HIDE DEF h
<1>3. k \in Readings
  BY <1>1, <1>2, LinesAreRead DEF AtId
<1> HIDE DEF k
<1>4. l \in Readings
  BY <1>1, <1>3, LinesAreRead DEF AtResources
<1> HIDE DEF l
<1>5. e \in Readings
  BY <1>1, <1>4, LinesAreRead DEF AtDescription
<1> HIDE DEF e
<1>6. ReadBlock(a, b) = e
  BY DEF ReadBlock, h, k, l, e
<1>7. \A x : x \in Checks => x # None
  BY AbsenceAssumption DEF Checks
<1>8. ASSUME NEW x \in Readings
      PROVE  x = [checks |-> x.checks, current |-> x.current] /\ x.current \in Checks \cup {None}
  BY DEF Readings
<1>9. ASSUME NEW x \in Readings, NEW line \in PrintedLines, line.key # "Check"
      PROVE  /\ ReadLine(x, line).checks = x.checks
             /\ ReadLine(x, line).current = None <=> x.current = None
  <2>1. ReadLine(x, line) \in Readings
    BY LinesAreRead
  <2>2. CASE x.current = None
    BY <1>9, <2>2 DEF ReadLine
  <2>3. CASE x.current # None
    <3>1. line.key \in {"ID", "Description", "Supported resources"}
      BY <1>9 DEF PrintedLines, NamedLines
    <3>2. x.current \in Checks
      BY <1>8, <2>3
    <3>3. CASE line.key = "ID"
      <4>1. ReadLine(x, line) = [x EXCEPT !.current.id = line.value]
        BY <2>3, <3>3 DEF ReadLine
      <4>2. ReadLine(x, line).current = [x.current EXCEPT !.id = line.value]
            /\ ReadLine(x, line).checks = x.checks
        BY <1>8, <4>1
      <4>3. [x.current EXCEPT !.id = line.value] # None
        <5>1. line.value \in CheckIds
          BY <3>3 DEF PrintedLines, NamedLines
        <5>2. [x.current EXCEPT !.id = line.value] \in Checks
          BY <3>2, <5>1 DEF Checks, ListedChecks
        <5>3. QED
          BY <1>7, <5>2
      <4>4. QED
        BY <2>3, <4>2, <4>3
    <3>4. CASE line.key = "Description"
      <4>1. ReadLine(x, line) = [x EXCEPT !.current.title = line.value]
        BY <2>3, <3>4 DEF ReadLine
      <4>2. ReadLine(x, line).current = [x.current EXCEPT !.title = line.value]
            /\ ReadLine(x, line).checks = x.checks
        BY <1>8, <4>1
      <4>3. [x.current EXCEPT !.title = line.value] # None
        <5>1. line.value \in CheckIds
          BY <3>4 DEF PrintedLines, NamedLines
        <5>2. [x.current EXCEPT !.title = line.value] \in Checks
          BY <3>2, <5>1 DEF Checks, ListedChecks
        <5>3. QED
          BY <1>7, <5>2
      <4>4. QED
        BY <2>3, <4>2, <4>3
    <3>5. CASE line.key = "Supported resources"
      <4>1. ReadLine(x, line) = [x EXCEPT !.current = WithResources(@, line.value)]
        BY <2>3, <3>5 DEF ReadLine
      <4>2. ReadLine(x, line).current = WithResources(x.current, line.value)
            /\ ReadLine(x, line).checks = x.checks
        BY <1>8, <4>1
      <4>3. WithResources(x.current, line.value) # None
        <5>1. line.value \in ResourceSets
          BY <3>5 DEF PrintedLines, NamedLines
        <5>2. WithResources(x.current, line.value) \in Checks
          BY <3>2, <5>1, InferredProviders DEF Checks, ListedChecks, WithResources
        <5>3. QED
          BY <1>7, <5>2
      <4>4. QED
        BY <2>3, <4>2, <4>3
    <3>6. QED
      BY <3>1, <3>3, <3>4, <3>5
  <2>4. QED
    BY <2>2, <2>3
<1>10. /\ Line("ID", b.id).key # "Check" /\ Line("Description", b.id).key # "Check"
       /\ Line("Supported resources", b.resources).key # "Check"
  BY DEF Line
<1>11. CASE ~b.header
  <2>1. h = a
    BY <1>11 DEF h, AtHeader
  <2>2. k.checks = h.checks /\ (k.current = None <=> h.current = None)
    BY <1>1, <1>2, <1>9, <1>10 DEF k, AtId
  <2>3. l.checks = k.checks /\ (l.current = None <=> k.current = None)
    BY <1>1, <1>3, <1>9, <1>10 DEF l, AtResources
  <2>4. e.checks = l.checks /\ (e.current = None <=> l.current = None)
    BY <1>1, <1>4, <1>9, <1>10 DEF e, AtDescription
  <2>5. QED
    BY <1>5, <1>6, <1>11, <2>1, <2>2, <2>3, <2>4
<1>12. CASE b.header
  <2> DEFINE filed == Flush(a.checks, a.current)
             Made(title, types) ==
               [id |-> b.id, title |-> title, resource_types |-> types,
                providers |-> InferProviders(types), is_graph |-> b.id \in GraphIds]
             types == IF b.resources = None THEN {} ELSE b.resources
             Reading(current) == [checks |-> filed, current |-> current]
  <2>1. InferProviders({}) = {}
    BY DEF InferProviders
  <2>2. h = Reading(Made(None, {}))
    <3>1. h = Reading(NewCheck(b.id))
      BY <1>12 DEF h, AtHeader, ReadLine, Line
    <3>2. NewCheck(b.id) = Made(None, {})
      BY <2>1 DEF NewCheck
    <3>3. QED
      BY <3>1, <3>2
  <2>3. h.current # None
    <3>1. h.current = NewCheck(b.id)
      BY <2>1, <2>2 DEF NewCheck
    <3>2. QED
      BY <1>1, <1>7, <3>1, NewChecksAreChecks
  <2>4. k = h
    <3>1. CASE b.confirm
      <4>1. k = [h EXCEPT !.current.id = b.id]
        BY <2>3, <3>1 DEF k, AtId, ReadLine, Line
      <4>2. QED
        BY <2>2, <4>1
    <3>2. QED
      BY <3>1 DEF k, AtId
  <2>5. l = Reading(Made(None, types))
    <3>1. CASE b.resources # None
      <4>1. l = [k EXCEPT !.current = WithResources(@, b.resources)]
        BY <2>3, <2>4, <3>1 DEF l, AtResources, ReadLine, Line
      <4>2. QED
        BY <2>2, <2>4, <3>1, <4>1 DEF WithResources
    <3>2. QED
      BY <2>2, <2>4, <3>1 DEF l, AtResources
  <2>6. l.current # None
    <3>1. l.current = None <=> k.current = None
      BY <1>1, <1>3, <1>9, <1>10 DEF l, AtResources
    <3>2. QED
      BY <2>3, <2>4, <3>1
  <2>7. e = Reading(Made(b.id, types))
    <3>1. e = [l EXCEPT !.current.title = b.id]
      BY <2>6 DEF e, AtDescription, ReadLine, Line
    <3>2. QED
      BY <2>5, <3>1
  <2>8. CheckOf(b) = Made(b.id, types)
    BY DEF CheckOf, InferProviders
  <2>9. QED
    BY <1>5, <1>6, <1>12, <2>7, <2>8
<1>13. QED
  BY <1>1, <1>11, <1>12

\* In every state the listing is one of blocks.
LEMMA BlocksTyping == ImportSpec => [](blocks \in Seq(Blocks))
<1>1. ImportInit => blocks \in Seq(Blocks)
  BY DEF ImportInit
<1>2. blocks \in Seq(Blocks) /\ [ImportNext]_importVars => (blocks \in Seq(Blocks))'
  <2> SUFFICES ASSUME blocks \in Seq(Blocks), [ImportNext]_importVars PROVE (blocks \in Seq(Blocks))'
    OBVIOUS
  <2>1. CASE ListSome
    <3>1. PICK b \in Blocks : blocks' = Append(blocks, b)
      BY <2>1 DEF ListSome, ListBlock
    <3> HIDE DEF Blocks
    <3>2. QED
      BY <3>1
  <2>2. CASE Again
    BY <2>2 DEF Again
  <2>3. CASE Fail \/ AddSome \/ UNCHANGED importVars
    BY <2>3 DEF Fail, AddSome, AddRule, importVars
  <2>4. QED
    BY <2>1, <2>2, <2>3 DEF ImportNext
<1>3. QED
  BY <1>1, <1>2, PTL DEF ImportSpec

\* A listing is read block by block.
ReadByBlock(at, n) == at[0] = NothingRead /\ \A k \in 1 .. n : at[k] = ReadBlock(at[k - 1], blocks[k])

LEMMA BlocksAreRead ==
    ASSUME blocks \in Seq(Blocks)
    PROVE  \E at : /\ ReadByBlock(at, Len(blocks))
                   /\ ParseListOutput(Lines) = Flush(at[Len(blocks)].checks, at[Len(blocks)].current)
<1> DEFINE n == Len(blocks)
           V == PrintedLines
           ss == [i \in DOMAIN blocks |-> LinesOf(blocks[i])]
<1>1. n \in Nat /\ DOMAIN blocks = 1 .. n /\ \A i \in 1 .. n : blocks[i] \in Blocks
  OBVIOUS
<1>2. ASSUME NEW i \in 1 .. n PROVE ss[i] = LinesOf(blocks[i]) /\ ss[i] \in Seq(V)
  <2>1. LinesOf(blocks[i]) \in Seq(PrintedLines)
    <3>1. 0 \in Nat /\ blocks[i] \in Blocks
      BY <1>1
    <3>2. QED
      BY <3>1, BlockIsRead
  <2>2. QED
    BY <1>1, <2>1
<1> HIDE DEF V
<1>3. ss \in Seq(Seq(V)) /\ Len(ss) = n
  <2> DEFINE T == Seq(V)
  <2>1. ss \in [1 .. n -> T]
    BY <1>1, <1>2, Zenon
  <2> HIDE DEF T, ss, n
  <2>2. ss \in Seq(T) /\ Len(ss) = n
    BY <1>1, <2>1
  <2>3. QED
    BY <2>2 DEF T
<1>4. Lines = FlattenSeq(ss)
  BY DEF Lines
<1> HIDE DEF ss, n
<1>5. PICK flat : IsConcatenation(flat, n, Seq(V), <<>>, ss) /\ Lines = flat[n]
  BY <1>3, <1>4, FlattenIsRun, Zenon
<1>6. /\ DOMAIN flat[0] = {} /\ Len(flat[0]) = 0
      /\ \A i \in 0 .. n : flat[i] \in Seq(V)
  <2>1. flat[0] = <<>> /\ \A i \in 0 .. n : flat[i] \in Seq(V)
    BY <1>5, Zenon DEF IsConcatenation
  <2>2. QED
    BY <2>1
<1>7. ASSUME NEW i \in 1 .. n
      PROVE  /\ InARow(flat[i - 1], ss[i], flat[i])
             /\ Len(flat[i - 1]) \in Nat /\ Len(flat[i]) = Len(flat[i - 1]) + Len(ss[i])
             /\ DOMAIN ss[i] = 1 .. Len(ss[i])
  <2>1. i - 1 \in 0 .. n /\ i \in 0 .. n
    BY <1>1
  <2>2. flat[i - 1] \in Seq(V) /\ ss[i] \in Seq(V) /\ flat[i] = flat[i - 1] \o ss[i]
    BY <1>2, <1>5, <2>1, Zenon DEF IsConcatenation
  <2>3. InARow(flat[i - 1], ss[i], flat[i])
    BY <2>2, PlacesInARow, Zenon
  <2>4. QED
    BY <2>2, <2>3, ConcatProperties
<1>8. KeepsPlaces(flat, ss, n)
  <2>1. \A k \in 1 .. n : InARow(flat[k - 1], ss[k], flat[k])
    BY <1>7, Zenon
  <2>2. n \in Nat /\ DOMAIN flat[0] = {}
    BY <1>1, <1>6, Zenon
  <2>3. QED
    BY <2>1, <2>2, FlattenKeepsPlaces, Zenon
<1>9. Lines \in Seq(V)
  <2>1. n \in 0 .. n
    BY <1>1
  <2>2. QED
    BY <1>5, <1>6, <2>1, Zenon
<1>10. PICK acc : ReadInTurn(acc, Lines) /\ FoldLeft(ReadLine, NothingRead, Lines) = acc[Len(Lines)]
  BY <1>9, ListingIsRead, Zenon DEF V
<1>11. DOMAIN Lines = 1 .. Len(Lines)
  BY <1>9
<1> DEFINE at == [k \in 0 .. n |-> acc[Len(flat[k])]]
<1>12. at[0] = NothingRead
  <2>1. 0 \in 0 .. n
    BY <1>1
  <2>2. QED
    BY <1>6, <1>10, <2>1, Zenon DEF ReadInTurn
<1>13. ASSUME NEW k \in 1 .. n PROVE at[k] = ReadBlock(at[k - 1], blocks[k])
  <2> DEFINE m == Len(flat[k - 1])
  <2>1. ASSUME NEW j \in 1 .. Len(ss[k])
        PROVE  acc[m + j] = ReadLine(acc[m + j - 1], ss[k][j])
    <3>1. m + j \in DOMAIN Lines /\ Lines[m + j] = ss[k][j]
      BY <1>5, <1>7, <1>8, Zenon DEF KeepsPlaces
    <3>2. \A p \in DOMAIN Lines : acc[p] = ReadLine(acc[p - 1], Lines[p])
      BY <1>10, <1>11, Zenon DEF ReadInTurn
    <3>3. (m + j) - 1 = m + j - 1
      BY <1>7
    <3> HIDE DEF m, ss
    <3>4. acc[m + j] = ReadLine(acc[(m + j) - 1], ss[k][j])
      BY <3>1, <3>2, Zenon
    <3>5. QED
      BY <3>3, <3>4, Zenon
  <2>2. InTurnAfter(acc, m, LinesOf(blocks[k]))
    BY <1>2, <2>1, Zenon DEF InTurnAfter
  <2>3. acc[m + Len(LinesOf(blocks[k]))] = ReadBlock(acc[m], blocks[k])
    <3>1. m \in Nat /\ blocks[k] \in Blocks
      BY <1>1, <1>7, Zenon
    <3>2. QED
      BY <2>2, <3>1, BlockIsRead, Zenon
  <2>4. k \in 0 .. n /\ k - 1 \in 0 .. n
    BY <1>1
  <2>5. at[k] = acc[m + Len(LinesOf(blocks[k]))] /\ at[k - 1] = acc[m]
    BY <1>2, <1>7, <2>4, Zenon
  <2>6. QED
    BY <2>3, <2>5, Zenon
<1>14. at[n] = acc[Len(Lines)]
  <2>1. n \in 0 .. n
    BY <1>1
  <2>2. QED
    BY <1>5, <2>1, Zenon
<1> HIDE DEF at
<1>15. ReadByBlock(at, n)
  BY <1>12, <1>13, Zenon DEF ReadByBlock
<1>16. ParseListOutput(Lines) = Flush(at[n].checks, at[n].current)
  BY <1>10, <1>14 DEF ParseListOutput, NothingRead
<1>17. QED
  BY <1>15, <1>16, Zenon DEF n

\* A block adds one to the headers, or none.
LEMMA HeadersGrow ==
    ASSUME blocks \in Seq(Blocks)
    PROVE  /\ Headers(0) = 0
           /\ \A k \in 1 .. Len(blocks) :
                Headers(k) = IF blocks[k].header THEN Headers(k - 1) + 1 ELSE Headers(k - 1)
<1> DEFINE H(k) == {i \in 1 .. k : blocks[i].header}
<1>1. Headers(0) = 0
  <2>1. H(0) = {}
    OBVIOUS
  <2>2. QED
    BY <2>1, FS_EmptySet DEF Headers
<1>2. ASSUME NEW k \in 1 .. Len(blocks)
      PROVE  Headers(k) = IF blocks[k].header THEN Headers(k - 1) + 1 ELSE Headers(k - 1)
  <2>1. k \in Nat /\ k - 1 \in Nat
    OBVIOUS
  <2>2. IsFiniteSet(H(k - 1))
    <3>1. IsFiniteSet(1 .. k - 1)
      BY <2>1, FS_Interval
    <3>2. H(k - 1) \subseteq 1 .. k - 1
      OBVIOUS
    <3>3. QED
      BY <3>1, <3>2, FS_Subset, Zenon
  <2>3. H(k) = IF blocks[k].header THEN H(k - 1) \cup {k} ELSE H(k - 1)
    OBVIOUS
  <2>4. k \notin H(k - 1)
    OBVIOUS
  <2> HIDE DEF H
  <2>5. QED
    BY <2>2, <2>3, <2>4, FS_AddElement DEF Headers, H
<1>3. QED
  BY <1>1, <1>2

\* The check of a whole block is one.
LEMMA BlocksCheck ==
    ASSUME NEW b \in Blocks
    PROVE  CheckOf(b) \in Checks /\ CheckOf(b) # None
<1> DEFINE types == IF b.resources = None THEN {} ELSE b.resources
<1>1. types \in SUBSET ListedTypes /\ InferProviders(types) \in SUBSET InferProviders(ListedTypes)
  <2>1. CASE b.resources = None
    BY <2>1 DEF InferProviders
  <2>2. CASE b.resources # None
    <3>1. b.resources \in ResourceSets
      BY <2>2 DEF Blocks
    <3>2. QED
      BY <2>2, <3>1, InferredProviders
  <2>3. QED
    BY <2>1, <2>2
<1>2. CheckOf(b) = [id |-> b.id, title |-> b.id, resource_types |-> types,
                    providers |-> InferProviders(types), is_graph |-> b.id \in GraphIds]
  BY DEF CheckOf, InferProviders
<1> HIDE DEF types
<1>3. b.id \in CheckIds
  BY DEF Blocks
<1>4. CheckOf(b) \in Checks
  BY <1>1, <1>2, <1>3 DEF Checks, ListedChecks
<1>5. QED
  BY <1>4, AbsenceAssumption DEF Checks

\* A check that is filed stays where it is.
LEMMA FiledStays ==
    ASSUME NEW checks \in Seq(Checks), NEW check \in Checks
    PROVE  /\ Len(Append(checks, check)) = Len(checks) + 1
           /\ Append(checks, check)[Len(checks) + 1] = check
           /\ \A i \in 1 .. Len(checks) : Append(checks, check)[i] = checks[i]
  OBVIOUS

\* Whatever lines the blocks of a listing lost, a block with its header that
\* is followed by another is parsed to its own check.
LEMMA DamageStaysLocal ==
    ASSUME blocks \in Seq(Blocks)
    PROVE  DamageIsLocal
<1> DEFINE n == Len(blocks)
<1>1. n \in Nat /\ DOMAIN blocks = 1 .. n /\ \A i \in 1 .. n : blocks[i] \in Blocks
  OBVIOUS
<1>2. PICK at : /\ ReadByBlock(at, n)
                /\ ParseListOutput(Lines) = Flush(at[n].checks, at[n].current)
  BY BlocksAreRead
<1> DEFINE Made(k) == Flush(at[k].checks, at[k].current)
           Filed(k) == \A i \in 1 .. k - 1 : blocks[i].header /\ blocks[i + 1].header =>
                         /\ Headers(i) \in 1 .. Len(at[k].checks)
                         /\ at[k].checks[Headers(i)] = CheckOf(blocks[i])
           Fresh(k) == k # 0 /\ blocks[k].header =>
                         Headers(k) \in 1 .. Len(Made(k)) /\ Made(k)[Headers(k)] = CheckOf(blocks[k])
           Counted(k) == Len(Made(k)) = Headers(k)
           S == {k \in 0 .. n : at[k] \in Readings /\ Counted(k) /\ Filed(k) /\ Fresh(k)}
<1>3. Headers(0) = 0 /\ \A k \in 1 .. n :
         Headers(k) = IF blocks[k].header THEN Headers(k - 1) + 1 ELSE Headers(k - 1)
  BY HeadersGrow
<1>4. 0 \in S
  <2>1. at[0] = NothingRead
    BY <1>2, Zenon DEF ReadByBlock
  <2>2. at[0] \in Readings /\ at[0].checks = <<>> /\ at[0].current = None
    BY <2>1 DEF NothingRead, Readings
  <2>3. Made(0) = <<>>
    BY <2>2 DEF Flush
  <2>4. 0 \in 0 .. n /\ 1 .. 0 - 1 = {}
    BY <1>1
  <2>5. Counted(0)
    BY <1>3, <2>3
  <2>6. QED
    BY <2>2, <2>4, <2>5, Zenon
<1>5. ASSUME NEW k \in 1 .. n, k - 1 \in S PROVE k \in S
  <2> DEFINE a == at[k - 1]
             b == blocks[k]
             e == at[k]
  <2>1. a \in Readings /\ Counted(k - 1) /\ Filed(k - 1) /\ Fresh(k - 1)
    BY <1>5, Zenon
  <2>2. b \in Blocks /\ e = ReadBlock(a, b)
    BY <1>1, <1>2, Zenon DEF ReadByBlock
  <2>3. e \in Readings
    BY <2>1, <2>2, BlockReading
  <2>4. /\ a.checks \in Seq(Checks) /\ a.current \in Checks \cup {None}
        /\ Made(k - 1) = IF a.current = None THEN a.checks ELSE Append(a.checks, a.current)
        /\ Made(k - 1) \in Seq(Checks)
    BY <2>1, FlushedChecks
  <2>5. /\ e.checks \in Seq(Checks) /\ e.current \in Checks \cup {None}
        /\ Made(k) = IF e.current = None THEN e.checks ELSE Append(e.checks, e.current)
    BY <2>3, FlushedChecks
  <2>6. k \in 0 .. n /\ k # 0 /\ k - 1 \in 0 .. n /\ (k - 1) + 1 = k
    BY <1>1
  <2> HIDE DEF S, n
  <2>7. CASE b.header
    <3>1. e = [checks |-> Made(k - 1), current |-> CheckOf(b)]
      BY <2>1, <2>2, <2>7, BlockReading
    <3>2. e.checks = Made(k - 1) /\ e.current = CheckOf(b)
      BY <3>1
    <3>3. CheckOf(b) \in Checks /\ CheckOf(b) # None
      BY <2>2, BlocksCheck
    <3>4. Made(k) = Append(Made(k - 1), CheckOf(b))
      BY <2>5, <3>2, <3>3
    <3> DEFINE p == Made(k - 1)
               q == Made(k)
               c == CheckOf(b)
    <3>5. Len(p) = Headers(k - 1) /\ Len(p) \in Nat
      BY <2>1, <2>4
    <3>6. Headers(k) = Len(p) + 1
      BY <1>3, <2>7, <3>5 DEF n
    <3>7. /\ Len(q) = Len(p) + 1 /\ q[Len(p) + 1] = c
          /\ \A i \in 1 .. Len(p) : q[i] = p[i]
      <4>1. p \in Seq(Checks) /\ c \in Checks /\ q = Append(p, c)
      BY <2>4, <3>3, <3>4, Zenon
    <4> HIDE DEF p, q, c
    <4>2. QED
      BY <4>1, FiledStays
    <3>8. Counted(k) /\ Fresh(k)
      BY <3>5, <3>6, <3>7
    <3>9. Filed(k)
      <4> SUFFICES ASSUME NEW i \in 1 .. k - 1, blocks[i].header, blocks[i + 1].header
                   PROVE  Headers(i) \in 1 .. Len(p) /\ p[Headers(i)] = CheckOf(blocks[i])
        BY <3>2, Zenon
      <4>1. CASE i = k - 1
        BY <2>1, <4>1
      <4>2. CASE i # k - 1
        <5>1. i \in 1 .. (k - 1) - 1
          BY <2>6, <4>2
        <5>2. Headers(i) \in 1 .. Len(a.checks) /\ a.checks[Headers(i)] = CheckOf(blocks[i])
          BY <2>1, <5>1
        <5>3. \A j \in 1 .. Len(a.checks) : j \in 1 .. Len(p) /\ p[j] = a.checks[j]
          BY <2>4
        <5>4. QED
          BY <5>2, <5>3
      <4>3. QED
        BY <4>1, <4>2
    <3>10. QED
      BY <2>3, <2>6, <3>8, <3>9, Zenon DEF S
  <2>8. CASE ~b.header
    <3>1. e.checks = a.checks /\ (e.current = None <=> a.current = None)
      BY <2>1, <2>2, <2>8, BlockReading
    <3>2. Len(Made(k)) = Len(Made(k - 1))
      BY <2>4, <2>5, <3>1
    <3>3. Counted(k) /\ Fresh(k)
      BY <1>3, <2>1, <2>8, <3>2 DEF n
    <3>4. Filed(k)
      <4> SUFFICES ASSUME NEW i \in 1 .. k - 1, blocks[i].header, blocks[i + 1].header
                   PROVE  Headers(i) \in 1 .. Len(a.checks) /\ a.checks[Headers(i)] = CheckOf(blocks[i])
        BY <3>1, Zenon
      <4>1. i # k - 1
        BY <2>6, <2>8
      <4>2. i \in 1 .. (k - 1) - 1
        BY <2>6, <4>1
      <4>3. QED
        BY <2>1, <4>2
    <3>5. QED
      BY <2>3, <2>6, <3>3, <3>4, Zenon DEF S
  <2>9. QED
    BY <2>7, <2>8
<1> HIDE DEF S, n
<1>6. n \in S
  BY <1>1, <1>4, <1>5, PositionInduction, Zenon
<1>7. at[n] \in Readings /\ Counted(n) /\ Filed(n) /\ Fresh(n)
  BY <1>6, Zenon DEF S
<1>8. ASSUME NEW i \in 1 .. n, blocks[i].header, i < n => blocks[i + 1].header
      PROVE  Made(n)[Headers(i)] = CheckOf(blocks[i])
  <2>1. CASE i = n
    BY <1>1, <1>7, <1>8, <2>1
  <2>2. CASE i # n
    <3>1. i \in 1 .. n - 1 /\ i < n
      BY <1>1, <2>2
    <3>2. Headers(i) \in 1 .. Len(at[n].checks) /\ at[n].checks[Headers(i)] = CheckOf(blocks[i])
      BY <1>7, <1>8, <3>1
    <3>3. /\ at[n].checks \in Seq(Checks) /\ at[n].current \in Checks \cup {None}
          /\ Made(n) = IF at[n].current = None THEN at[n].checks
                       ELSE Append(at[n].checks, at[n].current)
      BY <1>7, FlushedChecks
    <3>4. QED
      BY <3>2, <3>3
  <2>3. QED
    BY <2>1, <2>2
<1>9. QED
  BY <1>1, <1>2, <1>7, <1>8 DEF DamageIsLocal, n

\* Whatever was lost, what is parsed are checks.
LEMMA ParsedAreChecks ==
    ASSUME blocks \in Seq(Blocks)
    PROVE  ParseListOutput(Lines) \in Seq(Checks)
<1> DEFINE n == Len(blocks)
<1>1. n \in Nat /\ \A i \in 1 .. n : blocks[i] \in Blocks
  OBVIOUS
<1>2. PICK at : /\ ReadByBlock(at, n)
                /\ ParseListOutput(Lines) = Flush(at[n].checks, at[n].current)
  BY BlocksAreRead
<1> DEFINE S == {k \in 0 .. n : at[k] \in Readings}
<1> HIDE DEF n
<1>3. 0 \in S
  <2>1. at[0] = NothingRead /\ 0 \in 0 .. n
    BY <1>1, <1>2 DEF ReadByBlock
  <2>2. at[0] \in Readings
    BY <2>1 DEF NothingRead, Readings
  <2>3. QED
    BY <2>1, <2>2
<1>4. ASSUME NEW k \in 1 .. n, k - 1 \in S PROVE k \in S
  <2>1. k \in 0 .. n /\ blocks[k] \in Blocks /\ at[k] = ReadBlock(at[k - 1], blocks[k])
    BY <1>1, <1>2 DEF ReadByBlock
  <2>2. QED
    BY <1>4, <2>1, BlockReading
<1> HIDE DEF S
<1>5. n \in S
  BY <1>1, <1>3, <1>4, PositionInduction, Zenon
<1>6. QED
  BY <1>2, <1>5, FlushedChecks DEF S

\* A stub whose providers are those of its types, or that names none, is
\* selected for its types.
LEMMA SlugScopeReaches ==
    ASSUME NEW types, NEW providers, NEW r,
           providers = {} \/ providers = InferProviders(types)
    PROVE  ScopeMatches(SlugScope(providers, types), QueryFor(r)) <=> types = {} \/ r \in types
<1> DEFINE c == SlugScope(providers, types)
           asked == QueryFor(r)
           own == {ProviderOf[r]} \ {None}
<1>1. /\ c.providers = providers /\ c.resource_types = types /\ c.environments = {}
      /\ c.repos = {} /\ c.relationship = None
  BY DEF SlugScope
<1>2. asked.providers = own /\ asked.resource_types = {r}
  BY DEF SlugScope, QueryFor
<1> HIDE DEF c, asked
<1>3. ScopeMatches(c, asked) <=> /\ DimMatch(providers, own, {}) /\ DimMatch(types, {r}, {})
  <2>1. \A d \in Dims : Wildcards(d) = IF d = "environments" THEN {"all"} ELSE {}
    BY DEF Wildcards
  <2>2. DimMatch(c["environments"], asked["environments"], {"all"})
        /\ DimMatch(c["repos"], asked["repos"], {})
    BY <1>1 DEF DimMatch
  <2>3. Wildcards("providers") = {} /\ Wildcards("resource_types") = {}
        /\ Wildcards("environments") = {"all"} /\ Wildcards("repos") = {}
    BY DEF Wildcards
  <2>4. ScopeMatches(c, asked) <=> \A d \in Dims : DimMatch(c[d], asked[d], Wildcards(d))
    BY <1>1 DEF ScopeMatches
  <2>5. (\A d \in Dims : DimMatch(c[d], asked[d], Wildcards(d)))
          <=> /\ DimMatch(c["providers"], asked["providers"], Wildcards("providers"))
              /\ DimMatch(c["resource_types"], asked["resource_types"], Wildcards("resource_types"))
              /\ DimMatch(c["environments"], asked["environments"], Wildcards("environments"))
              /\ DimMatch(c["repos"], asked["repos"], Wildcards("repos"))
    BY DEF Dims
  <2>6. QED
    BY <1>1, <1>2, <2>2, <2>3, <2>4, <2>5
<1>4. DimMatch(types, {r}, {}) <=> types = {} \/ r \in types
  BY DEF DimMatch
<1>5. types = {} \/ r \in types => DimMatch(providers, own, {})
  <2>1. CASE providers = {}
    BY <2>1 DEF DimMatch
  <2>2. CASE providers = InferProviders(types) /\ r \in types
    <3>1. own \subseteq InferProviders(types)
      BY <2>2 DEF InferProviders
    <3>2. QED
      BY <2>2, <3>1 DEF DimMatch
  <2>3. CASE providers = InferProviders(types) /\ types = {}
    BY <2>3 DEF DimMatch, InferProviders
  <2>4. QED
    BY <2>1, <2>2, <2>3
<1>6. QED
  BY <1>3, <1>4, <1>5 DEF c, asked

\* Whatever was lost, the stubs of an import name the providers of their types.
LEMMA StubsReach ==
    ASSUME blocks \in Seq(Blocks)
    PROVE  StubReachesItsResources
<1>1. ASSUME NEW stub \in CheckStubs, NEW r
      PROVE  ScopeMatches(stub.scope, QueryFor(r))
               <=> stub.scope.resource_types = {} \/ r \in stub.scope.resource_types
  <2> DEFINE checks == EnumerateChecks(tool, Lines)
  <2>1. PICK i \in DOMAIN checks : stub = MakeStub(checks[i])
    BY DEF CheckStubs, ImportChecks
  <2> DEFINE check == checks[i]
  <2>2. check.providers = InferProviders(check.resource_types)
    <3>1. CASE checks = Seed
      BY <2>1, <3>1, SeedAssumption
    <3>2. CASE checks = ParseListOutput(Lines)
      <4>1. checks \in Seq(Checks)
        BY <3>2, ParsedAreChecks
      <4> HIDE DEF checks, Checks
      <4>2. check \in Checks
        BY <2>1, <4>1
      <4>3. QED
        BY <4>2 DEF Checks
    <3>3. QED
      BY <3>1, <3>2 DEF EnumerateChecks
  <2> HIDE DEF checks
  <2>3. stub.scope = SlugScope(check.providers, check.resource_types)
    BY <2>1 DEF MakeStub
  <2>4. stub.scope.resource_types = check.resource_types
    BY <2>3 DEF SlugScope
  <2>5. QED
    BY <2>2, <2>3, <2>4, SlugScopeReaches
<1>2. ASSUME NEW s \in RulesetStubs(TRUE), NEW r
      PROVE  ScopeMatches(s.stub.scope, QueryFor(r))
               <=> s.stub.scope.resource_types = {} \/ r \in s.stub.scope.resource_types
  <2>1. PICK rule : s = RuleToStub(rule, document, "rules.yaml")
    BY DEF RulesetStubs, ImportRules
  <2>2. s.stub.scope = SlugScope({}, rule.languages)
    BY <2>1 DEF RuleToStub
  <2>3. s.stub.scope.resource_types = rule.languages
    BY <2>2 DEF SlugScope
  <2>4. QED
    BY <2>2, <2>3, SlugScopeReaches
<1>3. QED
  BY <1>1, <1>2 DEF StubReachesItsResources, AllStubs

\* The license policy of import_catalog, for any ruleset.
LEMMA LicensePolicy == LicensePolicyHolds
<1> SUFFICES ASSUME ~ImportRulesetRaises(document) PROVE LicensePolicyHolds
  BY DEF LicensePolicyHolds
<1> DEFINE stated(r) == (IF r.metadata \in {None, NotAMapping} THEN {} ELSE {r.metadata.license})
                        \cup (IF document.metadata \in {None, NotAMapping} THEN {document.license}
                              ELSE {document.metadata.license})
<1>1. \A allow \in BOOLEAN : RulesetStubs(allow) = ImportRules(document, "rules.yaml", allow)
  BY DEF RulesetStubs
<1>2. RulesetStubs(FALSE) = {r \in RulesetStubs(TRUE) : r.license # None}
  BY <1>1 DEF ImportRules
<1>3. ASSUME NEW s \in RulesetStubs(FALSE)
      PROVE  /\ s.license # "blank"
             /\ \E i \in DOMAIN document.rules :
                  LET rule == document.rules[i]
                  IN  rule # NotAMapping /\ rule.id = s.rule_id /\ s.license \in stated(rule)
  <2>1. PICK i \in DOMAIN document.rules :
            /\ ~Skipped(document.rules[i])
            /\ s = RuleToStub(document.rules[i], document, "rules.yaml")
            /\ s.license # None
    BY <1>1 DEF ImportRules
  <2> DEFINE rule == document.rules[i]
  <2>2. rule # NotAMapping /\ rule.metadata # NotAMapping
    BY <2>1 DEF Skipped, ImportRulesetRaises, RuleRaises
  <2>3. s.rule_id = rule.id /\ s.license = RuleLicense(rule, document)
    BY <2>1 DEF RuleToStub
  <2>4. RuleLicense(rule, document) # "blank" /\ RuleLicense(rule, document) \in stated(rule)
    BY <2>1, <2>2, <2>3 DEF RuleLicense, DocumentLicense
  <2>5. QED
    BY <2>1, <2>2, <2>3, <2>4
<1>4. QED
  BY <1>2, <1>3 DEF LicensePolicyHolds

\* In every state, whatever checkov printed and lost: damage stays local
\* (_parse_list_output).
THEOREM DamageToListingsIsLocal == ImportSpec => []DamageIsLocal
  BY BlocksTyping, DamageStaysLocal, PTL

\* In every state, of whatever listing or ruleset: an imported stub is selected
\* for the resource types it names (_make_stub, _rule_to_stub, scope_matches).
THEOREM ImportedStubsAreFound == ImportSpec => []StubReachesItsResources
  BY BlocksTyping, StubsReach, PTL

\* In every state, whatever the ruleset: the license policy of the Semgrep
\* importer holds.
THEOREM LicensePolicyIsKept == ImportSpec => []LicensePolicyHolds
  BY LicensePolicy, PTL
=============================================================================
