----------------------------- MODULE Precedence -----------------------------
(***************************************************************************)
(* Namespacing, precedence and conflict resolution (bundle.py,             *)
(* precedence.py, config.py).                                              *)
(*                                                                         *)
(* An imported constraint is [source, constraint]; a constraint has at     *)
(* least id, severity and scope.  A configuration has sources, a sequence  *)
(* of [name, path, precedence].  The sort by effective id is the order     *)
(* IdOrder puts on effective ids; records and conflicts are sets, since    *)
(* the code sorts both before it returns them.                             *)
(***************************************************************************)
EXTENDS Scope, Integers, Sequences

CONSTANT IdOrder     \* effective id -> position in the sorted order

Severities == {"hard", "soft", "advisory"}
Rank(severity) == CASE severity = "hard" -> 2
                    [] severity = "soft" -> 1
                    [] severity = "advisory" -> 0

\* source/id, with the source name and the id kept apart.
EffectiveId(ic) == <<ic.source, ic.constraint.id>>
Before(a, b) == IdOrder[EffectiveId(a)] < IdOrder[EffectiveId(b)]

\* Mutant of PrecedenceOf: the position in the list decides.
PrecedenceByPosition(config, name) ==
    CHOOSE i \in DOMAIN config.sources : config.sources[i].name = name

\* {s.name: s.precedence for s in sources}: the last entry of a name counts.
PrecedenceOf(config, name) ==
    LET entries == {i \in DOMAIN config.sources : config.sources[i].name = name}
    IN  IF entries = {} THEN 0
        ELSE config.sources[CHOOSE i \in entries : \A j \in entries : j <= i].precedence

SevRank(ic) == Rank(ic.constraint.severity)
SourceRank(config, ic) == PrecedenceOf(config, ic.source)

\* Only same-scope constraints of different sources are compared at all.
Compared(a, b) ==
    /\ a.source # b.source
    /\ ScopesEqual(a.constraint.scope, b.constraint.scope)

\* Mutant of Relaxes: sources of equal precedence conflict as well.
RelaxesAmongEquals(config, lo, hi) ==
    /\ SourceRank(config, lo) <= SourceRank(config, hi)
    /\ SevRank(lo) < SevRank(hi)

\* lo, of the lower-precedence source, is weaker than hi.
Relaxes(config, lo, hi) ==
    /\ SourceRank(config, lo) < SourceRank(config, hi)
    /\ SevRank(lo) < SevRank(hi)

\* Mutants of WinReason: an equally strict downstream constraint wins as well;
\* severity decides nothing among sources of equal precedence.
WinReasonDownstreamFirst(config, w, l) ==
    CASE SourceRank(config, w) = SourceRank(config, l) /\ Before(w, l)      -> "coexist"
      [] SourceRank(config, w) < SourceRank(config, l) /\ SevRank(w) >= SevRank(l)
                                                                           -> "downstream-strengthens"
      [] SourceRank(config, w) > SourceRank(config, l) /\ SevRank(w) = SevRank(l)
                                                                           -> "higher-precedence-source"
      [] OTHER                                                             -> "none"
WinReasonWithoutSeverity(config, w, l) ==
    CASE SourceRank(config, w) = SourceRank(config, l) /\ Before(w, l)      -> "coexist"
      [] SourceRank(config, w) < SourceRank(config, l) /\ SevRank(w) > SevRank(l)
                                                                           -> "downstream-strengthens"
      [] SourceRank(config, w) > SourceRank(config, l) /\ SevRank(w) = SevRank(l)
                                                                           -> "higher-precedence-source"
      [] OTHER                                                             -> "none"

\* w is recorded as winning over l, with the branch of the code that does so.
WinReason(config, w, l) ==
    LET pw == SourceRank(config, w)
        pl == SourceRank(config, l)
        sw == SevRank(w)
        sl == SevRank(l)
    IN  CASE pw = pl /\ sw = sl /\ Before(w, l) -> "coexist"
          [] pw = pl /\ sw > sl                 -> "hard-outranks-weaker"
          [] pw < pl /\ sw > sl                 -> "downstream-strengthens"
          [] pw > pl /\ sw = sl                 -> "higher-precedence-source"
          [] OTHER                              -> "none"

Beats(config, w, l) == Compared(w, l) /\ WinReason(config, w, l) # "none"

\* resolve_precedence: the records and the conflicts of a set of imported
\* constraints under a configuration.
Records(imported, config) ==
    {[winner |-> EffectiveId(p[1]), loser |-> EffectiveId(p[2]),
      reason |-> WinReason(config, p[1], p[2])] :
        p \in {r \in imported \X imported : Beats(config, r[1], r[2])}}

Conflicts(imported, config) ==
    {{EffectiveId(p[1]), EffectiveId(p[2])} :
        p \in {r \in imported \X imported :
                 Compared(r[1], r[2]) /\ Relaxes(config, r[1], r[2])}}

\* Bundle.from_constraints: the id is a hash of the constraints alone, taken
\* to be injective, so the set itself stands for it.
Hash(imported) == imported
BundleOf(imported, config) ==
    [bundle_id   |-> Hash(imported),
     constraints |-> imported,
     precedence  |-> Records(imported, config)]
=============================================================================
