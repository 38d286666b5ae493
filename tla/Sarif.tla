------------------------------- MODULE Sarif -------------------------------
(***************************************************************************)
(* The SARIF normaliser (engine/adapters/sarif/__init__.py): what becomes  *)
(* of the results of a SARIF document, and the verdict they give.          *)
(*                                                                         *)
(* A document is the sequence of its runs.  A run is [rules, results], or  *)
(* None when it is not an object; rules maps a rule id to its default      *)
(* level, results is a sequence (the empty one when the key is absent), or *)
(* None when the key holds no list.  A result is [level, rule], None when  *)
(* it is not an object; level and rule are None when absent or of a wrong  *)
(* type.  Levels are in lower case.                                        *)
(***************************************************************************)
EXTENDS Optional, Integers, SequencesExt

CONSTANTS MaxRuns, MaxResults      \* _MAX_RUNS, _MAX_RESULTS

ASSUME CapsAssumption == MaxRuns \in Nat /\ MaxResults \in Nat

LevelOrder == [note |-> 0, warning |-> 1, error |-> 2]
Known(level) == IF level \in DOMAIN LevelOrder THEN level ELSE "warning"
LevelGte(level, min) == LevelOrder[Known(level)] >= LevelOrder[Known(min)]

\* The result's own level, else the default of its rule, else "warning".
ResolvedLevel(result, rules) ==
    LET default == IF result.rule \in DOMAIN rules THEN rules[result.rule] ELSE None
    IN  CASE result.level # None                        -> result.level
          [] result.level = None /\ default # None      -> default
          [] OTHER                                      -> "warning"

\* _result_to_violation: the level of the violation, or None if it is dropped.
ViolationOf(result, rules) ==
    IF result = None \/ ResolvedLevel(result, rules) = "none" THEN None
    ELSE Known(ResolvedLevel(result, rules))

ConvertedRun(run) ==
    IF run = None \/ run.results = None THEN <<>>
    ELSE [i \in DOMAIN run.results |-> ViolationOf(run.results[i], run.rules)]

Kept(violations, v) == IF v = None THEN violations ELSE Append(violations, v)

\* parse_sarif: both caps count what is skipped or dropped as well.
First(n, s) == SubSeq(s, 1, IF n < Len(s) THEN n ELSE Len(s))
ParseSarif(runs) ==
    LET first == First(MaxRuns, runs)
        all   == FlattenSeq([i \in DOMAIN first |-> ConvertedRun(first[i])])
    IN  FoldLeft(Kept, <<>>, First(MaxResults, all))

ComputeResult(violations, min) ==
    IF \E i \in DOMAIN violations : LevelGte(violations[i], min) THEN "fail" ELSE "pass"

----------------------------------------------------------------------------

\* A list is a function on the positions 1 .. n.
IsList(s) == Len(s) \in Nat /\ s = [i \in 1 .. Len(s) |-> s[i]]
IsDocument(doc) ==
    IsList(doc) /\ \A i \in DOMAIN doc :
                     doc[i] # None => doc[i].results = None \/ IsList(doc[i].results)

\* What a SARIF document says, read without the normaliser's passes: some
\* result among those it promises to look at has, by itself or by its own
\* run's rule, a level of at least min.
Listed(run) == IF run = None \/ run.results = None THEN {} ELSE DOMAIN run.results
ListedBefore(doc, i) == UNION {{r} \X Listed(doc[r]) : r \in 1 .. i - 1}
ResultsBefore(doc, i, j) == Cardinality(ListedBefore(doc, i)) + j
Level(doc, i, j) ==
    LET result == doc[i].results[j]
        rules  == doc[i].rules
        levels == <<result.level, IF result.rule \in DOMAIN rules THEN rules[result.rule] ELSE None,
                    "warning">>
        given  == {n \in 1 .. 3 : levels[n] # None}
    IN  levels[CHOOSE n \in given : \A m \in given : n <= m]
Reported(doc, min) ==
    \E i \in DOMAIN doc : i <= MaxRuns /\ doc[i] # None /\ doc[i].results # None /\
        \E j \in DOMAIN doc[i].results :
            /\ doc[i].results[j] # None
            /\ ResultsBefore(doc, i, j) <= MaxResults
            /\ \/ Level(doc, i, j) = "error"
               \/ Level(doc, i, j) = "note" /\ min = "note"
               \/ Level(doc, i, j) \notin {"error", "note", "none"} /\ min # "error"
=============================================================================
