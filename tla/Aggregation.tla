---------------------------- MODULE Aggregation ----------------------------
(***************************************************************************)
(* The catalogue of several source teams and the decisions between its     *)
(* constraints: teams edit what they declare and the registry's owner      *)
(* reorders the configuration; after every edit an import decides          *)
(* precedence anew (bundle.py, precedence.py).                             *)
(***************************************************************************)
EXTENDS Precedence

CONSTANTS
    Slots,      \* effective ids <<source, id>> that may be declared
    Scopes,     \* scopes they may have
    Configs     \* configurations

\* The sorted order of the effective ids is a strict one.
ASSUME SlotsAssumption ==
    /\ IsFiniteSet(Slots) /\ Slots \subseteq STRING \X STRING
    /\ \A s \in Slots : s \in DOMAIN IdOrder /\ IdOrder[s] \in Int
    /\ \A s, t \in Slots : IdOrder[s] = IdOrder[t] => s = t
ASSUME ConfigsAssumption ==
    \A c \in Configs : c.sources \in Seq([name : STRING, path : STRING, precedence : Int])

VARIABLES catalogue,   \* slot -> what the file declares, None if there is no file
          config
vars == <<catalogue, config>>

Declarations == [severity : Severities, scope : Scopes]

Init == catalogue = [s \in Slots |-> None] /\ config \in Configs

Declare(s, d) == /\ catalogue[s] # d
                 /\ catalogue' = [catalogue EXCEPT ![s] = d]
                 /\ UNCHANGED config
DeclareSome == \E s \in Slots, d \in Declarations \cup {None} : Declare(s, d)

\* Two entries of the list of sources change places.
Reorder ==
    /\ \E i, j \in DOMAIN config.sources :
          /\ i < j
          /\ config' = [config EXCEPT !.sources[i] = config.sources[j],
                                      !.sources[j] = config.sources[i]]
    /\ UNCHANGED catalogue

Next == DeclareSome \/ Reorder
Spec == Init /\ [][Next]_vars

Imported ==
    {[source |-> s[1],
      constraint |-> [id |-> s[2], severity |-> catalogue[s].severity,
                      scope |-> catalogue[s].scope]] :
        s \in {t \in Slots : catalogue[t] # None}}
Pairs == {p \in Imported \X Imported : Compared(p[1], p[2])}
Wins == {<<r.winner, r.loser>> : r \in Records(Imported, config)}

----------------------------------------------------------------------------

\* Of two same-scope constraints of different sources either one wins, or
\* the other, or they conflict; never two of these and never none
\* (FR-NAMESPACE-2 and FR-NAMESPACE-3 leave no pair undecided).
EveryPairDecidedOnce ==
    LET wins == Wins
        conflicts == Conflicts(Imported, config)
    IN  \A p \in Pairs :
            LET x == EffectiveId(p[1])
                y == EffectiveId(p[2])
            IN  Cardinality({d \in {"x", "y", "conflict"} :
                    \/ d = "x" /\ <<x, y>> \in wins
                    \/ d = "y" /\ <<y, x>> \in wins
                    \/ d = "conflict" /\ {x, y} \in conflicts}) = 1

\* The decisions never run in a circle: every set of constraints has a member
\* no other member of it beats, although severity, source precedence and the
\* id decide different pairs.
DecisionsAcyclic ==
    LET wins == Wins
    IN  \A S \in (SUBSET {EffectiveId(ic) : ic \in Imported}) \ {{}} :
            \E x \in S : \A y \in S : <<y, x>> \notin wins

\* In an importable catalogue what nothing beats is at least as strict as
\* everything of its scope from other sources, and no downstream source is
\* weaker than an upstream one: strictness is never lost by aggregation.
UnbeatenIsStrictest ==
    LET beaten == {w[2] : w \in Wins}
    IN  Conflicts(Imported, config) = {} =>
            \A p \in Pairs : EffectiveId(p[1]) \notin beaten =>
                SevRank(p[2]) <= SevRank(p[1])

\* registry.config.yaml:2: sources are "order independent; precedence is
\* explicit": listing them in another order decides every pair as before,
\* provided no two entries have one name, of which the last would count.
UniqueNames ==
    \A i, j \in DOMAIN config.sources :
        config.sources[i].name = config.sources[j].name => i = j
SourceOrderIrrelevant ==
    [][Reorder /\ UniqueNames =>
          /\ Records(Imported, config)' = Records(Imported, config)
          /\ Conflicts(Imported, config)' = Conflicts(Imported, config)]_vars
=============================================================================
