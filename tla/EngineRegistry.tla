--------------------------- MODULE EngineRegistry ---------------------------
(***************************************************************************)
(* The engine-adapter registry built from a configuration                  *)
(* (engine/registry.py): config entries [name, adapter] are loaded one by  *)
(* one into an insertion-ordered dict keyed by the entry's name.           *)
(***************************************************************************)
EXTENDS Optional, Integers, Sequences

CONSTANT AdapterEngine     \* adapter spec -> the engine its class names;
                           \* a spec outside the domain fails to load

LowestOf(S) == CHOOSE i \in S : \A j \in S : i <= j
HighestOf(S) == CHOOSE i \in S : \A j \in S : j <= i

\* Mutant of FromConfig: an entry that fails to load takes its name with it.
FromConfigWithoutFailed(engines) ==
    LET named(n) == {i \in DOMAIN engines : engines[i].name = n}
        last(n)  == HighestOf(named(n))
        names    == {n \in {engines[i].name : i \in DOMAIN engines} :
                       engines[last(n)].adapter \in DOMAIN AdapterEngine}
    IN  [n \in names |-> [place |-> LowestOf(named(n)), adapter |-> engines[last(n)].adapter]]

\* An entry that fails to load is skipped.  Loading a name again replaces its
\* adapter and keeps its place in the dict, which is where it first loaded.
FromConfig(engines) ==
    LET loaded    == {i \in DOMAIN engines : engines[i].adapter \in DOMAIN AdapterEngine}
        entries(n) == {i \in loaded : engines[i].name = n}
    IN  [n \in {engines[i].name : i \in loaded} |->
            [place |-> LowestOf(entries(n)), adapter |-> engines[HighestOf(entries(n))].adapter]]

\* Names of the entries that are recorded as load errors.
LoadErrors(engines) ==
    {engines[i].name : i \in {j \in DOMAIN engines : engines[j].adapter \notin DOMAIN AdapterEngine}}

\* The first registered adapter whose class handles the binding's engine.
ForBinding(registry, engine) ==
    LET able == {n \in DOMAIN registry : AdapterEngine[registry[n].adapter] = engine}
    IN  IF able = {} THEN None
        ELSE registry[CHOOSE n \in able :
                        \A m \in able : registry[n].place <= registry[m].place].adapter

\* Engines a set of imported constraints needs; an advisory one needs none.
RequiredEngines(constraints) ==
    UNION {{b.engine : b \in ic.constraint.enforcement} : ic \in constraints}
=============================================================================
