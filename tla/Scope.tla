------------------------------- MODULE Scope -------------------------------
(***************************************************************************)
(* Scope semantics: when two constraint scopes are the same, when they     *)
(* overlap, when a query selects a constraint (scope.py, query.py) and     *)
(* the selector vocabulary describe_scope publishes (service.py).          *)
(*                                                                         *)
(* A scope is a record of four attribute dimensions, each a set of values  *)
(* (the code compares the lists only through set(...) and truth), and a    *)
(* relationship: None, or endpoints with scalar fields, each possibly None.*)
(***************************************************************************)
EXTENDS Optional, FiniteSets

Dims == {"providers", "resource_types", "environments", "repos"}
EndpointFields == {"layer", "component", "domain", "different_domain"}

\* Only environments has a wildcard token.
Wildcards(d) == IF d = "environments" THEN {"all"} ELSE {}

----------------------------------------------------------------------------
\* Same scope, overlapping scopes

\* Mutant of ScopesEqual: the relationship is forgotten.
ScopesEqualByAttributes(a, b) == \A d \in Dims : a[d] = b[d]

ScopesEqual(a, b) ==
    /\ \A d \in Dims : a[d] = b[d]
    /\ a.relationship = b.relationship

ScalarCompat(a, b) == None \in {a, b} \/ a = b

EndpointOverlap(a, b) ==
    None \in {a, b} \/ \A f \in EndpointFields : ScalarCompat(a[f], b[f])

RelationshipOverlap(a, b) ==
    /\ EndpointOverlap(a.source, b.source)
    /\ EndpointOverlap(a.target, b.target)
    /\ ScalarCompat(a.interaction, b.interaction)
    /\ ScalarCompat(a.boundary, b.boundary)

\* Mutant of DimOverlap: the wildcard is forgotten.
DimOverlapLiterally(a, b, wild) == {} \in {a, b} \/ a \cap b # {}

DimOverlap(a, b, wild) ==
    {} \in {a, b} \/ wild \cap (a \cup b) # {} \/ a \cap b # {}

ScopesOverlap(a, b) ==
    /\ (a.relationship = None) <=> (b.relationship = None)
    /\ a.relationship # None => RelationshipOverlap(a.relationship, b.relationship)
    /\ \A d \in Dims : DimOverlap(a[d], b[d], Wildcards(d))

----------------------------------------------------------------------------
\* A query selects a constraint

\* Mutant of DimMatch: a dimension the query is silent about excludes.
DimMatchIfSupplied(c, q, wild) == c = {} \/ wild \cap c # {} \/ c \cap q # {}

\* A silent constraint or a silent query does not narrow a dimension.
DimMatch(c, q, wild) ==
    {} \in {c, q} \/ wild \cap c # {} \/ c \cap q # {}

\* A field the constraint names must be named, with that value, by the query.
EndpointMatch(c, q) ==
    c = None \/ (q # None /\ \A f \in EndpointFields : c[f] \in {None, q[f]})

RelationshipMatch(c, q) ==
    /\ q # None
    /\ EndpointMatch(c.source, q.source)
    /\ EndpointMatch(c.target, q.target)
    /\ c.interaction \in {None, q.interaction}
    /\ c.boundary \in {None, q.boundary}

ScopeMatches(c, q) ==
    /\ c.relationship # None => RelationshipMatch(c.relationship, q.relationship)
    /\ \A d \in Dims : DimMatch(c[d], q[d], Wildcards(d))

\* query.select over a set of imported constraints.
Select(constraints, q) == {ic \in constraints : ScopeMatches(ic.constraint.scope, q)}

----------------------------------------------------------------------------
\* The vocabulary describe_scope publishes: attribute values, and of the
\* relationships the two layers and the interaction only.  An empty string is
\* no more published than an absent one, though a scope may name it.
Unpublished == {None, ""}

\* Mutant of Layers: the target's layers are collected from the source.
LayersOfSource(scopes, side) ==
    {s.relationship["source"].layer :
        s \in {t \in scopes : t.relationship # None /\ t.relationship["source"] # None}}
      \ Unpublished

Layers(scopes, side) ==
    {s.relationship[side].layer :
        s \in {t \in scopes : t.relationship # None /\ t.relationship[side] # None}}
      \ Unpublished

Vocabulary(constraints) ==
    LET scopes == {ic.constraint.scope : ic \in constraints}
    IN  [ dims          |-> [d \in Dims |-> UNION {s[d] : s \in scopes}],
          source_layers |-> Layers(scopes, "source"),
          target_layers |-> Layers(scopes, "target"),
          interactions  |-> {s.relationship.interaction :
                               s \in {t \in scopes : t.relationship # None}} \ Unpublished ]
=============================================================================
