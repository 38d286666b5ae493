----------------------------- MODULE Discovery -----------------------------
(***************************************************************************)
(* An agent refining a query against a catalogue: it starts with an empty  *)
(* scope and step by step supplies a silent dimension, adds a value to a   *)
(* supplied one, or fills in the relationship, as it does between calls of *)
(* get_constraints.                                                        *)
(***************************************************************************)
EXTENDS Scope

CONSTANTS
    Catalogues,      \* sets of imported constraints a bundle may have
    ValuesOf,        \* dimension -> the values an agent may supply on it
    Relationships    \* the relationships an agent may fill in

AtLayer(l) == [layer |-> l, component |-> None, domain |-> None, different_domain |-> None]

\* What an agent can build of a vocabulary.
EndpointsAt(layers) == {AtLayer(l) : l \in layers \cup {None}}
RelationshipsOf(voc) == [source      : EndpointsAt(voc.source_layers),
                         target      : EndpointsAt(voc.target_layers),
                         interaction : voc.interactions \cup {None},
                         boundary    : {None}]
QueriesOf(voc) == [providers      : SUBSET voc.dims["providers"],
                   environments   : SUBSET voc.dims["environments"],
                   resource_types : SUBSET voc.dims["resource_types"],
                   repos          : SUBSET voc.dims["repos"],
                   relationship   : RelationshipsOf(voc) \cup {None}]

\* Endpoints have their fields and no other; None is no string and no record.
ASSUME CataloguesAssumption ==
    \A constraints \in Catalogues : \A ic \in constraints :
        \A side \in {"source", "target"} :
            LET r == ic.constraint.scope.relationship
            IN  r = None \/ r[side] = None \/ r[side] = [f \in EndpointFields |-> r[side][f]]
ASSUME NoneAssumption ==
    None # "" /\ \A constraints \in Catalogues :
        LET voc == Vocabulary(constraints)
        IN  None \notin RelationshipsOf(voc) \cup EndpointsAt(voc.source_layers)
                        \cup EndpointsAt(voc.target_layers)
ASSUME ValuesAssumption == DOMAIN ValuesOf \subseteq Dims

VARIABLES imported,     \* the constraints of the bundle
          q             \* the query
vars == <<imported, q>>

Init == /\ imported \in Catalogues
        /\ q = [providers |-> {}, environments |-> {}, resource_types |-> {}, repos |-> {},
                relationship |-> None]

Supply(d, v) == /\ q[d] = {}
                /\ q' = [q EXCEPT ![d] = {v}]
                /\ UNCHANGED imported

Add(d, v) == /\ q[d] # {}
             /\ q' = [q EXCEPT ![d] = @ \cup {v}]
             /\ UNCHANGED imported

Relate(r) == /\ q.relationship = None
             /\ q' = [q EXCEPT !.relationship = r]
             /\ UNCHANGED imported

SupplySome == \E d \in DOMAIN ValuesOf : \E v \in ValuesOf[d] : Supply(d, v)
AddSome    == \E d \in DOMAIN ValuesOf : \E v \in ValuesOf[d] : Add(d, v)
RelateSome == \E r \in Relationships : Relate(r)

Next == SupplySome \/ AddSome \/ RelateSome
Spec == Init /\ [][Next]_vars

Selected == Select(imported, q)
Scopes == {ic.constraint.scope : ic \in imported}

\* A relationship that names nothing but layers and an interaction, none of
\* them by the empty string.
Describable(r) ==
    r # None => /\ r.boundary = None /\ r.interaction # ""
                /\ \A side \in {"source", "target"} :
                       r[side] # None => r[side] = AtLayer(r[side].layer) /\ r[side].layer # ""

----------------------------------------------------------------------------

\* Supplying a discriminating selector never brings a constraint into the
\* answer; any other refinement never drops one (NFR-3, scope.py _dim_match).
RefinementIsMonotone ==
    [][/\ SupplySome => Selected' \subseteq Selected
       /\ ~SupplySome => Selected \subseteq Selected']_vars

\* Constraints that precedence treats as "the same scope" are always answered
\* together, whatever the query: no query shows the loser without the winner.
SameScopeSelectedTogether ==
    \A a, b \in imported :
        ScopesEqual(a.constraint.scope, b.constraint.scope)
        => (a \in Selected <=> b \in Selected)

\* If one artifact, described by a single value on every dimension that both
\* scopes restrict, is in both scopes and the scopes are of the same kind, then
\* scopes_overlap finds them overlapping (FR-NAMESPACE-2).
SharedArtifactMeansOverlap ==
    \A a, b \in Scopes :
        /\ \A d \in Dims : {} \in {a[d], b[d]} \/ \E v \in q[d] : q[d] = {v}
        /\ (a.relationship = None) <=> (b.relationship = None)
        /\ ScopeMatches(a, q) /\ ScopeMatches(b, q)
        => ScopesOverlap(a, b)

\* What describe_scope publishes is exactly enough.  A query an agent builds of
\* published values, and which names one on every dimension the constraint
\* restricts, selects the constraint if it has no relationship or a describable
\* one; otherwise no query built of published values selects it.
\* The vocabulary has no component, domain, different_domain or boundary and no
\* empty string (service.py:168-175).
VocabularyReachesWhatItDescribes ==
    \A c \in Scopes :
        /\ Describable(c.relationship) =>
             \E built \in QueriesOf(Vocabulary(imported)) :
                 /\ \A d \in Dims : c[d] # {} => built[d] # {}
                 /\ ScopeMatches(c, built)
        /\ (\E built \in QueriesOf(Vocabulary(imported)) : ScopeMatches(c, built))
             => Describable(c.relationship)
=============================================================================
