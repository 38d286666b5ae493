---------------------------- MODULE Scope_proofs ----------------------------
(***************************************************************************)
(* The theorems about scopes, for any catalogues, any values and any       *)
(* relationships an agent may ask with.                                    *)
(***************************************************************************)
EXTENDS Discovery, TLAPS

\* Two scopes that are the same match the same queries.
LEMMA EqualScopesMatchAlike ==
    ASSUME NEW a, NEW b, ScopesEqual(a, b), NEW query
    PROVE  ScopeMatches(a, query) <=> ScopeMatches(b, query)
BY Zenon DEF ScopesEqual, ScopeMatches

\* In every state, whatever the catalogue and the query: constraints of the same
\* scope are answered together (scopes_equal and scope_matches in scope.py).
THEOREM SameScopesStayTogether == Spec => []SameScopeSelectedTogether
<1>1. SameScopeSelectedTogether
  BY EqualScopesMatchAlike DEF SameScopeSelectedTogether, Selected, Select
<1>2. QED
  BY <1>1, PTL

----------------------------------------------------------------------------
\* Overlap

\* Two fields one query field satisfies are compatible.
LEMMA MatchedScalars ==
    ASSUME NEW x, NEW y, NEW asked, x \in {None, asked}, y \in {None, asked}
    PROVE  ScalarCompat(x, y)
BY DEF ScalarCompat

LEMMA MatchedEndpoints ==
    ASSUME NEW c, NEW d, NEW asked, EndpointMatch(c, asked), EndpointMatch(d, asked)
    PROVE  EndpointOverlap(c, d)
BY MatchedScalars DEF EndpointMatch, EndpointOverlap

LEMMA MatchedRelationships ==
    ASSUME NEW r, NEW s, NEW asked, RelationshipMatch(r, asked), RelationshipMatch(s, asked)
    PROVE  RelationshipOverlap(r, s)
<1>1. /\ EndpointOverlap(r.source, s.source)
      /\ EndpointOverlap(r.target, s.target)
  BY MatchedEndpoints, Zenon DEF RelationshipMatch
<1>2. /\ ScalarCompat(r.interaction, s.interaction)
      /\ ScalarCompat(r.boundary, s.boundary)
  BY MatchedScalars DEF RelationshipMatch
<1>3. QED
  BY <1>1, <1>2, Zenon DEF RelationshipOverlap

\* Two dimensions one value satisfies overlap, wildcards included.
LEMMA MatchedDimensions ==
    ASSUME NEW c, NEW d, NEW asked, NEW wild, DimMatch(c, asked, wild), DimMatch(d, asked, wild),
           {} \in {c, d} \/ \E v \in asked : asked = {v}
    PROVE  DimOverlap(c, d, wild)
BY DEF DimMatch, DimOverlap

\* In every state, scopes that one artifact is in are found to overlap, by the
\* wildcard of environments as well (scopes_overlap in scope.py).
THEOREM SharedArtifactsMeanOverlap == Spec => []SharedArtifactMeansOverlap
<1>1. SharedArtifactMeansOverlap
  <2> SUFFICES ASSUME NEW a \in Scopes, NEW b \in Scopes,
                      \A d \in Dims : {} \in {a[d], b[d]} \/ \E v \in q[d] : q[d] = {v},
                      (a.relationship = None) <=> (b.relationship = None),
                      ScopeMatches(a, q), ScopeMatches(b, q)
               PROVE  ScopesOverlap(a, b)
    BY Zenon DEF SharedArtifactMeansOverlap
  <2>1. a.relationship # None => RelationshipOverlap(a.relationship, b.relationship)
    BY MatchedRelationships, Zenon DEF ScopeMatches
  <2>2. \A d \in Dims : DimOverlap(a[d], b[d], Wildcards(d))
    BY MatchedDimensions, Zenon DEF ScopeMatches
  <2>3. QED
    BY <2>1, <2>2, Zenon DEF ScopesOverlap
<1>2. QED
  BY <1>1, PTL

----------------------------------------------------------------------------
\* Refinement

Fields == Dims \cup {"relationship"}
TypeOK == /\ imported \in Catalogues
          /\ q = [f \in Fields |-> q[f]]

\* A query keeps its fields.
LEMMA Typing == Spec => []TypeOK
<1>1. Init => TypeOK
  BY DEF Init, TypeOK, Fields, Dims
<1>2. TypeOK /\ [Next]_vars => TypeOK'
  <2> SUFFICES ASSUME TypeOK, [Next]_vars PROVE TypeOK'
    OBVIOUS
  <2>1. CASE SupplySome
    BY <2>1 DEF SupplySome, Supply, TypeOK
  <2>2. CASE AddSome
    BY <2>2 DEF AddSome, Add, TypeOK
  <2>3. CASE RelateSome
    BY <2>3 DEF RelateSome, Relate, TypeOK
  <2>4. CASE UNCHANGED vars
    BY <2>4 DEF vars, TypeOK
  <2>5. QED
    BY <2>1, <2>2, <2>3, <2>4 DEF Next
<1>3. QED
  BY <1>1, <1>2, PTL DEF Spec

\* Each refinement changes one field of the query, and only one way.
Narrowed == \E d \in Dims : /\ q[d] = {}
                            /\ \A f \in Fields \ {d} : q'[f] = q[f]
Widened == \/ \E d \in Dims : /\ q[d] # {} /\ q[d] \subseteq q'[d]
                              /\ \A f \in Fields \ {d} : q'[f] = q[f]
           \/ /\ q.relationship = None
              /\ \A d \in Dims : q'[d] = q[d]
           \/ \A f \in Fields : q'[f] = q[f]

LEMMA StepsRefine ==
    ASSUME TypeOK, [Next]_vars
    PROVE  /\ imported' = imported
           /\ SupplySome => Narrowed
           /\ ~SupplySome => Widened
<1>1. imported' = imported
  BY DEF Next, SupplySome, Supply, AddSome, Add, RelateSome, Relate, vars
<1>2. SupplySome => Narrowed
  BY ValuesAssumption DEF SupplySome, Supply, Narrowed, TypeOK, Fields
<1>3. AddSome => Widened
  BY ValuesAssumption DEF AddSome, Add, Widened, TypeOK, Fields
<1>4. RelateSome => Widened
  <2>1. "relationship" \notin Dims
    BY DEF Dims
  <2>2. QED
    BY <2>1 DEF RelateSome, Relate, Widened, TypeOK, Fields
<1>5. UNCHANGED vars => Widened
  BY DEF vars, Widened
<1>6. QED
  BY <1>1, <1>2, <1>3, <1>4, <1>5 DEF Next

\* Supplying a silent dimension leaves no scope matched that was not.
LEMMA NarrowedMatches ==
    ASSUME Narrowed, NEW c, ScopeMatches(c, q') PROVE ScopeMatches(c, q)
<1>1. PICK d \in Dims : q[d] = {} /\ \A f \in Fields \ {d} : q'[f] = q[f]
  BY DEF Narrowed
<1>2. "relationship" \notin Dims
  BY DEF Dims
<1>3. q'.relationship = q.relationship
  BY <1>1, <1>2 DEF Fields
<1>4. \A e \in Dims : DimMatch(c[e], q[e], Wildcards(e))
  <2> SUFFICES ASSUME NEW e \in Dims PROVE DimMatch(c[e], q[e], Wildcards(e))
    OBVIOUS
  <2>1. CASE e = d
    BY <1>1, <2>1 DEF DimMatch
  <2>2. CASE e # d
    BY <1>1, <2>2 DEF ScopeMatches, Fields
  <2>3. QED
    BY <2>1, <2>2
<1>5. QED
  BY <1>3, <1>4 DEF ScopeMatches

\* Adding a value or a relationship leaves every scope matched that was.
LEMMA WidenedMatches ==
    ASSUME Widened, NEW c, ScopeMatches(c, q) PROVE ScopeMatches(c, q')
<1>1. CASE \E d \in Dims : /\ q[d] # {} /\ q[d] \subseteq q'[d]
                           /\ \A f \in Fields \ {d} : q'[f] = q[f]
  <2>1. PICK d \in Dims : /\ q[d] # {} /\ q[d] \subseteq q'[d]
                          /\ \A f \in Fields \ {d} : q'[f] = q[f]
    BY <1>1
  <2>2. "relationship" \notin Dims
    BY DEF Dims
  <2>3. q'.relationship = q.relationship
    BY <2>1, <2>2 DEF Fields
  <2>4. \A e \in Dims : DimMatch(c[e], q'[e], Wildcards(e))
    <3> SUFFICES ASSUME NEW e \in Dims PROVE DimMatch(c[e], q'[e], Wildcards(e))
      OBVIOUS
    <3>1. DimMatch(c[e], q[e], Wildcards(e))
      BY DEF ScopeMatches
    <3>2. q[e] \subseteq q'[e] /\ (q[e] = {} => q'[e] = {})
      BY <2>1 DEF Fields
    <3>3. QED
      BY <3>1, <3>2 DEF DimMatch
  <2>5. QED
    BY <2>3, <2>4 DEF ScopeMatches
<1>2. CASE q.relationship = None /\ \A d \in Dims : q'[d] = q[d]
  <2>1. c.relationship = None
    BY <1>2 DEF ScopeMatches, RelationshipMatch
  <2>2. QED
    BY <1>2, <2>1 DEF ScopeMatches
<1>3. CASE \A f \in Fields : q'[f] = q[f]
  BY <1>3 DEF ScopeMatches, Fields
<1>4. QED
  BY <1>1, <1>2, <1>3 DEF Widened

\* No refinement of a query moves its answer in both directions: supplying a
\* silent dimension only narrows, any other refinement only widens it
\* (_dim_match and _relationship_match in scope.py).
THEOREM RefinementsAreMonotone == Spec => RefinementIsMonotone
<1> DEFINE Monotone == /\ SupplySome => Selected' \subseteq Selected
                       /\ ~SupplySome => Selected \subseteq Selected'
<1>1. TypeOK /\ [Next]_vars => Monotone
  <2> SUFFICES ASSUME TypeOK, [Next]_vars PROVE Monotone
    OBVIOUS
  <2>1. imported' = imported
    BY StepsRefine
  <2>2. ASSUME SupplySome PROVE Selected' \subseteq Selected
    <3>1. Narrowed
      BY <2>2, StepsRefine
    <3>2. QED
      BY <2>1, <3>1, NarrowedMatches DEF Selected, Select
  <2>3. ASSUME ~SupplySome PROVE Selected \subseteq Selected'
    <3>1. Widened
      BY <2>3, StepsRefine
    <3>2. QED
      BY <2>1, <3>1, WidenedMatches DEF Selected, Select
  <2>4. QED
    BY <2>2, <2>3
<1>2. TypeOK /\ [Next]_vars => [Monotone]_vars
  BY <1>1
<1>3. [][Monotone]_vars => RefinementIsMonotone
  BY PTL DEF RefinementIsMonotone
<1>4. QED
  BY <1>2, <1>3, Typing, PTL DEF Spec

----------------------------------------------------------------------------
\* The vocabulary

\* The vocabulary of a bundle has every value of each of its scopes that is
\* not an empty string.
LEMMA VocabularyCovers ==
    ASSUME NEW c \in Scopes
    PROVE  LET voc == Vocabulary(imported)
           IN  /\ \A d \in Dims : c[d] \subseteq voc.dims[d]
               /\ c.relationship # None =>
                    /\ c.relationship.interaction \in voc.interactions \cup Unpublished
                    /\ c.relationship.source # None =>
                         c.relationship.source.layer \in voc.source_layers \cup Unpublished
                    /\ c.relationship.target # None =>
                         c.relationship.target.layer \in voc.target_layers \cup Unpublished
<1> DEFINE voc == Vocabulary(imported)
           related == {t \in Scopes : t.relationship # None}
<1>1. voc = [ dims          |-> [d \in Dims |-> UNION {s[d] : s \in Scopes}],
              source_layers |-> Layers(Scopes, "source"),
              target_layers |-> Layers(Scopes, "target"),
              interactions  |-> {s.relationship.interaction : s \in related} \ Unpublished ]
  BY Zenon DEF Vocabulary, Scopes
<1>2. \A d \in Dims : c[d] \subseteq voc.dims[d]
  <2> SUFFICES ASSUME NEW d \in Dims PROVE c[d] \subseteq voc.dims[d]
    OBVIOUS
  <2>1. voc.dims[d] = UNION {s[d] : s \in Scopes}
    BY <1>1
  <2>2. QED
    BY <2>1, Zenon
<1>3. ASSUME c.relationship # None
      PROVE  c.relationship.interaction \in voc.interactions \cup Unpublished
  <2>1. c \in related
    BY <1>3
  <2>2. voc.interactions = {s.relationship.interaction : s \in related} \ Unpublished
    BY <1>1
  <2>3. QED
    BY <2>1, <2>2, Zenon
<1>4. ASSUME NEW side, c.relationship # None, c.relationship[side] # None
      PROVE  c.relationship[side].layer \in Layers(Scopes, side) \cup Unpublished
  BY <1>4 DEF Layers
<1>5. voc.source_layers = Layers(Scopes, "source") /\ voc.target_layers = Layers(Scopes, "target")
  BY <1>1
<1>6. QED
  BY <1>2, <1>3, <1>4, <1>5

\* The endpoint an agent asks with to reach an endpoint.
Reaching(e) == AtLayer(IF e = None THEN None ELSE e.layer)

LEMMA ReachingMatches ==
    ASSUME NEW e, e = None \/ e = AtLayer(e.layer), Reaching(e) # None
    PROVE  EndpointMatch(e, Reaching(e))
<1>1. CASE e = None
  BY <1>1 DEF EndpointMatch
<1>2. CASE e # None
  <2>1. Reaching(e) = e
    BY <1>2 DEF Reaching
  <2>2. QED
    BY <1>2, <2>1 DEF EndpointMatch
<1>3. QED
  BY <1>1, <1>2

\* A constraint whose relationship is describable is selected by a query of
\* published values.
LEMMA DescribableIsReached ==
    ASSUME TypeOK, NEW c \in Scopes, Describable(c.relationship)
    PROVE  \E built \in QueriesOf(Vocabulary(imported)) :
               /\ \A d \in Dims : c[d] # {} => built[d] # {}
               /\ ScopeMatches(c, built)
<1> DEFINE voc == Vocabulary(imported)
           r == c.relationship
           asked == [source |-> Reaching(r.source), target |-> Reaching(r.target),
                     interaction |-> r.interaction, boundary |-> None]
           relationship == IF r = None THEN None ELSE asked
           built == [providers |-> c["providers"], environments |-> c["environments"],
                     resource_types |-> c["resource_types"], repos |-> c["repos"],
                     relationship |-> relationship]
<1>1. \A d \in Dims : built[d] = c[d]
  BY DEF Dims
<1>2. /\ \A d \in Dims : c[d] \subseteq voc.dims[d]
      /\ r # None => /\ r.interaction \in voc.interactions \cup {None}
                     /\ r.source # None => r.source.layer \in voc.source_layers \cup {None}
                     /\ r.target # None => r.target.layer \in voc.target_layers \cup {None}
  <2>1. /\ \A d \in Dims : c[d] \subseteq voc.dims[d]
        /\ r # None =>
             /\ r.interaction \in voc.interactions \cup Unpublished
             /\ r.source # None => r.source.layer \in voc.source_layers \cup Unpublished
             /\ r.target # None => r.target.layer \in voc.target_layers \cup Unpublished
    BY VocabularyCovers, Zenon
  <2>2. r # None => /\ r.interaction # ""
                    /\ r.source # None => r.source.layer # ""
                    /\ r.target # None => r.target.layer # ""
    BY Zenon DEF Describable
  <2> HIDE DEF voc, r
  <2>3. QED
    BY <2>1, <2>2 DEF Unpublished
<1>3. r # None => asked \in RelationshipsOf(voc)
  <2> SUFFICES ASSUME r # None PROVE asked \in RelationshipsOf(voc)
    OBVIOUS
  <2>1. /\ Reaching(r.source) \in EndpointsAt(voc.source_layers)
        /\ Reaching(r.target) \in EndpointsAt(voc.target_layers)
    <3> HIDE DEF voc, r
    <3>1. QED
      BY <1>2, Zenon DEF Reaching, EndpointsAt
  <2>2. QED
    BY <1>2, <2>1 DEF RelationshipsOf
<1>4. built \in QueriesOf(voc)
  <2>1. relationship \in RelationshipsOf(voc) \cup {None}
    BY <1>3
  <2>2. /\ c["providers"] \in SUBSET voc.dims["providers"]
        /\ c["environments"] \in SUBSET voc.dims["environments"]
        /\ c["resource_types"] \in SUBSET voc.dims["resource_types"]
        /\ c["repos"] \in SUBSET voc.dims["repos"]
    BY <1>2 DEF Dims
  <2> HIDE DEF relationship, voc
  <2>3. QED
    BY <2>1, <2>2 DEF QueriesOf
<1>5. r # None => RelationshipMatch(r, asked)
  <2> SUFFICES ASSUME r # None PROVE RelationshipMatch(r, asked)
    OBVIOUS
  <2>1. asked \in RelationshipsOf(voc) /\ asked # None
    BY <1>3, NoneAssumption DEF TypeOK
  <2>2. Reaching(r.source) # None /\ Reaching(r.target) # None
    BY <2>1, NoneAssumption DEF TypeOK, RelationshipsOf
  <2>3. EndpointMatch(r.source, Reaching(r.source)) /\ EndpointMatch(r.target, Reaching(r.target))
    BY <2>2, ReachingMatches DEF Describable
  <2>4. r.boundary = None
    BY DEF Describable
  <2>5. QED
    BY <2>1, <2>3, <2>4 DEF RelationshipMatch
<1>6. ScopeMatches(c, built)
  <2>1. \A d \in Dims : DimMatch(c[d], built[d], Wildcards(d))
    BY <1>1 DEF DimMatch
  <2>2. built.relationship = relationship
    OBVIOUS
  <2> HIDE DEF built
  <2>3. QED
    BY <1>5, <2>1, <2>2 DEF ScopeMatches
<1> HIDE DEF built, voc
<1>7. QED
  BY <1>1, <1>4, <1>6 DEF voc

\* An endpoint a layer alone reaches names a layer alone.
LEMMA ReachedByLayer ==
    ASSUME NEW e, e = [f \in EndpointFields |-> e[f]], NEW l, EndpointMatch(e, AtLayer(l)), e # None
    PROVE  e = AtLayer(e.layer)
<1>1. \A f \in EndpointFields : e[f] \in {None, AtLayer(l)[f]}
  BY DEF EndpointMatch
<1>2. e.component = None /\ e.domain = None /\ e.different_domain = None
  BY <1>1 DEF EndpointFields, AtLayer
<1>3. e = [layer |-> e.layer, component |-> e.component, domain |-> e.domain,
           different_domain |-> e.different_domain]
  BY DEF EndpointFields
<1>4. QED
  BY <1>2, <1>3 DEF AtLayer

\* A constraint that a query of published values selects is describable.
LEMMA ReachedIsDescribable ==
    ASSUME TypeOK, NEW c \in Scopes, NEW built \in QueriesOf(Vocabulary(imported)),
           ScopeMatches(c, built)
    PROVE  Describable(c.relationship)
<1> DEFINE voc == Vocabulary(imported)
           r == c.relationship
           asked == built.relationship
<1> SUFFICES ASSUME r # None PROVE Describable(r)
  BY DEF Describable
<1>1. RelationshipMatch(r, asked) /\ asked # None
  BY DEF ScopeMatches, RelationshipMatch
<1>2. asked \in RelationshipsOf(voc)
  BY <1>1 DEF QueriesOf
<1>3. r.boundary = None
  BY <1>1, <1>2 DEF RelationshipMatch, RelationshipsOf
<1>6. "" \notin voc.interactions /\ "" \notin voc.source_layers /\ "" \notin voc.target_layers
  BY DEF Vocabulary, Layers, Unpublished
<1>7. r.interaction # ""
  <2>1. asked.interaction \in voc.interactions \cup {None}
    BY <1>2 DEF RelationshipsOf
  <2>2. r.interaction \in {None, asked.interaction}
    BY <1>1 DEF RelationshipMatch
  <2> HIDE DEF voc, r, asked
  <2>3. QED
    BY <1>6, <2>1, <2>2, NoneAssumption
<1>4. ASSUME NEW side \in {"source", "target"}, r[side] # None
      PROVE  r[side] = AtLayer(r[side].layer) /\ r[side].layer # ""
  <2>1. PICK l \in voc.source_layers \cup voc.target_layers \cup {None} : asked[side] = AtLayer(l)
    BY <1>2, <1>4 DEF RelationshipsOf, EndpointsAt
  <2>2. EndpointMatch(r[side], AtLayer(l))
    BY <1>1, <1>4, <2>1 DEF RelationshipMatch
  <2>3. r[side] = [f \in EndpointFields |-> r[side][f]]
    <3>1. PICK ic \in imported : c = ic.constraint.scope
      BY DEF Scopes
    <3>2. imported \in Catalogues
      BY DEF TypeOK
    <3> HIDE DEF r
    <3>3. \A s \in {"source", "target"} :
            c.relationship = None \/ c.relationship[s] = None
            \/ c.relationship[s] = [f \in EndpointFields |-> c.relationship[s][f]]
      BY <3>1, <3>2, CataloguesAssumption, Zenon
    <3>4. QED
      BY <1>4, <3>3, Zenon DEF r
  <2>4. r[side] = AtLayer(r[side].layer)
    BY <1>4, <2>2, <2>3, ReachedByLayer
  <2>5. r[side].layer \in {None, AtLayer(l).layer}
    BY <1>4, <2>2 DEF EndpointMatch, EndpointFields
  <2>6. AtLayer(l).layer = l
    BY DEF AtLayer
  <2> HIDE DEF voc, r
  <2>7. r[side].layer # ""
    BY <1>6, <2>5, <2>6, NoneAssumption
  <2>8. QED
    BY <2>4, <2>7
<1> HIDE DEF r, voc, asked
<1>5. QED
  BY <1>3, <1>4, <1>7, Zenon DEF Describable

\* In every state, the queries an agent can build of what describe_scope
\* publishes reach exactly the constraints it is able to describe.
THEOREM VocabularyReaches == Spec => []VocabularyReachesWhatItDescribes
<1>1. TypeOK => VocabularyReachesWhatItDescribes
  BY DescribableIsReached, ReachedIsDescribable, Zenon DEF VocabularyReachesWhatItDescribes
<1>2. QED
  BY <1>1, Typing, PTL
=============================================================================
