------------------------------ MODULE MCScope ------------------------------
(* Every pair of scopes two teams may give their constraint; two dimensions *)
(* vary, the one with a wildcard and one without.                           *)
EXTENDS Discovery

CONSTANT Vals        \* providers

Envs == SUBSET {"prod", "all"}
Ends == {None} \cup
        {[layer |-> l, component |-> None, domain |-> None, different_domain |-> d] :
            l \in {None, "api"}, d \in {None, TRUE}}
Between(s, t, i) == [source |-> s, target |-> t, interaction |-> i, boundary |-> None]
Rels == {Between(s, t, i) : s \in {None, AtLayer("api")}, t \in Ends, i \in {None, "sync"}}
        \cup {Between(None, AtLayer(""), None), Between(AtLayer("api"), None, "")}

ScopeOf(p, e, r) ==
    [providers |-> p, environments |-> e, resource_types |-> {}, repos |-> {},
     relationship |-> r]

\* Attribute-only and relationship-only scopes.
ConstraintScopes ==
    {ScopeOf(p, e, None) : p \in SUBSET Vals, e \in Envs} \cup
    {ScopeOf({}, {"prod"}, r) : r \in Rels}

MCCatalogues == {{[source |-> "s", constraint |-> [id |-> "a", scope |-> x]],
                  [source |-> "t", constraint |-> [id |-> "b", scope |-> y]]} :
                    x \in ConstraintScopes, y \in ConstraintScopes}
MCValuesOf == [d \in {"providers", "environments"} |->
                 IF d = "providers" THEN Vals ELSE {"prod", "all"}]
=============================================================================
