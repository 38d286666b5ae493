---------------------------- MODULE MCPrecedence ----------------------------
(* Two constraints of one team and one of each of two others, under every  *)
(* choice of two precedence levels, and a configuration that lists a team  *)
(* twice.                                                                  *)
EXTENDS Aggregation, TLC

MCIdOrder == <<"s1", "c1">> :> 1 @@ <<"s1", "c2">> :> 2 @@
             <<"s2", "c1">> :> 3 @@ <<"s3", "c1">> :> 4
MCSlots == DOMAIN MCIdOrder

ScopeX == [providers |-> {"aws"}, environments |-> {}, resource_types |-> {},
           repos |-> {}, relationship |-> None]
MCScopes == {ScopeX, [ScopeX EXCEPT !.environments = {"all"}]}

Entry(name, level) == [name |-> name, path |-> name, precedence |-> level]
MCConfigs ==
    {[sources |-> <<Entry("s1", l[1]), Entry("s2", l[2]), Entry("s3", l[3])>>] :
        l \in [1..3 -> 1..2] \ {<<2, 2, 2>>}}
      \cup {[sources |-> <<Entry("s1", 1), Entry("s2", 1), Entry("s3", 1), Entry("s2", 2)>>]}
=============================================================================
