---------------------------- MODULE MCEnforcement ----------------------------
(* A constraint with one binding, one with two, an advisory one; two       *)
(* engines, and entries that carry another engine's name or an adapter     *)
(* that fails to load.                                                     *)
EXTENDS Enforcement

Everywhere == [providers |-> {}, environments |-> {}, resource_types |-> {},
               repos |-> {}, relationship |-> None]
Binding(engine) == [engine |-> engine, policy |-> engine]
Imported(id, severity, bindings) ==
    [source |-> "team",
     constraint |-> [id |-> id, severity |-> severity, scope |-> Everywhere,
                     enforcement |-> bindings,
                     fixtures |-> [pass |-> "good.json", fail |-> "bad.json"]]]
MCCatalogue == {Imported("one", "hard", {Binding("opa")}),
                Imported("two", "soft", {Binding("opa"), Binding("conftest")}),
                Imported("none", "advisory", {})}
MCSources == <<[name |-> "team", path |-> "dir", precedence |-> 1]>>
MCQueries == {Everywhere}
MCIdOrder == <<>>

MCAdapterEngine == [a \in {"OpaAdapter", "ConftestAdapter"} |->
                      IF a = "OpaAdapter" THEN "opa" ELSE "conftest"]
MCEntries == {[name |-> n, adapter |-> a] :
                n \in {"opa", "conftest"}, a \in {"OpaAdapter", "ConftestAdapter"}}
             \cup {[name |-> "opa", adapter |-> "Missing"]}

MCPolicyEngine == [p \in {<<"dir", "opa">>, <<"dir", "conftest">>} |-> p[2]]
\* A policy that is right, too lax, too strict, unusable, or on which the
\* adapter raises.
Right  == [good |-> "pass", bad |-> "fail"]
Lax    == [good |-> "pass", bad |-> "pass"]
Raises == [good |-> "pass", bad |-> "raised"]
MCPolicyTexts == [p \in DOMAIN MCPolicyEngine |->
                    {Right, Lax, Raises} \cup
                      IF p[2] = "opa" THEN {[a \in Artifacts |-> "fail"], [a \in Artifacts |-> "error"]}
                      ELSE {}]
MCFixturePlaces == {<<"dir", "good.json">>, <<"dir", "bad.json">>}
=============================================================================
