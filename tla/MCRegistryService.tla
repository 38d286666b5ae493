-------------------------- MODULE MCRegistryService --------------------------
(***************************************************************************)
(* Two source teams, a guild (higher precedence) and a team, one scope     *)
(* they both write constraints for, two engines.                           *)
(***************************************************************************)
EXTENDS ServiceClaims, TLC

Aws == [providers |-> {"aws"}, environments |-> {}, resource_types |-> {},
        repos |-> {}, relationship |-> None]
Anything == [Aws EXCEPT !.providers = {}]
MCScopes == {Anything}

Binding(engine) == [engine |-> engine, policy |-> engine]
Con(id, severity, bindings) ==
    [id |-> id, severity |-> severity, scope |-> Aws, enforcement |-> bindings,
     fixtures |-> None]

Encrypt == Con("encrypt", "hard", {Binding("opa")})
Tag     == Con("tag", "hard", {Binding("semgrep")})
Relaxed == Con("relaxed", "soft", {})
Audit   == Con("audit", "hard", {Binding("opa")})

MCIdOrder == <<"guild", "audit">> :> 0 @@ <<"guild", "encrypt">> :> 1
             @@ <<"team", "relaxed">> :> 2 @@ <<"team", "tag">> :> 3
MCAdapterEngine == "OpaAdapter" :> "opa" @@ "SemgrepAdapter" :> "semgrep"

Entry(engine, adapter) == [name |-> engine, adapter |-> adapter]
Opa     == Entry("opa", "OpaAdapter")
Semgrep == Entry("semgrep", "SemgrepAdapter")

Source(name, precedence) == [name |-> name, path |-> name, precedence |-> precedence]
Config(teamPrecedence, engines) ==
    [sources |-> <<Source("guild", 2), Source("team", teamPrecedence)>>, engines |-> engines]

\* A policy rejects the artifact "bad" only.
Policies(paths) == [p \in paths |-> [a \in {"good", "bad"} |-> IF a = "bad" THEN "fail" ELSE "pass"]]
OpaPolicy == <<"guild", "opa">>
SemgrepPolicy == <<"team", "semgrep">>
Disk(cfgOf, team, paths) ==
    [config |-> cfgOf, constraints |-> "guild" :> {Encrypt} @@ "team" :> team,
     raises |-> {}, files |-> Policies(paths)]

Plain     == Disk(Config(1, <<Opa>>), {}, {OpaPolicy})
\* the team starts to use a second engine
Grown     == Disk(Config(1, <<Opa, Semgrep>>), {Tag}, {OpaPolicy, SemgrepPolicy})
\* the team relaxes the guild's constraint: an import error ...
Relaxing  == Disk(Config(1, <<Opa>>), {Relaxed}, {OpaPolicy})
\* ... but not once both sources have the same precedence
Levelled  == Disk(Config(2, <<Opa>>), {Relaxed}, {OpaPolicy})
\* the configuration does not load
Broken    == Disk(NoConfig, {Tag}, {OpaPolicy, SemgrepPolicy})

\* a file of the team does not decode
Garbled   == [Plain EXCEPT !.raises = {"team"}]
\* levelled, with a second engine configured
Widened   == [Levelled EXCEPT !.config.engines = <<Opa, Semgrep>>]

\* The guild moves to another directory, where it writes a constraint its
\* policy enforces; the policy left behind in the old one accepts anything.
Elsewhere == "guild2"
MovedPolicy == <<Elsewhere, "opa">>
Moved     == [config |-> [Plain.config EXCEPT !.sources[1].path = Elsewhere],
              constraints |-> Elsewhere :> {Audit}, raises |-> {},
              files |-> [Policies({OpaPolicy, MovedPolicy})
                           EXCEPT ![OpaPolicy] = [good |-> "pass", bad |-> "pass"]]]

\* moved, to a policy its adapter raises on
Choking   == [Moved EXCEPT !.files[MovedPolicy] = [good |-> "pass", bad |-> "raised"]]

ServiceDisks == {Grown, Choking}
ReloadDisks == {Plain, Widened, Broken, Garbled}
SwapDisks == {Plain, Moved}
RelaxingDisks == {Plain, Relaxing}
=============================================================================
