------------------------------ MODULE Validate ------------------------------
(***************************************************************************)
(* The validation orchestrator (validate.py) and the integrity check       *)
(* (integrity.py).                                                         *)
(*                                                                         *)
(* files maps <<path, locator>> to what is on disk there: for a policy the *)
(* verdict its engine gives on each artifact (a function of the artifact), *)
(* or "raised" when the adapter lets an exception through; for a fixture   *)
(* an artifact.  The engines themselves are external.                      *)
(* The order of an enforcement list changes no verdict and no constraint   *)
(* lists a binding twice, so enforcement is a set of [engine, policy].     *)
(***************************************************************************)
EXTENDS Precedence, EngineRegistry

\* config.source(name): the first entry of that name; the path it resolves to.
PathOf(config, name) ==
    LET entries == {i \in DOMAIN config.sources : config.sources[i].name = name}
    IN  IF entries = {} THEN None ELSE config.sources[LowestOf(entries)].path

\* resolved_policy_path: None for a source the configuration does not know.
PolicyPath(config, name, locator) ==
    LET path == PathOf(config, name)
    IN  IF path = None THEN None ELSE <<path, locator>>

----------------------------------------------------------------------------
\* validate.py

\* Mutant of BindingVerdict: what nothing can evaluate is skipped.
BindingVerdictIfServed(ic, b, artifact, registry, config, files) ==
    LET path == PolicyPath(config, ic.source, b.policy)
    IN  IF ForBinding(registry, b.engine) = None \/ path \notin DOMAIN files
        THEN "pass"
        ELSE files[path][artifact]

BindingVerdict(ic, b, artifact, registry, config, files) ==
    LET path == PolicyPath(config, ic.source, b.policy)
    IN  IF ForBinding(registry, b.engine) = None \/ path \notin DOMAIN files
        THEN "error"
        ELSE files[path][artifact]

\* adapter is not None and policy_path.exists()
Evaluable(ic, b, registry, config, files) ==
    /\ ForBinding(registry, b.engine) # None
    /\ PolicyPath(config, ic.source, b.policy) \in DOMAIN files

Combined(verdicts) ==
    CASE "error" \in verdicts                            -> "error"
      [] "error" \notin verdicts /\ "fail" \in verdicts  -> "fail"
      [] OTHER                                           -> "pass"

EvaluateBound(ic, artifact, registry, config, files) ==
    Combined({BindingVerdict(ic, b, artifact, registry, config, files) :
                b \in ic.constraint.enforcement})

IsAdvisory(c) == c.enforcement = {}

\* The entry of a constraint whose bindings gave verdict.
ResultWith(ic, verdict) ==
    [constraint |-> EffectiveId(ic),
     severity   |-> ic.constraint.severity,
     kind       |-> IF IsAdvisory(ic.constraint) THEN "advisory" ELSE "enforced",
     verdict    |-> IF IsAdvisory(ic.constraint) THEN "informational" ELSE verdict]

\* The report while nothing on disk changes.  RegistryService goes through the
\* bindings one by one, over a disk that does.
ResultOf(ic, artifact, registry, config, files) ==
    ResultWith(ic, EvaluateBound(ic, artifact, registry, config, files))

ValidationReport(bundle, artifact, scope, registry, config, files) ==
    [bundle_id |-> bundle.bundle_id,
     results   |-> {ResultOf(ic, artifact, registry, config, files) :
                      ic \in Select(bundle.constraints, scope)}]

\* An exception out of one adapter ends validate, and there is no report.
ValidationRaises(bundle, artifact, scope, registry, config, files) ==
    \E ic \in Select(bundle.constraints, scope) : \E b \in ic.constraint.enforcement :
        BindingVerdict(ic, b, artifact, registry, config, files) = "raised"

Passed(report) == \A r \in report.results : r.verdict \notin {"fail", "error"}

----------------------------------------------------------------------------
\* integrity.py

Malformed == "not JSON"      \* a fixture json.loads refuses

FixturesOf(c) ==
    IF c.fixtures = None THEN {}
    ELSE {f \in {[locator |-> c.fixtures.pass, expected |-> "pass"],
                 [locator |-> c.fixtures.fail, expected |-> "fail"]} : f.locator # None}

\* Mutant of FixtureIssue: any verdict but an error is taken for the expected one.
FixtureIssueIfError(ic, f, policy, config, files) ==
    LET path == PolicyPath(config, ic.source, f.locator)
    IN  IF path \notin DOMAIN files THEN "fixture-missing"
        ELSE IF files[path] = Malformed THEN "raised"
        ELSE IF files[policy][files[path]] = "error" THEN "evaluation-error" ELSE "none"

FixtureIssue(ic, f, policy, config, files) ==
    LET path == PolicyPath(config, ic.source, f.locator)
    IN  IF path \notin DOMAIN files THEN "fixture-missing"
        ELSE IF files[path] = Malformed THEN "raised"
        ELSE LET verdict == files[policy][files[path]]
             IN  CASE verdict = f.expected -> "none"
                   [] verdict = "error"    -> "evaluation-error"
                   [] verdict = "raised"   -> "raised"
                   [] OTHER                -> "fixture-mismatch"

BindingIssues(ic, b, registry, config, files) ==
    LET policy == PolicyPath(config, ic.source, b.policy)
    IN  IF ForBinding(registry, b.engine) = None THEN {"no-engine-adapter"}
        ELSE IF policy \notin DOMAIN files THEN {"policy-unresolved"}
        ELSE {FixtureIssue(ic, f, policy, config, files) :
                f \in FixturesOf(ic.constraint)} \ {"none"}

\* The issues check_integrity reports; a "raised" one aborts the whole check.
IntegrityIssues(constraints, registry, config, files) ==
    UNION {{[constraint |-> EffectiveId(ic), kind |-> k] :
              k \in UNION {BindingIssues(ic, b, registry, config, files) :
                             b \in ic.constraint.enforcement}} : ic \in constraints}
=============================================================================
