------------------------------ MODULE Harness ------------------------------
(***************************************************************************)
(* The verification harness (harness/run.py) with the two sections that    *)
(* judge enforcement: VH-ENGINE (harness/checks/engine.py, by way of the   *)
(* conformance suite engine/conformance.py) and VH-INTEGRITY               *)
(* (harness/checks/integrity.py).                                          *)
(*                                                                         *)
(* A setting h has the imported constraints, the configuration, the        *)
(* engines whose binary is installed, the files as every engine sees them  *)
(* (through[engine], which has "error" verdicts only when the engine is    *)
(* not installed), and files, each policy through the engine it is for.    *)
(***************************************************************************)
EXTENDS Validate

Registered(h) == FromConfig(h.config.engines)
\* registry.get(name) goes by the name of the entry, not by its adapter's.
EngineNamed(h, name) == AdapterEngine[Registered(h)[name].adapter]
AvailableAs(h, name) == EngineNamed(h, name) \in h.installed

----------------------------------------------------------------------------
\* Conformance cases and the suite

\* The bindings to OPA, each with every fixture of its constraint.
OpaCaseSources(h) ==
    UNION {{[ic |-> ic, binding |-> b, fixture |-> f] :
              b \in {x \in ic.constraint.enforcement : x.engine = "opa"},
              f \in FixturesOf(ic.constraint)} : ic \in h.imported}
FixturePath(h, s) == PolicyPath(h.config, s.ic.source, s.fixture.locator)

\* Reading a fixture that is missing, or is not JSON, raises.
OpaCasesRaise(h) ==
    \E s \in OpaCaseSources(h) :
        FixturePath(h, s) \notin DOMAIN h.files \/ h.files[FixturePath(h, s)] = Malformed

OpaCases(h) ==
    {[policy   |-> PolicyPath(h.config, s.ic.source, s.binding.policy),
      artifact |-> h.files[FixturePath(h, s)],
      expected |-> s.fixture.expected] : s \in OpaCaseSources(h)}

\* What the adapter of an engine makes of a case; a missing policy is an error.
Evaluate(h, engine, c) ==
    IF c.policy \notin DOMAIN h.through[engine] THEN "error"
    ELSE h.through[engine][c.policy][c.artifact]

\* run_conformance.  can_handle and the missing policy are right for every
\* adapter of the repository; a case that raises ends the suite.  The checks
\* of a verdict's violations and of a second evaluation are left out: they can
\* only fail a case more, and what is claimed is of suites that pass.
RunConformance(h, engine) ==
    LET verdicts == {[got |-> Evaluate(h, engine, c), expected |-> c.expected] : c \in OpaCases(h)}
    IN  IF \E v \in verdicts : v.got = "raised" THEN "raised"
        ELSE IF \A v \in verdicts : v.got = v.expected THEN "pass" ELSE "fail"

----------------------------------------------------------------------------
\* VH-ENGINE

ConformanceOf(h, name) == IF OpaCasesRaise(h) THEN "raised" ELSE RunConformance(h, EngineNamed(h, name))

\* VH-ENGINE-1 wants the entry "opa" to be OPA, and at least one case.
ReferenceAdapter(h) ==
    CASE "opa" \notin DOMAIN Registered(h) -> "fail"
      [] "opa" \in DOMAIN Registered(h) /\ ~AvailableAs(h, "opa") -> "skip"
      [] OTHER -> IF ConformanceOf(h, "opa") = "pass"
                     /\ (EngineNamed(h, "opa") # "opa" \/ OpaCaseSources(h) = {})
                  THEN "fail" ELSE ConformanceOf(h, "opa")

\* VH-ENGINE-2: its two results besides the cases make "more than one" true.
ConformanceSuite(h) ==
    CASE "opa" \notin DOMAIN Registered(h) -> "fail"
      [] "opa" \in DOMAIN Registered(h) /\ ~AvailableAs(h, "opa") -> "skip"
      [] OTHER -> ConformanceOf(h, "opa")

SecondAdapter(h) ==
    IF "conftest" \notin DOMAIN Registered(h) \/ ~AvailableAs(h, "conftest") THEN "skip"
    ELSE ConformanceOf(h, "conftest")

\* VH-ENGINE-3: there are advisory constraints, and some that need an engine.
AdvisoryNoEngine(h) ==
    IF (\E ic \in h.imported : IsAdvisory(ic.constraint)) /\ RequiredEngines(h.imported) # {}
    THEN "pass" ELSE "fail"

EngineSection(h) == {ReferenceAdapter(h), ConformanceSuite(h), SecondAdapter(h), AdvisoryNoEngine(h)}

----------------------------------------------------------------------------
\* VH-INTEGRITY

\* report.cross_checked > 0
CrossChecked(h) ==
    \E ic \in h.imported : \E b \in ic.constraint.enforcement :
        /\ ForBinding(Registered(h), b.engine) # None
        /\ PolicyPath(h.config, ic.source, b.policy) \in DOMAIN h.files
        /\ \E f \in FixturesOf(ic.constraint) :
               PolicyPath(h.config, ic.source, f.locator) \in DOMAIN h.files

\* VH-INTEGRITY-1 skips every engine's fixtures when OPA is not installed.
CrossCheck(h) ==
    LET issues == IntegrityIssues(h.imported, Registered(h), h.config, h.files)
    IN  CASE "opa" \in DOMAIN Registered(h) /\ ~AvailableAs(h, "opa") -> "skip"
          [] "opa" \notin DOMAIN Registered(h) \/ AvailableAs(h, "opa") ->
               IF \E i \in issues : i.kind = "raised" THEN "raised"
               ELSE IF issues = {} /\ CrossChecked(h) THEN "pass" ELSE "fail"

\* VH-INTEGRITY-2: the scenario's binding to OPA has no policy, which is only
\* found if an adapter serves OPA.
BrokenBinding(h) == IF ForBinding(Registered(h), "opa") = None THEN "fail" ELSE "pass"

IntegritySection(h) == {CrossCheck(h), BrokenBinding(h)}

----------------------------------------------------------------------------
\* run_all and build_report

\* Mutant of Outcomes: a section that raises is left out of the report.
OutcomesUnlessRaised(section) == IF "raised" \in section THEN {} ELSE section

\* A section that raises loses its results and counts as one failed check.
Outcomes(section) == IF "raised" \in section THEN {"fail"} ELSE section

\* Skipped checks do not fail the run.
HarnessPassed(h) == "fail" \notin Outcomes(EngineSection(h)) \cup Outcomes(IntegritySection(h))
=============================================================================
