------------------------- MODULE Enforcement_proofs -------------------------
(***************************************************************************)
(* The theorems about enforcement, for any catalogue, any engines, any     *)
(* entries and files, and policies that may do anything on any artifact.   *)
(***************************************************************************)
EXTENDS Enforcement, WellFoundedInduction, TLAPS

----------------------------------------------------------------------------
\* What the integrity check and the evaluation make of a binding

\* A fixture is for the verdict pass or for the verdict fail.
LEMMA ExpectedVerdicts ==
    ASSUME NEW c, NEW f \in FixturesOf(c)
    PROVE  f.expected \in {"pass", "fail"}
BY DEF FixturesOf

\* One verdict all bindings agree on is the constraint's.
LEMMA CombinedAgreed == ASSUME NEW v \in {"pass", "fail"} PROVE Combined({v}) = v
BY DEF Combined

LEMMA CombinedError == ASSUME NEW V, "error" \in V PROVE Combined(V) = "error"
BY DEF Combined

\* A fixture with no issue is there, can be read, and got its verdict.
LEMMA NoFixtureIssue ==
    ASSUME NEW ic, NEW f \in FixturesOf(ic.constraint), NEW policy, NEW conf, NEW files,
           FixtureIssue(ic, f, policy, conf, files) = "none"
    PROVE  LET path == PolicyPath(conf, ic.source, f.locator)
           IN  /\ path \in DOMAIN files /\ files[path] # Malformed
               /\ files[policy][files[path]] = f.expected
<1> DEFINE path == PolicyPath(conf, ic.source, f.locator)
           verdict == files[policy][files[path]]
<1>1. f.expected \in {"pass", "fail"}
  BY ExpectedVerdicts
<1> HIDE DEF path
<1>2. FixtureIssue(ic, f, policy, conf, files) =
        IF path \notin DOMAIN files THEN "fixture-missing"
        ELSE IF files[path] = Malformed THEN "raised"
        ELSE CASE verdict = f.expected -> "none"
               [] verdict = "error"    -> "evaluation-error"
               [] verdict = "raised"   -> "raised"
               [] OTHER                -> "fixture-mismatch"
  BY DEF FixtureIssue, path
<1> HIDE DEF verdict
<1>3. path \in DOMAIN files /\ files[path] # Malformed /\ verdict = f.expected
  BY <1>1, <1>2
<1>4. QED
  BY <1>3 DEF path, verdict

\* A binding with no issue is served, its policy is on disk, and every fixture
\* of its constraint gets its verdict.
LEMMA NoBindingIssue ==
    ASSUME NEW ic, NEW b, NEW registry, NEW conf, NEW files,
           BindingIssues(ic, b, registry, conf, files) = {},
           NEW f \in FixturesOf(ic.constraint)
    PROVE  LET path == PolicyPath(conf, ic.source, f.locator)
           IN  /\ path \in DOMAIN files /\ files[path] # Malformed
               /\ BindingVerdict(ic, b, files[path], registry, conf, files) = f.expected
<1> DEFINE path == PolicyPath(conf, ic.source, f.locator)
           policy == PolicyPath(conf, ic.source, b.policy)
<1>1. ForBinding(registry, b.engine) # None /\ policy \in DOMAIN files
  BY Zenon DEF BindingIssues
<1>2. FixtureIssue(ic, f, policy, conf, files) = "none"
  BY <1>1, Zenon DEF BindingIssues
<1>3. /\ path \in DOMAIN files /\ files[path] # Malformed
      /\ files[policy][files[path]] = f.expected
  BY <1>2, NoFixtureIssue, Zenon
<1>4. QED
  BY <1>1, <1>3, Zenon DEF BindingVerdict

\* What the integrity check finds of a binding is among the issues it reports.
LEMMA IssuesOfBinding ==
    ASSUME NEW imported, NEW registry, NEW conf, NEW files,
           IntegrityIssues(imported, registry, conf, files) = {},
           NEW ic \in imported, NEW b \in ic.constraint.enforcement
    PROVE  BindingIssues(ic, b, registry, conf, files) = {}
<1> DEFINE kinds(x) == UNION {BindingIssues(x, y, registry, conf, files) :
                                y \in x.constraint.enforcement}
           issues(x) == {[constraint |-> EffectiveId(x), kind |-> k] : k \in kinds(x)}
<1>1. UNION {issues(x) : x \in imported} = {}
  BY Zenon DEF IntegrityIssues
<1>2. issues(ic) = {}
  <2> HIDE DEF issues
  <2>1. QED
    BY <1>1
<1>3. kinds(ic) = {}
  <2> HIDE DEF kinds
  <2>1. QED
    BY <1>2
<1>4. QED
  BY <1>3

----------------------------------------------------------------------------
\* The integrity check and validate

\* A query that selects a constraint of a set selects it from itself alone.
LEMMA SelectAlone ==
    ASSUME NEW imported, NEW q, NEW ic \in Select(imported, q)
    PROVE  ic \in imported /\ Select({ic}, q) = {ic}
BY DEF Select

\* Without issues, validate agrees with the fixtures of every bound constraint.
LEMMA NoIssuesAgree ==
    ASSUME Issues = {}, NEW q \in Queries, NEW ic \in Select(Catalogue, q),
           ~IsAdvisory(ic.constraint)
    PROVE  AgreesWithFixtures(ic, q)
<1> SUFFICES ASSUME NEW f \in FixturesOf(ic.constraint)
             PROVE  LET place == PolicyPath(Config, ic.source, f.locator)
                        results == Report({ic}, Files[place], q).results
                    IN  /\ place \in OnDisk /\ Files[place] # Malformed
                        /\ ~Raised({ic}, Files[place], q)
                        /\ results # {} /\ \A r \in results : r.verdict = f.expected
  BY Zenon DEF AgreesWithFixtures
<1> DEFINE place == PolicyPath(Config, ic.source, f.locator)
           results == Report({ic}, Files[place], q).results
           verdictOf(b) == BindingVerdict(ic, b, Files[place], Registry, Config, Files)
<1>1. ic \in Catalogue /\ Select({ic}, q) = {ic}
  BY SelectAlone
<1>2. f.expected \in {"pass", "fail"}
  BY ExpectedVerdicts, Zenon
<1>3. PICK b0 \in ic.constraint.enforcement : TRUE
  BY DEF IsAdvisory
<1>4. \A b \in ic.constraint.enforcement :
        place \in DOMAIN Files /\ Files[place] # Malformed /\ verdictOf(b) = f.expected
  <2> SUFFICES ASSUME NEW b \in ic.constraint.enforcement
               PROVE  /\ place \in DOMAIN Files /\ Files[place] # Malformed
                      /\ verdictOf(b) = f.expected
    OBVIOUS
  <2>1. BindingIssues(ic, b, Registry, Config, Files) = {}
    BY <1>1, IssuesOfBinding, Zenon DEF Issues
  <2>2. QED
    BY <2>1, NoBindingIssue
<1>5. place \in OnDisk
  BY <1>3, <1>4 DEF Files
<1>6. ~Raised({ic}, Files[place], q)
  <2>1. Raised({ic}, Files[place], q) <=>
          \E b \in ic.constraint.enforcement : verdictOf(b) = "raised"
    BY <1>1 DEF Raised, ValidationRaises
  <2> HIDE DEF verdictOf
  <2>2. QED
    BY <1>2, <1>4, <2>1
<1>7. results = {ResultOf(ic, Files[place], Registry, Config, Files)}
  BY <1>1 DEF Report, ValidationReport
<1>8. ResultOf(ic, Files[place], Registry, Config, Files).verdict = f.expected
  <2>1. {verdictOf(b) : b \in ic.constraint.enforcement} = {f.expected}
    <3> HIDE DEF verdictOf
    <3>1. QED
      BY <1>3, <1>4
  <2>2. EvaluateBound(ic, Files[place], Registry, Config, Files) = Combined({f.expected})
    BY <2>1, Zenon DEF EvaluateBound
  <2>3. EvaluateBound(ic, Files[place], Registry, Config, Files) = f.expected
    BY <1>2, <2>2, CombinedAgreed
  <2>4. QED
    BY <2>3 DEF ResultOf, ResultWith
<1>9. QED
  <2> HIDE DEF results
  <2>1. results # {} /\ \A r \in results : r.verdict = f.expected
    BY <1>7, <1>8, Zenon
  <2>2. QED
    BY <1>3, <1>4, <1>5, <1>6, <2>1, Zenon DEF results

\* In every state, whatever is configured, installed and on disk: with no
\* integrity issue each bound constraint passes on its pass fixture and fails
\* on its fail fixture (check_integrity in integrity.py, validate.py).
THEOREM CleanIntegrityPredicts == Spec => []CleanIntegrityPredictsValidate
<1>1. CleanIntegrityPredictsValidate
  BY NoIssuesAgree, Zenon DEF CleanIntegrityPredictsValidate
<1>2. QED
  BY <1>1, PTL

\* A green harness that could look at OPA found no integrity issue: a section
\* that raised counts as failed, and a cross-check that did not fail passed.
LEMMA GreenHarnessHasNoIssues ==
    ASSUME HarnessPassed(Setting), "opa" \in DOMAIN Registry, AvailableAs(Setting, "opa")
    PROVE  Issues = {}
<1>1. Registered(Setting) = Registry
  BY DEF Registered, Setting, Registry, Config
<1>2. IntegrityIssues(Setting.imported, Registered(Setting), Setting.config, Setting.files) = Issues
  BY <1>1 DEF Setting, Issues
<1>3. CrossCheck(Setting) = IF \E i \in Issues : i.kind = "raised" THEN "raised"
                            ELSE IF Issues = {} /\ CrossChecked(Setting) THEN "pass" ELSE "fail"
  BY <1>1, <1>2 DEF CrossCheck
<1>4. CrossCheck(Setting) \in IntegritySection(Setting)
  BY DEF IntegritySection
<1>5. CrossCheck(Setting) \notin {"fail", "raised"}
  BY <1>4 DEF HarnessPassed, Outcomes
<1>6. QED
  BY <1>3, <1>5

\* In every state a green harness that had OPA to ask means that validate agrees
\* with every fixture (run_all and build_report in harness/run.py).
THEOREM GreenHarnessIsTruthful == Spec => []GreenHarnessIsEarned
<1>1. GreenHarnessIsEarned
  BY GreenHarnessHasNoIssues, NoIssuesAgree, Zenon DEF GreenHarnessIsEarned
<1>2. QED
  BY <1>1, PTL

\* A binding no adapter serves, or whose policy is not there, is an error on
\* every artifact.
LEMMA UnservedIsError ==
    ASSUME NEW ic, NEW b, NEW a, NEW registry, NEW conf, NEW files,
           BindingIssues(ic, b, registry, conf, files)
             \cap {"no-engine-adapter", "policy-unresolved"} # {}
    PROVE  BindingVerdict(ic, b, a, registry, conf, files) = "error"
<1> DEFINE policy == PolicyPath(conf, ic.source, b.policy)
<1>1. CASE ForBinding(registry, b.engine) = None \/ policy \notin DOMAIN files
  BY <1>1, Zenon DEF BindingVerdict
<1>2. CASE ~(ForBinding(registry, b.engine) = None \/ policy \notin DOMAIN files)
  <2>1. BindingIssues(ic, b, registry, conf, files) \subseteq
          {FixtureIssue(ic, f, policy, conf, files) : f \in FixturesOf(ic.constraint)}
    BY <1>2, Zenon DEF BindingIssues
  <2>2. \A f \in FixturesOf(ic.constraint) :
          FixtureIssue(ic, f, policy, conf, files) \notin {"no-engine-adapter", "policy-unresolved"}
    <3> HIDE DEF policy
    <3>1. QED
      BY ExpectedVerdicts DEF FixtureIssue
  <2>3. QED
    BY <2>1, <2>2
<1>3. QED
  BY <1>1, <1>2

\* In every state, a constraint the integrity check calls unenforceable keeps
\* every report it is part of from passing (_evaluate_bound in validate.py).
THEOREM UnenforceableIsNeverPassed == Spec => []UnenforceableNeverPasses
<1>1. UnenforceableNeverPasses
  <2> SUFFICES ASSUME NEW q \in Queries, NEW ic \in Select(Catalogue, q),
                      NEW b \in ic.constraint.enforcement,
                      BindingIssues(ic, b, Registry, Config, Files)
                        \cap {"no-engine-adapter", "policy-unresolved"} # {},
                      NEW a \in Artifacts
               PROVE  ~Passed(Report(Catalogue, a, q))
    BY Zenon DEF UnenforceableNeverPasses
  <2>1. BindingVerdict(ic, b, a, Registry, Config, Files) = "error"
    BY UnservedIsError, Zenon
  <2>2. EvaluateBound(ic, a, Registry, Config, Files) = "error"
    BY <2>1, CombinedError, Zenon DEF EvaluateBound
  <2>3. ~IsAdvisory(ic.constraint)
    BY DEF IsAdvisory
  <2>4. ResultOf(ic, a, Registry, Config, Files).verdict = "error"
    BY <2>2, <2>3 DEF ResultOf, ResultWith
  <2>5. ResultOf(ic, a, Registry, Config, Files) \in Report(Catalogue, a, q).results
    BY DEF Report, ValidationReport
  <2>6. QED
    BY <2>4, <2>5 DEF Passed
<1>2. QED
  BY <1>1, PTL

----------------------------------------------------------------------------
\* The engine registry

Typed == engines \in Seq(Entries)

LEMMA Typing == Spec => []Typed
<1>1. Init => Typed
  BY DEF Init, Typed
<1>2. Typed /\ [Next]_vars => Typed'
  <2> SUFFICES ASSUME Typed, [Next]_vars PROVE Typed'
    OBVIOUS
  <2>1. CASE AppendSome
    BY <2>1 DEF AppendSome, AppendEntry, Typed
  <2>2. CASE DropFirst
    BY <2>2 DEF DropFirst, Typed
  <2>3. CASE WriteSome \/ InstallSome \/ UNCHANGED vars
    BY <2>3 DEF WriteSome, Write, InstallSome, InstallOrRemove, vars, Typed
  <2>4. QED
    BY <2>1, <2>2, <2>3 DEF Next
<1>3. QED
  BY <1>1, <1>2, PTL DEF Spec

\* A set of positions that is not empty has a lowest one.
LEMMA LowestIsLeast ==
    ASSUME NEW S \in SUBSET Nat, S # {}
    PROVE  LowestOf(S) \in S /\ \A j \in S : LowestOf(S) <= j
<1>1. \E i \in S : \A j \in S : ~(<<j, i>> \in OpToRel(<, Nat))
  BY WFMin, NatLessThanWellFounded, Zenon
<1>2. \A i, j \in Nat : ~(<<j, i>> \in OpToRel(<, Nat)) => i <= j
  BY DEF OpToRel
<1>3. \E i \in S : \A j \in S : i <= j
  BY <1>1, <1>2
<1>4. QED
  BY <1>3, Zenon DEF LowestOf

\* A set of positions of a list that is not empty has a highest one.
LEMMA HighestIsGreatest ==
    ASSUME NEW n \in Nat, NEW S \in SUBSET (1 .. n), S # {}
    PROVE  HighestOf(S) \in S /\ \A j \in S : j <= HighestOf(S)
<1> DEFINE fromTheEnd == {n - i : i \in S}
<1>1. fromTheEnd \in SUBSET Nat /\ fromTheEnd # {}
  <2>1. \A i \in S : n - i \in Nat
    OBVIOUS
  <2>2. QED
    BY <2>1, Zenon
<1>2. /\ LowestOf(fromTheEnd) \in fromTheEnd
      /\ \A j \in fromTheEnd : LowestOf(fromTheEnd) <= j
  <2> HIDE DEF fromTheEnd
  <2>1. QED
    BY <1>1, LowestIsLeast
<1>3. PICK i \in S : LowestOf(fromTheEnd) = n - i
  BY <1>2
<1>4. \A j \in S : n - i <= n - j
  BY <1>2, <1>3
<1>5. \A j \in S : j <= i
  BY <1>4
<1>6. QED
  BY <1>5, Zenon DEF HighestOf

\* The positions of a list whose entries load, all of them or those of a name.
LoadedIn(list) == {i \in DOMAIN list : list[i].adapter \in DOMAIN AdapterEngine}
LoadedAs(list, n) == {i \in LoadedIn(list) : list[i].name = n}

LEMMA RegistryOf ==
    ASSUME NEW list
    PROVE  /\ DOMAIN FromConfig(list) = {list[i].name : i \in LoadedIn(list)}
           /\ \A n \in DOMAIN FromConfig(list) :
                 FromConfig(list)[n] = [place   |-> LowestOf(LoadedAs(list, n)),
                                        adapter |-> list[HighestOf(LoadedAs(list, n))].adapter]
BY Zenon DEF FromConfig, LoadedIn, LoadedAs

\* The names are those at some position that loads.
LEMMA NamesLoad ==
    ASSUME NEW list, NEW n
    PROVE  n \in DOMAIN FromConfig(list) <=> \E i \in LoadedIn(list) : list[i].name = n
<1>1. DOMAIN FromConfig(list) = {list[i].name : i \in LoadedIn(list)}
  BY RegistryOf, Zenon
<1>2. n \in {list[i].name : i \in LoadedIn(list)} <=> \E i \in LoadedIn(list) : list[i].name = n
  OBVIOUS
<1>3. QED
  BY <1>1, <1>2, Zenon

\* The place of a name is a position of the list at which the name loads; so
\* two names never share a place.
LEMMA PlaceIsAPosition ==
    ASSUME NEW list \in Seq(Entries), NEW n \in DOMAIN FromConfig(list)
    PROVE  /\ FromConfig(list)[n].place \in LoadedIn(list)
           /\ list[FromConfig(list)[n].place].name = n
           /\ FromConfig(list)[n].place \in 1 .. Len(list)
<1>1. PICK i \in LoadedIn(list) : list[i].name = n
  BY NamesLoad
<1>2. LoadedAs(list, n) \in SUBSET Nat /\ LoadedAs(list, n) # {}
  BY <1>1 DEF LoadedIn, LoadedAs
<1>3. LowestOf(LoadedAs(list, n)) \in LoadedAs(list, n)
  BY <1>2, LowestIsLeast
<1>4. FromConfig(list)[n].place = LowestOf(LoadedAs(list, n))
  <2>1. FromConfig(list)[n] = [place   |-> LowestOf(LoadedAs(list, n)),
                               adapter |-> list[HighestOf(LoadedAs(list, n))].adapter]
    BY RegistryOf, Zenon
  <2>2. QED
    BY <2>1
<1>5. QED
  BY <1>3, <1>4 DEF LoadedIn, LoadedAs

\* The names of the adapters that can handle an engine.
Able(registry, engine) == {n \in DOMAIN registry : AdapterEngine[registry[n].adapter] = engine}

\* The adapter of an engine is that of the able name with the lowest place.
LEMMA FirstAble ==
    ASSUME NEW list \in Seq(Entries), NEW engine,
           NEW n \in Able(FromConfig(list), engine),
           \A m \in Able(FromConfig(list), engine) :
              FromConfig(list)[n].place <= FromConfig(list)[m].place
    PROVE  ForBinding(FromConfig(list), engine) = FromConfig(list)[n].adapter
<1> DEFINE registry == FromConfig(list)
           able == Able(registry, engine)
           first(k) == \A m \in able : registry[k].place <= registry[m].place
           chosen == CHOOSE k \in able : first(k)
<1>1. ForBinding(registry, engine) = IF able = {} THEN None ELSE registry[chosen].adapter
  BY Zenon DEF ForBinding, Able
<1>2. chosen \in able /\ first(chosen)
  BY Zenon
<1>3. \A k \in able : registry[k].place \in Nat /\ list[registry[k].place].name = k
  BY PlaceIsAPosition DEF Able
<1> HIDE DEF chosen, able, registry
<1>4. n \in able /\ first(n)
  BY DEF able, registry
<1>5. registry[chosen].place = registry[n].place
  BY <1>2, <1>3, <1>4
<1>6. chosen = n
  BY <1>2, <1>3, <1>4, <1>5
<1>7. QED
  BY <1>1, <1>4, <1>6 DEF registry

\* Some able name has the lowest place.
LEMMA SomeFirst ==
    ASSUME NEW list \in Seq(Entries), NEW engine, Able(FromConfig(list), engine) # {}
    PROVE  \E n \in Able(FromConfig(list), engine) :
              \A m \in Able(FromConfig(list), engine) :
                 FromConfig(list)[n].place <= FromConfig(list)[m].place
<1> DEFINE able == Able(FromConfig(list), engine)
           place(n) == FromConfig(list)[n].place
           places == {place(n) : n \in able}
<1>1. \A n \in able : place(n) \in Nat
  BY PlaceIsAPosition DEF Able
<1> HIDE DEF able, place
<1>2. places \in SUBSET Nat /\ places # {}
  BY <1>1 DEF able
<1>3. LowestOf(places) \in places /\ \A j \in places : LowestOf(places) <= j
  BY <1>2, LowestIsLeast
<1>4. \E n \in able : \A m \in able : place(n) <= place(m)
  BY <1>3
<1>5. QED
  BY <1>4 DEF able, place

\* Appending an entry that loads adds its position to those of its name, and
\* one that fails to load adds none.
LEMMA AppendLoads ==
    ASSUME NEW list \in Seq(Entries), NEW e \in Entries
    PROVE  /\ \A i \in DOMAIN list : Append(list, e)[i] = list[i]
           /\ Append(list, e)[Len(list) + 1] = e
           /\ e.adapter \notin DOMAIN AdapterEngine => LoadedIn(Append(list, e)) = LoadedIn(list)
           /\ e.adapter \in DOMAIN AdapterEngine =>
                 LoadedIn(Append(list, e)) = LoadedIn(list) \cup {Len(list) + 1}
           /\ \A n : (e.adapter \notin DOMAIN AdapterEngine \/ e.name # n)
                       => LoadedAs(Append(list, e), n) = LoadedAs(list, n)
<1> DEFINE longer == Append(list, e)
<1>1. /\ DOMAIN longer = DOMAIN list \cup {Len(list) + 1} /\ Len(list) + 1 \notin DOMAIN list
      /\ \A i \in DOMAIN list : longer[i] = list[i]
      /\ longer[Len(list) + 1] = e
  OBVIOUS
<1> HIDE DEF longer
<1>2. e.adapter \notin DOMAIN AdapterEngine => LoadedIn(longer) = LoadedIn(list)
  BY <1>1 DEF LoadedIn
<1>3. e.adapter \in DOMAIN AdapterEngine => LoadedIn(longer) = LoadedIn(list) \cup {Len(list) + 1}
  BY <1>1 DEF LoadedIn
<1>4. ASSUME NEW n, e.adapter \notin DOMAIN AdapterEngine \/ e.name # n
      PROVE  LoadedAs(longer, n) = LoadedAs(list, n)
  BY <1>1, <1>2, <1>3, <1>4 DEF LoadedAs, LoadedIn
<1>5. QED
  BY <1>1, <1>2, <1>3, <1>4 DEF longer

\* A name that loads keeps its entry of the registry when an entry is appended
\* that fails to load, or has another name.
LEMMA AppendKeepsNames ==
    ASSUME NEW list \in Seq(Entries), NEW e \in Entries, NEW n \in DOMAIN FromConfig(list),
           e.adapter \notin DOMAIN AdapterEngine \/ e.name # n
    PROVE  /\ n \in DOMAIN FromConfig(Append(list, e))
           /\ FromConfig(Append(list, e))[n] = FromConfig(list)[n]
<1> DEFINE longer == Append(list, e)
           last == HighestOf(LoadedAs(list, n))
<1>1. longer \in Seq(Entries)
  OBVIOUS
<1>2. /\ \A i \in DOMAIN list : longer[i] = list[i]
      /\ LoadedIn(list) \subseteq LoadedIn(longer)
      /\ LoadedAs(longer, n) = LoadedAs(list, n)
  BY AppendLoads
<1>3. PICK i \in LoadedIn(list) : list[i].name = n
  BY NamesLoad
<1>4. n \in DOMAIN FromConfig(longer)
  <2>1. i \in LoadedIn(longer) /\ longer[i].name = n
    BY <1>2, <1>3 DEF LoadedIn
  <2> HIDE DEF longer
  <2>2. QED
    BY <2>1, NamesLoad
<1>5. longer[last] = list[last]
  <2>1. Len(list) \in Nat /\ LoadedAs(list, n) \in SUBSET (1 .. Len(list)) /\ LoadedAs(list, n) # {}
    BY <1>3 DEF LoadedAs, LoadedIn
  <2>2. last \in LoadedAs(list, n)
    BY <2>1, HighestIsGreatest
  <2>3. QED
    BY <1>2, <2>2 DEF LoadedAs, LoadedIn
<1> HIDE DEF longer
<1>6. FromConfig(longer)[n] = [place   |-> LowestOf(LoadedAs(list, n)),
                               adapter |-> longer[last].adapter]
  BY <1>2, <1>4, RegistryOf
<1>7. FromConfig(list)[n] = [place |-> LowestOf(LoadedAs(list, n)), adapter |-> list[last].adapter]
  BY RegistryOf
<1>8. QED
  BY <1>4, <1>5, <1>6, <1>7 DEF longer

\* The names an appended entry adds come last.
LEMMA AppendedComesLast ==
    ASSUME NEW list \in Seq(Entries), NEW e \in Entries,
           NEW m \in DOMAIN FromConfig(Append(list, e)), m \notin DOMAIN FromConfig(list)
    PROVE  FromConfig(Append(list, e))[m].place = Len(list) + 1
<1> DEFINE longer == Append(list, e)
           place == FromConfig(longer)[m].place
<1>1. longer \in Seq(Entries)
  OBVIOUS
<1>2. /\ \A i \in DOMAIN list : longer[i] = list[i]
      /\ LoadedIn(longer) \subseteq LoadedIn(list) \cup {Len(list) + 1}
  BY AppendLoads
<1> HIDE DEF longer
<1>3. place \in LoadedIn(longer) /\ longer[place].name = m
  BY <1>1, PlaceIsAPosition DEF longer
<1>4. place \notin LoadedIn(list)
  <2>1. SUFFICES ASSUME place \in LoadedIn(list) PROVE FALSE
    OBVIOUS
  <2>2. list[place].name = m
    BY <1>2, <1>3, <2>1 DEF LoadedIn
  <2>3. QED
    BY <2>1, <2>2, NamesLoad
<1>5. QED
  BY <1>2, <1>3, <1>4 DEF longer

\* An entry that fails to load, or has a new name, leaves the adapter of every
\* engine that has one.
LEMMA AppendKeepsAdapters ==
    ASSUME NEW list \in Seq(Entries), NEW e \in Entries, NEW engine,
           e.adapter \notin DOMAIN AdapterEngine \/ e.name \notin DOMAIN FromConfig(list),
           ForBinding(FromConfig(list), engine) # None
    PROVE  ForBinding(FromConfig(Append(list, e)), engine) = ForBinding(FromConfig(list), engine)
<1> DEFINE old == FromConfig(list)
           new == FromConfig(Append(list, e))
<1>1. Able(old, engine) # {}
  BY Zenon DEF ForBinding, Able
<1>2. PICK n \in Able(old, engine) : \A m \in Able(old, engine) : old[n].place <= old[m].place
  BY <1>1, SomeFirst, Zenon
<1>3. \A k \in DOMAIN old : k \in DOMAIN new /\ new[k] = old[k]
  BY AppendKeepsNames, Zenon
<1>4. old[n].place \in 1 .. Len(list)
  BY PlaceIsAPosition DEF Able
<1>5. \A m \in DOMAIN new \ DOMAIN old : new[m].place = Len(list) + 1
  BY AppendedComesLast
<1>6. Append(list, e) \in Seq(Entries) /\ Len(list) \in Nat
  OBVIOUS
<1>7. n \in Able(new, engine)
  BY <1>3, Zenon DEF Able
<1>8. ForBinding(old, engine) = old[n].adapter
  BY <1>2, FirstAble, Zenon
<1> HIDE DEF old, new
<1>9. \A m \in Able(new, engine) : new[n].place <= new[m].place
  <2> SUFFICES ASSUME NEW m \in Able(new, engine) PROVE new[n].place <= new[m].place
    OBVIOUS
  <2>1. CASE m \in DOMAIN old
    BY <1>2, <1>3, <2>1 DEF Able
  <2>2. CASE m \notin DOMAIN old
    BY <1>3, <1>4, <1>5, <1>6, <2>2 DEF Able
  <2>3. QED
    BY <2>1, <2>2
<1>10. ForBinding(new, engine) = new[n].adapter
  BY <1>6, <1>7, <1>9, FirstAble, Zenon DEF new
<1>11. QED
  BY <1>3, <1>8, <1>10, Zenon DEF Able, new, old

\* Appending an entry that fails to load, or one under a new name, changes the
\* adapter of no binding that had one (EngineRegistry.from_config and
\* for_binding in engine/registry.py).
THEOREM NewEntriesDisturbNothing == Spec => NewEntryDisturbsNoBinding
<1> DEFINE Additive == \A e \in Entries :
             AppendEntry(e) /\ (e.adapter \notin DOMAIN AdapterEngine \/ e.name \notin DOMAIN Registry)
             => \A engine \in RequiredEngines(Catalogue) :
                    ForBinding(Registry, engine) # None
                    => ForBinding(Registry, engine)' = ForBinding(Registry, engine)
<1>1. Typed => Additive
  <2> SUFFICES ASSUME Typed, NEW e \in Entries, AppendEntry(e),
                      e.adapter \notin DOMAIN AdapterEngine \/ e.name \notin DOMAIN Registry,
                      NEW engine \in RequiredEngines(Catalogue),
                      ForBinding(Registry, engine) # None
               PROVE  ForBinding(Registry', engine) = ForBinding(Registry, engine)
    BY Zenon
  <2>1. engines \in Seq(Entries) /\ engines' = Append(engines, e)
    BY DEF Typed, AppendEntry
  <2>2. Registry = FromConfig(engines) /\ Registry' = FromConfig(Append(engines, e))
    BY <2>1 DEF Registry
  <2>3. QED
    BY <2>1, <2>2, AppendKeepsAdapters
<1>2. [][Additive]_vars => NewEntryDisturbsNoBinding
  BY PTL DEF NewEntryDisturbsNoBinding
<1>3. QED
  BY <1>1, <1>2, Typing, PTL
=============================================================================
