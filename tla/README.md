# A specification of the constraint registry

This directory holds TLA+ models of the constraint registry (`src/cregistry`),
the TLC runs that check them on small instances, and proofs, checked by TLAPS,
that the central invariants hold for every instance. Paths below are relative
to the repository; `service.py` and the like are files of `src/cregistry`.

    tlc -workers 2 -config MCService.cfg MCRegistryService.tla     # one run
    tlapm RegistryService_proofs.tla                               # one module of proofs

`PROJECT.json` lists the runs, the lines of code every definition stands for,
the hazards the properties are aimed at, and the theorems.

## 1. The system

Source teams author constraints as YAML files; the registry imports them into
an immutable, content-addressed *bundle*, answers agents' scoped queries from
it over MCP, and validates artifacts by delegating to enforcement engines.

| Component (code) | State | Operations | What makes it correct |
|---|---|---|---|
| Registry service (`service.py`) | `config`, `registry`, `store`, `last_reload`, `_lock` | `from_config`, `reload`, `get_constraints`, `describe_scope`, `validate` | calls never see half of a swap; an answer is not older than the call; a failed reload keeps the last bundle; the status tells what is served |
| Refresher (`mcp_server.py`) | a daemon thread | `reload()` every interval, exceptions logged | it survives every failure and eventually serves what is on disk |
| Bundle store (`store.py`) | `_by_id`, `_order`, `_current_id` | `add`, `latest`, `get` | a version once published stays, unchanged; `latest`, without a lock, always finds its bundle |
| Importer and loader (`importer.py`, `loader.py`) | lists local to one import | `import_sources`, `load_source`, `load_constraint_file` | a bad file does not affect the others; ids are unique within a source; no file is lost |
| Precedence and bundle (`precedence.py`, `bundle.py`) | none | `resolve_precedence`, `from_constraints` | every same-scope pair is decided once, decisions are acyclic, strictness is never lost |
| Scope and query (`scope.py`, `query.py`, `model.py`) | none | `scopes_equal`, `scopes_overlap`, `scope_matches`, `select` | the three relations agree; a silent selector broadens, a supplied one narrows |
| Engine registry (`engine/registry.py`) | name → adapter, in order of insertion | `from_config`, `for_binding` | one entry that fails to load disturbs no other |
| Validation and integrity (`validate.py`, `integrity.py`) | none | `validate`, `check_integrity` | validation fails closed; a clean integrity check predicts it |
| Engine adapters (`engine/adapters/*`) | temporary files, child processes | `evaluate` of opa, conftest, checkov, semgrep | the verdict is that of the adapter's own tool run; the temporary files and run directories an evaluation knows of go away with it |
| SARIF normaliser (`engine/adapters/sarif`) | none | `parse_sarif`, `compute_result` | malformed parts and caps lose no finding they need not lose |
| Configuration (`config.py`) | a parsed file | `load_config`, `resolved_policy_path` | used by all of the above |
| Catalogue importers (`engine/adapters/checkov/importer.py`, `semgrep/importer.py`) | lists local to one import | `import_catalog` of either | damage to a listing stays local; a stub is found for what its check is about; nothing without a licence is imported |
| Verification harness and conformance suite (`harness/`, `engine/conformance.py`) | none | `run_all`, `build_report`, `run_conformance` | a green run has looked, and agrees with `validate` |

How they interact: `reload()` calls `load_config`, then `import_sources` (one
directory after the other, outside the lock), then takes the lock, replaces the
configuration and the registry and calls `store.add`. A call takes the lock
only to copy three references, and resolves its bundle in the *shared* store
after releasing it. `validate` then goes through the bindings in scope one by
one: it looks for the policy file, runs the tool as a child process, and goes on
to the next binding, on whatever the disk holds at each of these moments.

What is hard here: reloads race with calls, with each other, and with edits of
the very files they read; configuration, directories, files and tools may fail
at any of these points; `latest()` is called without the lock; a stale snapshot
is combined with a fresh bundle; tools hang, vanish and leave files; adapters
raise although the interface forbids it; the check, the harness and `validate`
judge the same bindings in three separate loops.

## 2. The modules

| Module | Models | Used by |
|---|---|---|
| `Optional` | Python's `None`, the one constant all share | all |
| `Scope` | `scope.py`, `query.select`, the vocabulary of `describe_scope` | `Precedence`, `Discovery` |
| `Discovery` | an agent refining a query against a catalogue | `MCScope` |
| `Scope_proofs` | the proofs about `Scope`, over `Discovery` | |
| `Precedence` | `resolve_precedence`, `Bundle.from_constraints` | `Validate`, `Importer`, `Aggregation` |
| `Aggregation` | teams that edit constraints, an owner who reorders sources | `MCPrecedence` |
| `Precedence_proofs` | the proofs about `Precedence`, over `Aggregation` | |
| `EngineRegistry` | `EngineRegistry.from_config`, `for_binding`, `required_engines` | `Validate` |
| `Validate` | `validate`, `check_integrity`, path resolution | `RegistryService`, `Harness` |
| `Harness` | `harness/run.py`, its engine and integrity sections, `run_conformance` | `Enforcement` |
| `Enforcement` | one catalogue while engines, binaries, policies and fixtures change | `MCEnforcement` |
| `Enforcement_proofs` | the proofs about `EngineRegistry`, `Validate` and `Harness`, over `Enforcement` | |
| `Catalogue` | the two catalogue importers | `CatalogueImport` |
| `CatalogueImport` | a listing or a ruleset that grows item by item, some damaged | `MCCatalogue` |
| `VersionHistory` | abstract: what a consumer may rely on about versions | refined by `BundleStore` and `RegistryService` |
| `BundleStore` | `store.py`, one action per statement | `MCBundleStore` |
| `BundleStore_proofs` | the proofs about `BundleStore` | |
| `RegistryService` | `service.py` and the refresher, with the disk as environment | `ServiceClaims`, proofs |
| `ServiceClaims` | two sentences of the repository the service does not keep | `MCRegistryService` |
| `RegistryService_proofs` | the proofs about `RegistryService`: its state, then its clients' calls and what a reload returns | |
| `Importer` | one import, file by file, over directories that change | `MCImporter` |
| `Importer_proofs` | the proofs about `Importer` | |
| `Sarif`, `Adapters` | the normaliser; four adapters run by concurrent threads | `MCAdapters` |
| `Adapters_proofs` | the proofs about `Adapters` | |
| `Documents_proofs` | the proofs about the readers of documents, `Sarif` and (over `CatalogueImport`) `Catalogue`, and about lists and folds | `Adapters_proofs` |

**Correspondence.** In `RegistryService` the variables `config`, `registry`,
`by_id`, `current`, `last_reload`, `lock` are the fields of the service and its
store; `pc`, `cfg`, `todo`, `imported`, `prev`, `returned` are the program
counter and the locals of each thread in `reload()`; `cpc`, `call`, `snap`,
`bundle`, `answer` those of a call, and `pending`, `checked`, `given` those of
`validate`'s loops: the bindings to come, the one whose policy was found and
whose adapter is called next, the verdicts so far. Each statement of `reload()` that touches
shared state is an action (`LoadConfig`, `ImportSource`, `Acquire`,
`SwapConfig`, `SwapRegistry`, `AddBundle`, `Published` or `Kept`, `Return`),
and so is each statement of a call (`Snapshot`, `Resolve`, `Answer`) and each of
the two halves of judging a binding: `LookUp` or `LookUpFails`
(`for_binding`, `exists()`), then `Evaluate` or `EvaluateRaises` (the adapter).
`Edit` changes the disk at any moment, between those two as well. History
variables the code does not have are `generations` (every bundle id with the
configuration it was published under), `origin` (who published the current one)
and, since a call began, `seen`, `served` and `held`: the ids that were current,
the configurations in service and the contents of the disk. `BundleStore` opens up the one call
`RegistryService` takes as a step, `store.add`, and shows that a reader without
the lock cannot tell. `Importer` does the same for the import of one directory,
and shows the two facts the service takes from it: a quiet import yields the
accepted constraints (`QuietImportIsExact`), and some files make it raise.
`Scope`, `Precedence`, `EngineRegistry`, `Validate`, `Harness`, `Sarif` and `Catalogue`
have no state: they are functions of their inputs. `Discovery`, `Aggregation`,
`Enforcement` and `CatalogueImport` put one actor or several around them who change
the inputs step by step (a query; constraints and sources; engines, binaries and
files; listings and rulesets), with every set of inputs a constant, so that what
the runs check can be proved for all of them. In `Catalogue` a listing is the
sequence of the lines the parser acts on, folded with `ReadLine` as the loop of
`_parse_list_output` does it; in `Sarif` the violations are gathered by a fold
with `Kept`.

**Abstractions.** Selector values, ids, policies and artifacts are values of
small sets; a policy is the verdict its engine gives on every artifact; the
bundle's hash is taken to be injective, so the id of a bundle is its set of
constraints. A list whose order no property can observe is a set. An effective
id is a pair, which is exact as long as no source name contains a slash (the
code joins the two with one; no name in the repository has it). The sorted
order of effective ids is the constant `IdOrder`.

Some modules hold operators marked as a *mutant* of their neighbour: plausible
wrong versions of it. Putting one in place of the original makes the property
PROJECT.json pairs it with fail, which is how each property is known to depend
on the code.

## 3. The runs

### Passing

* **scope** (`MCScope.cfg`). Two constraints with every combination of two
  values on a plain dimension, a value and the wildcard on the environment, and
  relationships; an agent refines its query step by step.
  `SameScopeSelectedTogether`: scopes that precedence takes for equal are
  selected by the same queries. `SharedArtifactMeansOverlap`: if one fully
  described artifact is in both scopes, `scopes_overlap` says so.
  `RefinementIsMonotone`: naming a silent selector never adds an answer, every
  other refinement never removes one. `VocabularyReachesWhatItDescribes`: some
  query built of published values selects a constraint exactly if its
  relationship names nothing but layers and an interaction, and it can then
  name a value on every dimension the constraint restricts. A layer or an
  interaction that is the empty string is among the inputs: it is matched but
  never published. Every operator
  treats the dimensions one by one, two of them (with and without a wildcard)
  are enough; likewise two values per dimension.
* **precedence** (`MCPrecedence.cfg`). Four constraints of three teams, every
  severity, two scopes, the choices of two precedence levels (all three teams
  high decides like all three low), a configuration that lists a team twice at
  different levels, and every order of each list. Three sources are needed for
  a cycle of decisions, and two constraints of one source for pairs that are
  not compared. `SourceOrderIrrelevant` supposes unique names (`UniqueNames`):
  of two entries with one name the last counts, so their order does matter.
  `UnbeatenIsStrictest` is the point of FR-NAMESPACE-2/3: in an importable
  catalogue what nothing beats is as strict as anything of its scope.
* **enforcement** (`MCEnforcement.cfg`). Every list of up to three engine
  entries over two names and three adapter specifications (one of which does not
  load), either binary installed or not, every content of two policies (right,
  too lax, too strict, unusable, or one on which the adapter raises) and two
  fixtures, a constraint with two bindings, one with one, one with none. Three
  entries are what it takes to replace an entry after another one failed.
  `CleanIntegrityPredictsValidate` relates the two orchestrators,
  `UnenforceableNeverPasses` says validation fails closed,
  `NewEntryDisturbsNoBinding` that loading is isolated and additive.
  `GreenHarnessIsEarned`: a harness run that passes while the entry `opa` is
  there and installed has had every fixture in its hands, and `validate` gives
  the fixtures' verdicts. Without that premise a green run means little, see
  below.
* **store** (`MCBundleStore.cfg`). Three ids, one of them with two different
  bundles (one content under two configurations), one reader: readers do not
  affect each other. Publishing, reverting and republishing run for ever.
* **service** (`MCService.cfg`). One refresher, one client with all three
  operations, well-formed and malformed scopes, latest, pinned and unknown
  versions, and one edit between two contents of the disk. On `Grown` two
  sources have a constraint and an engine each, so that a report has two bindings
  and the disk can change between them, or between the look at a policy and the
  tool's run. On `Choking` one source has moved to another directory, has
  left a policy behind that accepts everything, and its new policy is one the
  adapter raises on. The store may be empty at the start, so that a call can see
  two publications with one edit. `PassIsEarned`: a report that passed was earned
  under *one* configuration in service during the call, every binding having had
  an adapter under it and a policy at its path that accepted the artifact at some
  moment of the call; and if no reload took effect meanwhile, an unpinned
  report's bundle was published with that configuration. A reload in between can
  break the last link, see *claim_snapshot*. `EveryCallAnswered` is liveness,
  checked under `CallFairSpec`; its cost is what limits the edits here to one, so a
  swap back to an earlier disk during a call is in *reloads* and *store* only.
* **reloads** (`MCReloads.cfg`). Two reloaders, one of which is the refresher, no
  client; four disks: two that can be imported under different configurations,
  a configuration that does not load, a file that raises. Mixtures of two disks
  have a conflict neither disk has. `RecordOfOneConfiguration` looks at the
  precedence records of stored bundles, which the id does not cover: they may be
  old but are never made of two configurations. `ReturnedStatusIsFresh` bounds what
  the read of `last_reload` after the lock can return. The inductive invariant
  of the proofs is checked here, and liveness.
* **importer** (`MCImporter.cfg`). Two sources of two files, each absent,
  invalid, undecodable or one of three constraints over two ids, from every
  initial disk, with one edit of one file at any moment. The inductive invariant
  of the proofs is checked here.
* **adapters** (`MCAdapters.cfg`). Two evaluations at once, repeated for ever,
  all four adapters, four kinds of artifact, nine SARIF documents on either side
  of each rule of the normaliser, every exit code class, malformed output (`{}`, an
  object of other keys and something else than an object included), and one
  change of the environment (policy or binary comes or goes). checkov's run
  directory is made before the tool starts, so every way a run can fail has one
  to remove; making it may fail as well. `NothingLeftBehind` is about the files
  whose path the evaluation holds and the run directory. It excepts the
  temporary file whose path is lost when the dump into it fails (`orphans`), and
  supposes that a removal succeeds. The inductive invariant of the proofs is
  checked here.

* **catalogue** (`MCCatalogue.cfg`). A checkov listing of up to three blocks,
  each line of which may be missing, from a tool that answers, fails, prints
  what does not decode or is absent, and a Semgrep document of up to two rules with every combination of
  absent, blank and stated licences and of malformed parts. Three blocks are
  what it takes for a block to have a damaged neighbour on either side.
  `DamageIsLocal`: a block with its header whose successor has one is parsed
  to exactly its check; `StubReachesItsResources`: a stub is selected by a query
  for one resource and its provider exactly if it names that resource or none;
  `LicensePolicyHolds`: the default import is the audit import without the rules
  whose licence the importer does not know, and the licence recorded is one that
  was stated. It does not say that every stated licence is found: one at the
  document's top beside a mapping `metadata` is not (`semgrep/importer.py:105-110`),
  and its rules are left out.

Deadlock is checked in every run: none of these systems may stop.

### Refuted claims

Each of these runs checks a sentence of the repository against the code and
TLC finds a counterexample; `findings` in PROJECT.json quotes the sentences.

* **importer_malformed**: NFR-2 (`constraint-registry-v0-spec.md:130`) says a
  malformed constraint must not crash the import; one undecodable file does.
* **claim_snapshot**: the lock is said to make configuration, store and
  registry swap atomically for readers (`service.py:48-49`). A `validate` that
  resolves its bundle after a reload evaluates new constraints with the old
  engines and paths, and the wrong report can be a *pass*. That is the
  counterexample: a source moves to another directory and adds a constraint
  there (`Moved`), the reload publishes both between the two statements, and the
  new constraint is judged by the lax policy left in the old directory. The
  artifact passes although the configuration published with that constraint
  rejects it. What remains true of every pass is `PassIsEarned`.
* **claim_startup**: a precedence conflict is "a hard import error"
  (`importer.py:33-34`), and a reload refuses it; startup does not look.

Met while modelling, and without a run of their own: a pinned `validate` is
affected by a swap of engines, although `docs/RUNNING.md` says pinned consumers
are not; `reload()` returns `self.last_reload` outside the lock, so with two
reloaders one may return the other's status (a fresh one: `ReturnedStatusIsFresh`); an unchanged reload is not quite a
no-op, since it replaces configuration and registry; the precedence records of
a bundle that is published again are the old ones when only the configuration
changed; two configured sources may share a name, which makes their ids
collide; evaluating with semgrep may raise on a malformed document, while
stripping paths, or on output that does not decode; checkov's adapter raises
again when no temporary directory can be created; opa's and conftest's raise
on an artifact `json.dump` refuses, and leave the temporary file; JSON of an
unexpected shape is a pass for opa, checkov and semgrep, and conftest's adapter
raises on it unless it is `{}`.

Of the vocabulary: `describe_scope` is offered so that an agent can "build a
correct scope instead of guessing" (`mcp_server.py:56-57`), but of the
relationships it publishes layers and interactions only, so that the shipped
constraints that name `different_domain` are selected by no scope built from
published values; `VocabularyReachesWhatItDescribes` draws the exact line. A layer
or an interaction that is the empty string is not published either
(`service.py:170-175` drop what is falsy), though the matcher compares it like any other.

Of the catalogue importers: a block of a checkov listing whose header is lost
is merged into the block before, although such a block is said to be skipped
(`importer.py:56-58`; `DamageIsLocal` claims nothing of the block before);
output of `checkov --list` that does not decode raises out of the import
(`importer.py:254-261` catch no `UnicodeDecodeError`), where every other failure of
the tool falls back;
a time-out or a failure of checkov imports the seed set under the provenance of
the version asked for, so that an import is not idempotent for one version; a
check whose listing names no resources becomes a stub every query selects;
broken YAML in a ruleset raises `YAMLError` where `ValueError` is documented,
and one rule with a non-mapping `metadata` or a null `message` ends the whole
import; a top-level `license` is not read when `metadata` is a mapping.

Of the harness: `VH-INTEGRITY-1` skips the fixtures of every engine when OPA's
binary is missing, and skipped checks do not fail a run; the conformance suite
asks for `len(results) > 1`, which the two results it always has make true, so
that it passes on no case (`VH-ENGINE-1` does ask for one).

## 4. Fairness

Safety needs none. `DiskIsEventuallyServed` is checked under `FairSpec`: a
refresher that is idle starts another reload (its loop never ends:
`mcp_server.py:97-107` catches every exception), a thread inside `reload()`
takes its next step (WF), and a thread waiting for the lock gets it if the lock
is free again and again (SF on `Acquire`: refreshes are a second or more apart
and critical sections are a few assignments, so no thread is always
overtaken). Nothing is assumed of the second reloader beyond finishing what it
began, nor of clients or edits. The property itself supposes that the disk stops
changing in a state that loads and has no conflict.

`EveryCallAnswered` is checked under `CallFairSpec`, which asks less of reloads:
one inside its critical section goes on to release the lock, everything else
of it may stop. A call's thread keeps running (WF), and gets the lock for its
snapshot if it is free again and again (SF on `Snapshot`, for the same reason
as above). Clients need not call at all.

## 5. What is proved

`RegistryService_proofs` proves, for any sets of reloaders, clients, disks,
scopes and artifacts and any number of edits:

* `Invariance`: `Spec => []IInv`,
* from it `TypeCorrect`, `SnapshotsAreCoherent`, `StatusIsTruthful` and
  `ReloadsPublishCleanBundles`,
* `ServiceKeepsHistory`: the service implements `VersionHistory`, under the
  mapping `versions <- by_id`, `latest <- current`,
* `RecordsAreOfOneConfiguration`: `RecordOfOneConfiguration`, which is
  inductive by itself: only the start and an add file a bundle, each one it built
  with the configuration it enters into `generations`, and an add never
  replaces a bundle.

Assumed are only the named assumptions of the module: `None` is not a thread,
refreshers are reloaders, some disk loads, what a policy says of an artifact is
one of the four outcomes an engine has (`PoliciesAssumption`), the number of edits
is a natural number.

*Why a stronger invariant is needed.* Between `SwapConfig` and the status three
facts are false: the registry does not belong to the configuration, the served
bundle may have a conflict under the new configuration, and the status names
the bundle before. None of the properties can be proved from itself. `IInv`
adds that exactly the owner of the lock is inside the critical section
(`LockOwner`), what it holds there (`CriticalLocals`: `prev` is the served
bundle, the import has no conflict, the configuration is in place), and states
each property with the exception of the statements that repair it
(`RegistryFollowsConfig`, `StatusFollowsBundle`, `BundleFollowsConfig`). Every
other thread's step then leaves them alone because it is not the owner. The
proof has one lemma for each group of actions (edit, client, import, swap,
status), and `ReloadingUnchanged` for the steps that touch nothing of this.
Precedence, import and engine loading stay opaque in it: the argument needs
only that a bundle's id determines its constraints (`BundleIdentity`).

Its second part adds the clients, for the same parameters: `PinnedGuidanceIsForEver`,
`AnswersAreNotOlder` and `PassesAreEarned` are `PinnedGuidanceRepeats`,
`AnswerNotOlderThanCall` and `PassIsEarned`. `CallsInv`, proved on top of `IInv`,
says of a running call that the bundle current now is in its `seen`
(`RunningCall`), of a resolved bundle that it is the one filed under its id and,
if unpinned, in `seen` (`ResolvedBundle`), and of a pinned answer that it is what
the bundle filed under its version gives (`PinnedAnswer`): a reload cannot
disturb the last because an add never replaces a bundle.
`PassesAreEarned` needs a third invariant, `JudgingInv`, because `validate` judges
over many steps in which the disk, the configuration and the bundle change. A
bundle is published together with the configuration in service then, except
between a swap and the add that follows it (`PublishedTogether`). A snapshot
therefore has the registry of its configuration, and as long as no reload takes
effect that configuration is of one generation with every bundle the call may
resolve (`SnapshotOfGeneration`). Every binding of the report is still to come,
looked up, or has its verdict, and a pass among the verdicts is that of a policy
that was at the snapshot's path on a disk of the call (`BindingsCovered`);
`BindingLocals` is the typing of the loops. A combined verdict other than fail and
error then leaves only passes. The theorem says no more than this: the policy is
that of the *snapshot's* configuration, and the bundle may be of a later one.
`ReturnedStatusesAreFresh` needs one more invariant, `StatusInv`: while a reload
waits to return, `last_reload` names the served bundle or, if another reload
has just added one and not yet written its status, the bundle that one found.

`BundleStore_proofs` proves, for any bundles and any number of readers, that
`latest()` without the lock always finds its bundle (`LatestAlwaysFound`), that
what it returns was current during the call (`LatestWasCurrent`), that versions
are listed once (`VersionsListedOnce`), and that the store implements
`VersionHistory` statement by statement (`StoreKeepsHistory`). The invariant
`IInv` adds what holds between the statements of an add (`AddInProgress`: the
bundle is filed and listed, or not yet) and of a read (`ReadInProgress`: what
is current is in `seen` for as long as the reader runs), and that the pointer
names a filed bundle (`PointsAtFiled`), which is where the order of `add`'s
statements enters. Assumed is that `None` and the exception are not bundles
(`ValuesAssumption`).

`Adapters_proofs` proves, for any number of concurrent evaluations, any
reports, caps and number of environment changes, that the temporary file or tree
whose path an evaluation holds, and checkov's run directory, are gone when it is
over (`TidyAdapters`; not the file a failed dump orphans) and that a pass or a
fail is computed from the output of the evaluation's own tool (`VerdictsAreOfTheirTool`).
`NothingLeftBehind` is inductive with typing: a file exists only in the control
states it names, and every way out of those states goes through a `finally` or
the end of a `with`. The verdicts need more: between the run of the tool and the
judgement other evaluations run theirs, so `IInv` (`AdaptersInvariance`) adds
`OwnOutput`: checkov's run directory exists while it runs, and what is about to be
judged, in that directory for checkov and on standard output for the others, is
what the evaluation's own tool wrote. In these
proofs the normaliser stays unopened. That it finds what a document reports is
`NormaliserIsExactEverywhere`, from the lemmas below; with it
`VerdictsAreWhatToolsReported` proves `VerdictIsWhatItsToolReported` outright.
Assumed: a missing or malformed output is no report (`OutputsAssumption`), and
reports are lists, as JSON gives them (`DocumentsAssumption`).

`Documents_proofs` is about the two readers of outside documents, for documents of
any length, and about the folds they are. `NormaliserReads`: the normaliser, which
flattens the results of the first runs, cuts the list at its cap and gathers the
violations, fails exactly the documents of which `Reported` says so, result by
result. `DamageToListingsIsLocal`, `ImportedStubsAreFound` and
`LicensePolicyIsKept` are `DamageIsLocal`, `StubReachesItsResources` and
`LicensePolicyHolds` for any listing and any ruleset.
What a fold computes calls for induction over the list, and the induction
theorems of the library take an operator as a parameter, which the provers cannot
instantiate. `PositionInduction` does without: it is stated of a *set* of
positions, and follows from the least member of the positions outside of it
(`LeastMember`, by the well-foundedness of the naturals). The folds of the
community modules are recursive functions, that is, chosen by their equation;
`RunExists` and `FoldExists` show, by that induction, that the equation has a
solution, so a fold satisfies it (`KeptIsRun`, `FlattenIsRun`, `ListingIsRead`),
and everything else is stated of the sequence of intermediate values. For the
normaliser these are where the results of a run begin in the flattened list, as
many places after the start as there are results in the runs before
(`FlattenKeepsPlaces`, `OffsetsCount`), and which members are kept (`KeptMembers`).
For the listing they are the parser's state after each block (`BlocksAreRead`).
`DamageStaysLocal` needs a stronger statement than the property: after any number of
blocks, the checks of all whole blocks before the last are *filed*, at the
number of their header, where no later line reaches them (`Filed`), and the last
header's is complete if its block was (`Fresh`). Assumed: None is no id, no list of
types and no check (`AbsenceAssumption`), and the built-in checks name the
providers `_infer_providers` would find, as `_SEED_CHECKS` does
(`SeedAssumption`).

`Importer_proofs` proves, for any configuration, any files and constraints and
any edits while the import reads: ids stay unique within a source, if no two
sources share a name (`IdsAreUnique`); every file read is loaded or reported,
and a duplicate is reported only after a file that was loaded with its id
(`FilesAreAccountedFor`); a quiet import is exact (`QuietImportsAreExact`). None
of the three is inductive. `IInv` (`ImporterInvariance`) adds how far the import
is: what was read lies behind its position, each file once (`ReadInOrder`,
`ReadOnce`), errors are of files that were read (`ErrorsOfRead`), what is
returned is what was read without an error (`ImportedIsLoaded`), each id once
per source (`IdsOnce`), the ids held against further files are those loaded
from the source being read and of no other (`IdsOfLoaded`), and, while nothing
was edited, everything behind the position was read as it is on disk
(`ReadAll`). Assumed: files are numbers, in the order the code sorts them, and
`None` is not one (`FilesAssumption`); absent, invalid and undecodable files are
no constraints (`ContentsAssumption`); configurations are lists of typed entries
(`ConfigsAssumption`).

`Precedence_proofs` proves the four properties of precedence for any finite
catalogue, any scopes, any integer precedences and any strict order of the ids:
`PairsAreDecidedOnce`, `DecisionsAreAcyclic`, `UnbeatenIsStrict`,
`SourceOrderIsIrrelevant`. That the decisions never run in a circle is the
interesting one: *beats* is not transitive (constraints of one source, and of
different scopes, are not compared), so it is embedded in a relation that is:
the lexicographic order by severity, source precedence and id, in which the
winner of a pair comes first (from `WinsAndConflicts`). A transitive irreflexive
relation has a minimal element in every finite set (`MinimalElement`: a
smallest set without one would, below any of its elements, contain a smaller
one). Assumed: the
ids are finitely many pairs with distinct positions (`SlotsAssumption`) and
configurations are lists of typed entries (`ConfigsAssumption`).

`Enforcement_proofs` proves the four properties of enforcement for any
catalogue, queries, engines, entries and files, and policies that do anything
on any artifact. `CleanIntegrityPredicts`, `GreenHarnessIsTruthful` and
`UnenforceableIsNeverPassed` need no invariant: they follow from what
`integrity.py`, `validate.py` and `harness/` compute, in every state whatever,
by way of one lemma for each loop that is compared (`NoBindingIssue`,
`IssuesOfBinding`, `UnservedIsError`, `GreenHarnessHasNoIssues`).
`NewEntriesDisturbNothing` rests on the typing of the list and on the places of
names: the place of a name is the first position at which it loads, so no two
names share one (`PlaceIsAPosition`), the able name with the lowest place is
unique (`FirstAble`), and a name that is new comes after all others
(`AppendedComesLast`). `PlacesAssumption` and `MaxEntriesAssumption` only say that
the instance is well formed; no proof uses them.

`Scope_proofs` proves the four properties of scopes for any catalogues, values
and relationships: `SameScopesStayTogether` and `SharedArtifactsMeanOverlap` in
every state, from the definitions; `RefinementsAreMonotone` with the typing of
the query, by showing that a step either makes one silent dimension speak
(`Narrowed`) or leaves everything matched that was (`Widened`);
`VocabularyReaches` in both directions, the query that reaches a describable
constraint being built from the constraint itself (`DescribableIsReached`).
Assumed: endpoints have their four fields and no other
(`CataloguesAssumption`), None is neither a record nor the empty string (`NoneAssumption`), and an agent
supplies values on dimensions (`ValuesAssumption`).

## 6. What is only model-checked

Liveness (`DiskIsEventuallyServed`, `EveryCallAnswered`): the proof system has no
fairness and no `ENABLED`. Every other property of a passing run is a theorem.

## 7. Bounds

Named in the modules and given in the `.cfg` files: `MaxEdits` (changes of the
disk; 2 in *reloads*, 1 in *service* and in an import), `MaxChanges` (of the adapters' environment; 1),
`MaxEntries` (engine entries; 3),
`MaxItems` (blocks of a listing; 3, and rules of a ruleset, one less), `MaxRuns` and `MaxResults` (the caps of the
normaliser, 2 instead of 100 and 50000: the documents have three runs and
three results). The control of the code has no counters, so nothing else is
unbounded: reloads, calls, adds and evaluations repeat for ever in the runs.

## 8. What is not modelled

* The MCP protocol, transports and command lines: input and output.
* Rendering (`to_dict`, `constraint_view`, messages, remediation, path
  stripping): formatting no property is about.
* Schema validation in `model.py`: a file is valid or it is not.
* A binding listed twice by one constraint, which would be judged twice.
* The failure of a removal (`unlink`, the end of a temporary directory).
* Of the walk that strips semgrep's paths: the lists of locations and artifacts.
* Of the conformance suite: the shape of a verdict, its violations and a second
  evaluation (`conformance.py:54-58`), which can only fail more cases; what is
  claimed (`GreenHarnessIsEarned`) is of suites that pass.
* The harness's sections for schema, import, namespaces, versions, MCP, output
  and reload: fixed scripts over operations the other modules model;
  `sarif/_smoke.py`: a fixed list of assertions.
* Of the catalogue importers: the time stamps and hints of the provenance, and
  the characters of a slug (two ids may share one, see `MCSlugOf`). The parser's
  lines include headers only with an id: one that is blank is never generated.
* The tools themselves: external, any output and any exit code.

## 9. Plan

The order was: service and store first (most state, all the concurrency), then
the functions they are built from, then importer and adapters, then the offline
tools (catalogue importers, harness), the proofs of the store, and those of the
readers of documents. Done: all of the above. Left, in this order:

1. Model: several clients at once, two edits in the service run (both need a
   smaller instance of the operations), the harness's scenario sections.
2. Claims: `evaluate` "must never raise" (`engine/interface.py:111-113`), no file
   outlives a failed dump, pinned reports under a swap.
