---------------------------- MODULE Enforcement ----------------------------
(***************************************************************************)
(* One imported catalogue while its surroundings change: the operator      *)
(* edits the list of engines and installs or removes their binaries, the   *)
(* teams change their policies and fixtures.  At every point               *)
(* check_integrity and validate may be asked, or the harness run.          *)
(***************************************************************************)
EXTENDS Harness

CONSTANTS
    Catalogue,     \* imported constraints
    Sources,       \* config.sources
    Queries,       \* scopes validate may be asked about
    Artifacts,     \* candidate artifacts
    Entries,       \* entries config.engines may have
    Engines,       \* engines with a binary
    PolicyEngine,  \* place of a policy -> the engine it is written for
    PolicyTexts,   \* place of a policy -> what it may say of the artifacts
    FixturePlaces, \* places of fixtures
    MaxEntries     \* bound on the list of engine entries

ASSUME PlacesAssumption ==
    DOMAIN PolicyTexts = DOMAIN PolicyEngine /\ FixturePlaces \cap DOMAIN PolicyEngine = {}
ASSUME MaxEntriesAssumption == MaxEntries \in Nat

Places == DOMAIN PolicyEngine \cup FixturePlaces
Contents(p) == IF p \in FixturePlaces THEN Artifacts \cup {Malformed} ELSE PolicyTexts[p]

VARIABLES engines,     \* config.engines
          installed,   \* engines whose binary is there
          content      \* place -> what is on disk, None if nothing
vars == <<engines, installed, content>>

Init == /\ engines = <<>>
        /\ installed = Engines
        /\ content = [p \in Places |-> None]

AppendEntry(e) == /\ Len(engines) < MaxEntries
                  /\ engines' = Append(engines, e)
                  /\ UNCHANGED <<installed, content>>
DropFirst == /\ engines # <<>>
             /\ engines' = Tail(engines)
             /\ UNCHANGED <<installed, content>>
InstallOrRemove(engine) == /\ installed' = IF engine \in installed THEN installed \ {engine}
                                           ELSE installed \cup {engine}
                           /\ UNCHANGED <<engines, content>>
Write(p, c) == /\ content[p] # c
               /\ content' = [content EXCEPT ![p] = c]
               /\ UNCHANGED <<engines, installed>>

AppendSome == \E e \in Entries : AppendEntry(e)
WriteSome == \E p \in Places : \E c \in Contents(p) \cup {None} : Write(p, c)
InstallSome == \E engine \in Engines : InstallOrRemove(engine)
Next == AppendSome \/ DropFirst \/ WriteSome \/ InstallSome
Spec == Init /\ [][Next]_vars

----------------------------------------------------------------------------
\* What is asked, at any point

Registry == FromConfig(engines)
Config == [sources |-> Sources, engines |-> engines]

\* Without its binary an adapter calls every evaluation an error.
Seen(p, engine) ==
    IF p \in DOMAIN PolicyEngine /\ engine \notin installed
    THEN [a \in Artifacts |-> "error"] ELSE content[p]
OnDisk == {p \in Places : content[p] # None}
Files == [p \in OnDisk |-> IF p \in FixturePlaces THEN content[p] ELSE Seen(p, PolicyEngine[p])]
Setting == [imported |-> Catalogue, config |-> Config, installed |-> installed, files |-> Files,
            through |-> [e \in Engines |-> [p \in OnDisk |-> Seen(p, e)]]]

Report(constraints, artifact, query) ==
    ValidationReport([bundle_id |-> Hash(constraints), constraints |-> constraints],
                     artifact, query, Registry, Config, Files)
Raised(constraints, artifact, query) ==
    ValidationRaises([constraints |-> constraints], artifact, query, Registry, Config, Files)
Issues == IntegrityIssues(Catalogue, Registry, Config, Files)

----------------------------------------------------------------------------

\* validate agrees with every fixture of a constraint it is asked about: the
\* fixture is there, validate of it does not raise, and the verdict is the one
\* the fixture is for.
AgreesWithFixtures(ic, query) ==
    \A f \in FixturesOf(ic.constraint) :
        LET place == PolicyPath(Config, ic.source, f.locator)
            results == Report({ic}, Files[place], query).results
        IN  /\ place \in OnDisk /\ Files[place] # Malformed
            /\ ~Raised({ic}, Files[place], query)
            /\ results # {} /\ \A r \in results : r.verdict = f.expected

\* A clean integrity check predicts validate: with no issue every bound
\* constraint, with however many bindings, passes on its pass fixture and fails
\* on its fail fixture, and nothing is an engine error (FR-INTEGRITY-1/2).
CleanIntegrityPredictsValidate ==
    Issues = {} =>
        \A q \in Queries : \A ic \in Select(Catalogue, q) :
            ~IsAdvisory(ic.constraint) => AgreesWithFixtures(ic, q)

\* validate fails closed where the integrity check complains: a constraint
\* with an unserved engine or an unresolved policy never lets the report of a
\* query that selects it pass, on any artifact.
UnenforceableNeverPasses ==
    \A q \in Queries : \A ic \in Select(Catalogue, q) :
        (\E b \in ic.constraint.enforcement :
            BindingIssues(ic, b, Registry, Config, Files)
              \cap {"no-engine-adapter", "policy-unresolved"} # {})
        => \A a \in Artifacts : Raised(Catalogue, a, q) \/ ~Passed(Report(Catalogue, a, q))

\* A green harness is earned where it could look: if it passed with OPA
\* configured and installed, then validate agrees with every fixture of every
\* bound constraint, whatever the second engine's entry, missing files or
\* exceptions did on the way (VH-ENGINE-1, VH-INTEGRITY-1).
GreenHarnessIsEarned ==
    HarnessPassed(Setting) /\ "opa" \in DOMAIN Registry /\ AvailableAs(Setting, "opa") =>
        \A q \in Queries : \A ic \in Select(Catalogue, q) :
            ~IsAdvisory(ic.constraint) => AgreesWithFixtures(ic, q)

\* Loading is isolated and additive: a new entry that fails to load, or one
\* under a new name, changes the adapter of no binding that had one
\* (FR-ENGINE-2, NFR-2), whatever failed or was repeated before it.
NewEntryDisturbsNoBinding ==
    [][\A e \in Entries :
         AppendEntry(e) /\ (e.adapter \notin DOMAIN AdapterEngine \/ e.name \notin DOMAIN Registry)
         => \A engine \in RequiredEngines(Catalogue) :
                ForBinding(Registry, engine) # None
                => ForBinding(Registry, engine)' = ForBinding(Registry, engine)]_vars
=============================================================================
