-------------------------- MODULE RegistryService --------------------------
(***************************************************************************)
(* The registry service (service.py) with its bundle store, its importer   *)
(* and its callers: threads that reload() it from a disk that changes      *)
(* under them (the refresher of mcp_server.py is one), and clients whose   *)
(* get_constraints, describe_scope and validate calls run meanwhile.       *)
(*                                                                         *)
(* A step of an action is a stretch of code no other thread can observe    *)
(* from inside: a read of one source directory, a critical section split   *)
(* at each assignment, a call of the store.  BundleStore checks that the   *)
(* store's own statements add nothing to a reader's view.                  *)
(***************************************************************************)
EXTENDS Validate

CONSTANTS
    Reloaders,      \* threads that call reload()
    Refreshers,     \* those of them that do so again and again
    Clients,        \* threads that call the operations in Ops
    Ops,            \* a subset of the three operations
    Disks,          \* the contents the disk may have, see DisksAssumption
    Scopes,         \* well-formed query scopes
    BadScope,       \* a scope Scope.model_validate rejects
    Artifacts,      \* candidate artifacts
    UnknownVersion, \* a version id no bundle has
    HasConfigPath,  \* config_path is set: reload() reads the configuration too
    MaxEdits        \* bound on the changes of the disk

\* A disk has a configuration, NoConfig when load_config raises, for every
\* source path the constraints load_source accepts, the paths on which it
\* raises instead (Importer shows how both come about), and files.
NoConfig == None
ConstraintsAt(d, path) == IF path \in DOMAIN d.constraints THEN d.constraints[path] ELSE {}

Loads(d) ==
    /\ d.config # NoConfig
    /\ \A i \in DOMAIN d.config.sources : d.config.sources[i].path \notin d.raises

ASSUME MaxEditsAssumption == MaxEdits \in Nat
ASSUME DisksAssumption == \E d \in Disks : Loads(d)
ASSUME PoliciesAssumption ==
    \A d \in Disks : \A p \in DOMAIN d.files : \A a \in Artifacts :
        d.files[p][a] \in {"pass", "fail", "error", "raised"}
ASSUME ThreadsAssumption == None \notin Reloaders /\ Refreshers \subseteq Reloaders

VARIABLES
    disk, edits,                \* what is on disk; how often it changed
    config, registry,           \* self.config, self.registry
    by_id, current,             \* self.store
    last_reload, lock,          \* self.last_reload; the owner of self._lock
    pc, cfg, todo, imported, prev, returned,     \* locals of reload()
    cpc, call, snap, bundle, answer,             \* locals of a client's call
    pending, checked, given,    \* locals of validate: the bindings to come, at
                                \* most one to evaluate next, verdicts so far
    generations,                \* history: every [bundle_id, config] published
    origin,                     \* history: who published the current bundle
    seen, served, held          \* history: ids current, configurations in
                                \* service and disks since the call began

service == <<config, registry, by_id, current, last_reload>>
reloads == <<pc, cfg, todo, imported, prev, returned>>
judging == <<pending, checked, given>>
since   == <<seen, served, held>>
calls   == <<cpc, call, snap, bundle, answer, judging, since>>
history == <<generations, origin>>
vars == <<disk, edits, service, lock, reloads, calls, history>>

----------------------------------------------------------------------------
\* import_sources over what one directory holds

ImportedFrom(d, src) == {[source |-> src.name, constraint |-> c] :
                            c \in ConstraintsAt(d, src.path)}
ImportAll(d) == UNION {ImportedFrom(d, d.config.sources[i]) :
                         i \in DOMAIN d.config.sources}

\* Mutant of Filed: only the newest bundle is kept.
FiledAlone(store, b) == [id \in {b.bundle_id} |-> b]

\* Mutants of Get: an unknown version falls back to the latest; the latest is
\* just any one.
GetOrLatest(version) ==
    LET id == IF version \in DOMAIN by_id THEN version ELSE current
    IN  IF id \in DOMAIN by_id THEN by_id[id] ELSE None
GetAny(version) ==
    LET id == IF version = None THEN CHOOSE i \in DOMAIN by_id \cup {None} :
                                         i # None \/ DOMAIN by_id = {}
              ELSE version
    IN  IF id \in DOMAIN by_id THEN by_id[id] ELSE None

\* BundleStore.add and BundleStore.get
Filed(store, b) ==
    [id \in DOMAIN store \cup {b.bundle_id} |->
        IF id \in DOMAIN store THEN store[id] ELSE b]
Get(version) ==
    LET id == IF version = None THEN current ELSE version
    IN  IF id \in DOMAIN by_id THEN by_id[id] ELSE None

----------------------------------------------------------------------------
\* from_config serves whatever import_sources returns; report.ok is not read.
\* The constructor may also be given an empty store.

StartFromDisk ==
    LET b == BundleOf(ImportAll(disk), disk.config)
    IN  /\ by_id = [id \in {b.bundle_id} |-> b]
        /\ current = b.bundle_id
        /\ generations = {[bundle_id |-> b.bundle_id, config |-> disk.config]}
StartEmpty == by_id = [id \in {} |-> None] /\ current = None /\ generations = {}

Init ==
    /\ disk \in {d \in Disks : Loads(d)}
    /\ edits = 0
    /\ config = disk.config
    /\ registry = FromConfig(disk.config.engines)
    /\ StartFromDisk \/ StartEmpty
    /\ origin = "startup"
    /\ last_reload = None
    /\ lock = None
    /\ pc = [t \in Reloaders |-> "idle"]
    /\ cfg = [t \in Reloaders |-> None]
    /\ todo = [t \in Reloaders |-> <<>>]
    /\ imported = [t \in Reloaders |-> {}]
    /\ prev = [t \in Reloaders |-> None]
    /\ returned = [t \in Reloaders |-> None]
    /\ cpc = [c \in Clients |-> "idle"]
    /\ call = [c \in Clients |-> None]
    /\ snap = [c \in Clients |-> None]
    /\ bundle = [c \in Clients |-> None]
    /\ answer = [c \in Clients |-> None]
    /\ pending = [c \in Clients |-> {}]
    /\ checked = [c \in Clients |-> {}]
    /\ given = [c \in Clients |-> {}]
    /\ seen = [c \in Clients |-> {}]
    /\ served = [c \in Clients |-> {}]
    /\ held = [c \in Clients |-> {}]

\* What has been since the call began, with x.
Noted(past, x) == [c \in Clients |-> IF cpc[c] = "idle" THEN past[c] ELSE past[c] \cup {x}]

\* A team, a sync job or an operator changes files or the configuration.
Edit == /\ edits < MaxEdits
        /\ edits' = edits + 1
        /\ disk' \in Disks \ {disk}
        /\ held' = Noted(held, disk')
        /\ UNCHANGED <<service, lock, reloads, cpc, call, snap, bundle, answer,
                       judging, seen, served, history>>

----------------------------------------------------------------------------
\* reload()

\* load_config(self.config_path) if self.config_path else self.config
ReloadConfig == IF HasConfigPath THEN disk.config ELSE config

LoadConfig(t) ==
    LET c == ReloadConfig
    IN  /\ pc[t] = "idle"
        /\ c # NoConfig
        /\ pc' = [pc EXCEPT ![t] = "import"]
        /\ cfg' = [cfg EXCEPT ![t] = c]
        /\ todo' = [todo EXCEPT ![t] = c.sources]
        /\ imported' = [imported EXCEPT ![t] = {}]
        /\ returned' = [returned EXCEPT ![t] = None]
        /\ UNCHANGED <<disk, edits, service, lock, prev, calls, history>>

\* load_config raises, and so does reload(): nothing is returned
LoadConfigRaises(t) ==
    /\ pc[t] = "idle"
    /\ ReloadConfig = NoConfig
    /\ returned' = [returned EXCEPT ![t] = None]
    /\ UNCHANGED <<disk, edits, service, lock, pc, cfg, todo, imported, prev, calls, history>>

\* one iteration of the loop of import_sources: the disk may change between two
ImportSource(t) ==
    /\ pc[t] = "import"
    /\ todo[t] # <<>>
    /\ Head(todo[t]).path \notin disk.raises
    /\ imported' = [imported EXCEPT ![t] = @ \cup ImportedFrom(disk, Head(todo[t]))]
    /\ todo' = [todo EXCEPT ![t] = Tail(@)]
    /\ UNCHANGED <<disk, edits, service, lock, pc, cfg, prev, returned, calls, history>>

\* Mutant of ImportRaises: the exception ends the thread.
ImportRaisesForGood(t) ==
    /\ pc[t] = "import"
    /\ todo[t] # <<>>
    /\ Head(todo[t]).path \in disk.raises
    /\ pc' = [pc EXCEPT ![t] = "dead"]
    /\ UNCHANGED <<disk, edits, service, lock, cfg, todo, imported, prev, returned, calls, history>>

\* an exception load_source lets through ends reload(); the refresher logs it
ImportRaises(t) ==
    /\ pc[t] = "import"
    /\ todo[t] # <<>>
    /\ Head(todo[t]).path \in disk.raises
    /\ pc' = [pc EXCEPT ![t] = "idle"]
    /\ cfg' = [cfg EXCEPT ![t] = None]
    /\ todo' = [todo EXCEPT ![t] = <<>>]
    /\ imported' = [imported EXCEPT ![t] = {}]
    /\ UNCHANGED <<disk, edits, service, lock, prev, returned, calls, history>>

\* Mutant of ReportOk: precedence is decided with the configuration in service.
ReportOkInService(t) == Conflicts(imported[t], config) = {}

ReportOk(t) == Conflicts(imported[t], cfg[t]) = {}

\* Mutant of Acquire: the lock is not waited for.
AcquireAnyway(t) ==
    /\ pc[t] = "import"
    /\ todo[t] = <<>>
    /\ lock' = t
    /\ prev' = [prev EXCEPT ![t] = current]
    /\ pc' = [pc EXCEPT ![t] = IF ReportOk(t) THEN "swap_config" ELSE "keep"]
    /\ UNCHANGED <<disk, edits, service, cfg, todo, imported, returned, calls, history>>

\* with self._lock: prev = self.store.latest(); if report.ok
Acquire(t) ==
    /\ pc[t] = "import"
    /\ todo[t] = <<>>
    /\ lock = None
    /\ lock' = t
    /\ prev' = [prev EXCEPT ![t] = current]
    /\ pc' = [pc EXCEPT ![t] = IF ReportOk(t) THEN "swap_config" ELSE "keep"]
    /\ UNCHANGED <<disk, edits, service, cfg, todo, imported, returned, calls, history>>

SwapConfig(t) ==
    /\ pc[t] = "swap_config"
    /\ config' = cfg[t]
    /\ pc' = [pc EXCEPT ![t] = "swap_registry"]
    /\ served' = Noted(served, cfg[t])
    /\ UNCHANGED <<disk, edits, registry, by_id, current, last_reload, lock,
                   cfg, todo, imported, prev, returned,
                   cpc, call, snap, bundle, answer, judging, seen, held, history>>

SwapRegistry(t) ==
    /\ pc[t] = "swap_registry"
    /\ registry' = FromConfig(cfg[t].engines)
    /\ pc' = [pc EXCEPT ![t] = "add"]
    /\ UNCHANGED <<disk, edits, config, by_id, current, last_reload, lock,
                   cfg, todo, imported, prev, returned, calls, history>>

\* Mutant of AddBundle: the bundle is built with the configuration on disk now.
AddBundleRereading(t) ==
    LET b == BundleOf(imported[t], IF disk.config = NoConfig THEN cfg[t] ELSE disk.config)
    IN  /\ pc[t] = "add"
        /\ by_id' = Filed(by_id, b)
        /\ current' = b.bundle_id
        /\ pc' = [pc EXCEPT ![t] = "status"]
        /\ generations' = generations \cup {[bundle_id |-> b.bundle_id, config |-> cfg[t]]}
        /\ origin' = "reload"
        /\ seen' = Noted(seen, b.bundle_id)
        /\ UNCHANGED <<disk, edits, config, registry, last_reload, lock,
                       cfg, todo, imported, prev, returned,
                       cpc, call, snap, bundle, answer, judging, served, held>>

AddBundle(t) ==
    LET b == BundleOf(imported[t], cfg[t])
    IN  /\ pc[t] = "add"
        /\ by_id' = Filed(by_id, b)
        /\ current' = b.bundle_id
        /\ pc' = [pc EXCEPT ![t] = "status"]
        /\ generations' = generations \cup {[bundle_id |-> b.bundle_id, config |-> cfg[t]]}
        /\ origin' = "reload"
        /\ seen' = Noted(seen, b.bundle_id)
        /\ UNCHANGED <<disk, edits, config, registry, last_reload, lock,
                       cfg, todo, imported, prev, returned,
                       cpc, call, snap, bundle, answer, judging, served, held>>

\* Mutant of Published: the lock is not released.
PublishedHolding(t) ==
    /\ pc[t] = "status"
    /\ last_reload' = [ok |-> TRUE, changed |-> current # prev[t], bundle_id |-> current]
    /\ pc' = [pc EXCEPT ![t] = "return"]
    /\ UNCHANGED <<disk, edits, config, registry, by_id, current, lock,
                   cfg, todo, imported, prev, returned, calls, history>>

\* the status of a published reload, and the end of the with block
Published(t) ==
    /\ pc[t] = "status"
    /\ last_reload' = [ok |-> TRUE, changed |-> current # prev[t], bundle_id |-> current]
    /\ lock' = None
    /\ pc' = [pc EXCEPT ![t] = "return"]
    /\ UNCHANGED <<disk, edits, config, registry, by_id, current,
                   cfg, todo, imported, prev, returned, calls, history>>

\* Mutant of Kept: the status names the bundle that was refused.
KeptButRefused(t) ==
    /\ pc[t] = "keep"
    /\ last_reload' = [ok |-> FALSE, changed |-> FALSE, bundle_id |-> Hash(imported[t])]
    /\ lock' = None
    /\ pc' = [pc EXCEPT ![t] = "return"]
    /\ UNCHANGED <<disk, edits, config, registry, by_id, current,
                   cfg, todo, imported, prev, returned, calls, history>>

\* the status of a failed one, which keeps the last bundle
Kept(t) ==
    /\ pc[t] = "keep"
    /\ last_reload' = [ok |-> FALSE, changed |-> FALSE, bundle_id |-> prev[t]]
    /\ lock' = None
    /\ pc' = [pc EXCEPT ![t] = "return"]
    /\ UNCHANGED <<disk, edits, config, registry, by_id, current,
                   cfg, todo, imported, prev, returned, calls, history>>

\* return self.last_reload, read after the lock was released
Return(t) ==
    /\ pc[t] = "return"
    /\ returned' = [returned EXCEPT ![t] = last_reload]
    /\ pc' = [pc EXCEPT ![t] = "idle"]
    /\ cfg' = [cfg EXCEPT ![t] = None]
    /\ imported' = [imported EXCEPT ![t] = {}]
    /\ prev' = [prev EXCEPT ![t] = None]
    /\ UNCHANGED <<disk, edits, service, lock, todo, calls, history>>

Reload(t) == \/ LoadConfig(t) \/ LoadConfigRaises(t) \/ ImportSource(t) \/ ImportRaises(t)
             \/ Acquire(t) \/ SwapConfig(t) \/ SwapRegistry(t) \/ AddBundle(t)
             \/ Published(t) \/ Kept(t) \/ Return(t)

----------------------------------------------------------------------------
\* The three operations

Requests == {req \in
    [op : {"get_constraints"}, scope : Scopes \cup {BadScope}, artifact : {None}]
      \cup [op : {"validate"}, scope : Scopes \cup {BadScope}, artifact : Artifacts]
      \cup [op : {"describe_scope"}, scope : {None}, artifact : {None}] :
    req.op \in Ops}

\* A client names no version, one it may have seen, or an unknown one.
Call(c) ==
    /\ cpc[c] = "idle"
    /\ \E req \in Requests, v \in {None, UnknownVersion} \cup DOMAIN by_id :
          call' = [call EXCEPT ![c] = [op |-> req.op, scope |-> req.scope,
                                       artifact |-> req.artifact, version |-> v]]
    /\ cpc' = [cpc EXCEPT ![c] = "snapshot"]
    /\ answer' = [answer EXCEPT ![c] = None]
    /\ seen' = [seen EXCEPT ![c] = {current}]
    /\ served' = [served EXCEPT ![c] = {config}]
    /\ held' = [held EXCEPT ![c] = {disk}]
    /\ UNCHANGED <<disk, edits, service, lock, reloads, snap, bundle, judging, history>>

\* Mutant of Snapshot: the lock is not taken.
SnapshotUnlocked(c) ==
    /\ cpc[c] = "snapshot"
    /\ snap' = [snap EXCEPT ![c] = [registry |-> registry, config |-> config]]
    /\ cpc' = [cpc EXCEPT ![c] = "resolve"]
    /\ UNCHANGED <<disk, edits, service, lock, reloads, call, bundle, answer,
                   judging, since, history>>

\* _snapshot(): the registry and the configuration under the lock; the third
\* value is the store object itself, which later adds go on changing.
Snapshot(c) ==
    /\ cpc[c] = "snapshot"
    /\ lock = None
    /\ snap' = [snap EXCEPT ![c] = [registry |-> registry, config |-> config]]
    /\ cpc' = [cpc EXCEPT ![c] = "resolve"]
    /\ UNCHANGED <<disk, edits, service, lock, reloads, call, bundle, answer,
                   judging, since, history>>

\* What validate has to evaluate: every binding of every constraint in scope.
ToJudge(req, b) ==
    IF req.op # "validate" \/ b = None \/ req.scope = BadScope THEN {}
    ELSE UNION {{[ic |-> ic, binding |-> e] : e \in ic.constraint.enforcement} :
                  ic \in Select(b.constraints, req.scope)}

\* _resolve_bundle(), outside the lock, and the start of the loops of validate
Resolve(c) ==
    /\ cpc[c] = "resolve"
    /\ bundle' = [bundle EXCEPT ![c] = Get(call[c].version)]
    /\ pending' = [pending EXCEPT ![c] = ToJudge(call[c], Get(call[c].version))]
    /\ cpc' = [cpc EXCEPT ![c] = "answer"]
    /\ UNCHANGED <<disk, edits, service, lock, reloads, call, snap, answer,
                   checked, given, since, history>>

\* Constraints come in the order of the bundle, bindings of one in any order.
Due(p, bindings) ==
    p \in bindings /\ \A q \in bindings : q.ic = p.ic \/ Before(p.ic, q.ic)

Verdict(c, p) == BindingVerdict(p.ic, p.binding, call[c].artifact,
                                snap[c].registry, snap[c].config, disk.files)
Gives(c, p) == given' = [given EXCEPT ![c] = @ \cup {[of |-> p, verdict |-> Verdict(c, p)]}]

\* registry.for_binding, policy_path.exists(): the adapter is called next ...
LookUp(c) ==
    /\ cpc[c] = "answer"
    /\ checked[c] = {}
    /\ \E p \in pending[c] :
          /\ Due(p, pending[c])
          /\ Evaluable(p.ic, p.binding, snap[c].registry, snap[c].config, disk.files)
          /\ checked' = [checked EXCEPT ![c] = {p}]
          /\ pending' = [pending EXCEPT ![c] = @ \ {p}]
    /\ UNCHANGED <<disk, edits, service, lock, reloads, cpc, call, snap, bundle, answer,
                   given, since, history>>

\* ... or there is none, or no policy: an error is appended, continue
LookUpFails(c) ==
    /\ cpc[c] = "answer"
    /\ checked[c] = {}
    /\ \E p \in pending[c] :
          /\ Due(p, pending[c])
          /\ ~Evaluable(p.ic, p.binding, snap[c].registry, snap[c].config, disk.files)
          /\ Gives(c, p)
          /\ pending' = [pending EXCEPT ![c] = @ \ {p}]
    /\ UNCHANGED <<disk, edits, service, lock, reloads, cpc, call, snap, bundle, answer,
                   checked, since, history>>

\* adapter.evaluate: the policy is read now, on the disk of now; an adapter
\* answers error for one that has gone.
Evaluate(c) ==
    /\ cpc[c] = "answer"
    /\ \E p \in checked[c] : Verdict(c, p) # "raised" /\ Gives(c, p)
    /\ checked' = [checked EXCEPT ![c] = {}]
    /\ UNCHANGED <<disk, edits, service, lock, reloads, cpc, call, snap, bundle, answer,
                   pending, since, history>>

\* get_constraints and describe_scope fail open, validate raises.
Unavailable == [available |-> FALSE, bundle_id |-> None]
Raised == [raised |-> TRUE, bundle_id |-> None]

\* What get_constraints and describe_scope make of a bundle.
Guidance(req, b) ==
    IF b = None \/ (req.op = "get_constraints" /\ req.scope = BadScope) THEN Unavailable
    ELSE IF req.op = "get_constraints"
    THEN [available |-> TRUE, bundle_id |-> b.bundle_id,
          constraints |-> Select(b.constraints, req.scope)]
    ELSE [available |-> TRUE, bundle_id |-> b.bundle_id,
          vocabulary |-> Vocabulary(b.constraints)]

\* The report from the verdicts the bindings gave.
Report(req, b, verdicts) ==
    IF b = None \/ req.scope = BadScope THEN Raised
    ELSE [bundle_id |-> b.bundle_id,
          results |-> {ResultWith(ic, Combined({g.verdict :
                                        g \in {h \in verdicts : h.of.ic = ic}})) :
                         ic \in Select(b.constraints, req.scope)}]

AnswerTo(req, b, verdicts) ==
    IF req.op = "validate" THEN Report(req, b, verdicts) ELSE Guidance(req, b)

\* The call returns, or raises, and its locals go.
Ends(c, result) ==
    /\ answer' = [answer EXCEPT ![c] = result]
    /\ cpc' = [cpc EXCEPT ![c] = "idle"]
    /\ snap' = [snap EXCEPT ![c] = None]
    /\ bundle' = [bundle EXCEPT ![c] = None]
    /\ pending' = [pending EXCEPT ![c] = {}]
    /\ checked' = [checked EXCEPT ![c] = {}]
    /\ given' = [given EXCEPT ![c] = {}]
    /\ seen' = [seen EXCEPT ![c] = {}]
    /\ served' = [served EXCEPT ![c] = {}]
    /\ held' = [held EXCEPT ![c] = {}]
    /\ UNCHANGED <<disk, edits, service, lock, reloads, call, history>>

\* An exception out of one adapter ends validate.
EvaluateRaises(c) ==
    /\ cpc[c] = "answer"
    /\ \E p \in checked[c] : Verdict(c, p) = "raised"
    /\ Ends(c, Raised)

Answer(c) ==
    /\ cpc[c] = "answer"
    /\ checked[c] = {} /\ pending[c] = {}
    /\ Ends(c, AnswerTo(call[c], bundle[c], given[c]))

Judge(c) == LookUp(c) \/ LookUpFails(c) \/ Evaluate(c) \/ EvaluateRaises(c)
Serve(c) == Call(c) \/ Snapshot(c) \/ Resolve(c) \/ Judge(c) \/ Answer(c)

----------------------------------------------------------------------------

Next == \/ Edit
        \/ \E t \in Reloaders : Reload(t)
        \/ \E c \in Clients : Serve(c)

Spec == Init /\ [][Next]_vars

\* Threads keep running, and a refresher wakes up again.  A thread waiting for
\* the lock gets it when it is free again and again: the refresher sleeps at
\* least a second between reloads, and every critical section is short.
\* Nothing makes another thread reload, a client call, or the disk change.
Finishes(t) == WF_vars(SwapConfig(t) \/ SwapRegistry(t) \/ AddBundle(t)
                       \/ Published(t) \/ Kept(t) \/ Return(t))
Fairness ==
    \A t \in Reloaders :
        /\ t \in Refreshers => WF_vars(LoadConfig(t))
        /\ WF_vars(ImportSource(t) \/ ImportRaises(t))
        /\ SF_vars(Acquire(t))
        /\ Finishes(t)
FairSpec == Spec /\ Fairness

\* A call that began is not abandoned: its thread keeps running too, and gets
\* the lock for its snapshot as a reload does.  Of the reloads no more is asked
\* than that one inside its critical section goes on.
CallFairness ==
    /\ \A t \in Reloaders : Finishes(t)
    /\ \A c \in Clients : SF_vars(Snapshot(c)) /\ WF_vars(Resolve(c) \/ Judge(c) \/ Answer(c))
CallFairSpec == Spec /\ CallFairness

----------------------------------------------------------------------------
\* Properties

Configurations == {d.config : d \in Disks} \ {NoConfig}
Critical == {"swap_config", "swap_registry", "add", "status", "keep"}

\* Configurations and bundles exist; the store files bundles under their ids.
ServiceTyped ==
    /\ disk \in Disks
    /\ config \in Configurations
    /\ current \in DOMAIN by_id \cup {None}
    /\ \A id \in DOMAIN by_id : by_id[id].bundle_id = id /\ by_id[id].constraints = id
    /\ \A g \in generations : g.bundle_id \in DOMAIN by_id /\ g.config \in Configurations
    /\ origin = "reload" => current \in DOMAIN by_id
\* The locals of a running reload are set.
ReloadsTyped ==
    /\ lock \in Reloaders \cup {None}
    /\ pc \in [Reloaders -> {"idle", "import", "return"} \cup Critical]
    /\ cfg \in [Reloaders -> Configurations \cup {None}]
    /\ \A t \in Reloaders : pc[t] # "idle" => cfg[t] # None
    /\ DOMAIN todo = Reloaders /\ DOMAIN imported = Reloaders
    /\ DOMAIN prev = Reloaders /\ DOMAIN returned = Reloaders
\* A client is before one of the statements of a call, or calls nothing.
CallsTyped ==
    /\ cpc \in [Clients -> {"idle", "snapshot", "resolve", "answer"}]
    /\ DOMAIN call = Clients /\ DOMAIN snap = Clients /\ DOMAIN bundle = Clients
    /\ DOMAIN answer = Clients
    /\ DOMAIN pending = Clients /\ DOMAIN checked = Clients /\ DOMAIN given = Clients
    /\ DOMAIN seen = Clients /\ DOMAIN served = Clients /\ DOMAIN held = Clients
\* Control is where the code can be, the locals of a running reload are set,
\* the store files bundles under their ids, and the histories speak of
\* bundles and configurations that exist.
TypeOK == ServiceTyped /\ ReloadsTyped /\ CallsTyped

\* A call evaluates with a registry and a configuration that belong together:
\* it never sees the middle of a swap (service.py:48-49, _snapshot).
SnapshotCoherent ==
    \A c \in Clients : snap[c] # None => snap[c].registry = FromConfig(snap[c].config.engines)

\* Whenever no reload is inside its critical section, last_reload names the
\* bundle being served: no bundle is published, or kept, without its status,
\* whichever of several concurrent reloads came last.
StatusTellsServedBundle ==
    (lock = None /\ last_reload # None) => last_reload.bundle_id = current

\* A bundle a reload published has no precedence conflict under the
\* configuration served with it, even if the disk changed while it was
\* imported (FR-NAMESPACE-3, service.py:73-74).
ReloadedBundleIsClean ==
    (lock = None /\ origin = "reload") => Conflicts(by_id[current].constraints, config) = {}

\* An unpinned answer is computed from a bundle that was the served one at some
\* moment of the call, although reloads publish while the call runs: it is
\* never older than the call.
AnswerNotOlderThanCall ==
    [][\A c \in Clients :
         ( /\ answer'[c] # answer[c] /\ answer'[c] # None
           /\ call[c].version = None /\ answer'[c].bundle_id # None )
         => answer'[c].bundle_id \in seen[c]]_vars

\* A guidance answer for a pinned version is the one that version gives for
\* ever: asking again after any number of reloads returns the same (FR-VERSION-3).
PinnedGuidanceRepeats ==
    \A c \in Clients :
        ( /\ answer[c] # None /\ answer[c].bundle_id # None
          /\ call[c].version # None /\ call[c].op # "validate" )
        => Guidance(call[c], Get(call[c].version)) = answer[c]

\* A report that says the artifact passes has just been returned.
PassReturned(c) ==
    /\ answer'[c] # answer[c] /\ answer'[c] # None
    /\ call[c].op = "validate" /\ answer'[c].bundle_id # None
    /\ Passed(answer'[c])

\* Under this configuration the binding has an adapter, and a policy that
\* accepted the artifact at some moment of the call.
AcceptedUnder(cf, c, p) ==
    /\ ForBinding(FromConfig(cf.engines), p.binding.engine) # None
    /\ \E d \in held[c] : LET policy == PolicyPath(cf, p.ic.source, p.binding.policy)
                          IN  /\ policy \in DOMAIN d.files
                              /\ d.files[policy][call[c].artifact] = "pass"
\* So has every binding of what the report is about.
EarnedUnder(cf, c) == \A p \in ToJudge(call[c], bundle[c]) : AcceptedUnder(cf, c, p)

\* No reload took effect while the call ran.
Undisturbed(c, cf) == served[c] = {cf} /\ \A i, j \in seen[c] : i = j

\* A report that passed was earned under one configuration that was in service
\* while the call ran, the same for all its bindings, although policies come
\* and go between the look at one binding and the run of its tool, and from one
\* binding to the next.  If no reload took effect meanwhile and the call named
\* no version, the reported bundle was published with that configuration: the
\* pass is the served generation's own.  A reload in between can break that
\* link, and with it let an artifact pass that either generation rejects
\* (ServiceClaims).
PassIsEarned ==
    [][\A c \in Clients : PassReturned(c) =>
         \E cf \in served[c] :
            /\ EarnedUnder(cf, c)
            /\ Undisturbed(c, cf) /\ call[c].version = None
               => [bundle_id |-> answer'[c].bundle_id, config |-> cf] \in generations]_vars

\* The parts of the inductive invariant.
LockOwner ==
    \A t \in Reloaders : pc[t] \in Critical <=> lock = t
CriticalLocals ==
    \A t \in Reloaders :
        /\ pc[t] \in Critical \ {"status"} => prev[t] = current
        /\ pc[t] \in {"swap_config", "swap_registry", "add"} => ReportOk(t)
        /\ pc[t] \in {"swap_registry", "add"} => config = cfg[t]
Nobody(where) == \A t \in Reloaders : pc[t] \notin where
RegistryFollowsConfig ==
    Nobody({"swap_registry"}) => registry = FromConfig(config.engines)
StatusFollowsBundle ==
    (Nobody({"status"}) /\ last_reload # None) => last_reload.bundle_id = current
BundleFollowsConfig ==
    (Nobody({"swap_registry", "add"}) /\ origin = "reload")
    => Conflicts(by_id[current].constraints, config) = {}
\* The inductive invariant behind the safety properties: the lock is held by
\* exactly the reload inside its critical section, which knows the bundle it
\* found and holds a conflict-free import; what is out of step while it runs
\* is only what its next statements repair.
IInv == /\ TypeOK /\ LockOwner /\ CriticalLocals
        /\ RegistryFollowsConfig /\ StatusFollowsBundle /\ BundleFollowsConfig
        /\ SnapshotCoherent

History == INSTANCE VersionHistory WITH versions <- by_id, latest <- current
\* The service keeps the promise of VersionHistory to its consumers: no reload
\* takes away or changes a bundle that could be retrieved (FR-VERSION-3).
KeepsHistory == History!Spec

\* Every call is answered: no reload, whether it publishes, is refused, raises
\* or finds its configuration gone, leaves the lock of _snapshot taken, and
\* neither the refresher's repeated reloads nor edits starve a caller.
EveryCallAnswered == \A c \in Clients : cpc[c] # "idle" ~> cpc[c] = "idle"

\* Every version in the store has the precedence record of one configuration a
\* reload, or the start, read and published it under: the record is never made
\* of the constraints of one disk and the precedences of another, and refiling
\* a version that exists leaves its record alone (store.py add, bundle.py).
RecordOfOneConfiguration ==
    \A id \in DOMAIN by_id : \E g \in generations :
        g.bundle_id = id /\ by_id[id] = BundleOf(by_id[id].constraints, g.config)

\* What a ReloadStatus that names this bundle may be.
StatusOf(id) == [ok : BOOLEAN, changed : BOOLEAN, bundle_id : {id}]

\* reload() reads self.last_reload after it released the lock, so it may return
\* what another reload put there; but it always returns a status, and of the
\* bundle served at that moment or, while a reload holds the lock, of the one
\* served when that reload took it (service.py:106).
ReturnedStatusIsFresh ==
    [][\A t \in Reloaders : pc[t] = "return" /\ pc'[t] # "return" =>
         \/ returned'[t] \in StatusOf(current)
         \/ lock # None /\ returned'[t] \in StatusOf(prev[lock])]_vars

Importable(d) == Loads(d) /\ Conflicts(ImportAll(d), d.config) = {}

\* Once the disk stays as it is and is importable, it is eventually what is
\* served, for good: torn imports, failed reloads, configurations that did not
\* load and files that raised leave nothing behind.
DiskIsEventuallyServed ==
    \A d \in {e \in Disks : Importable(e)} :
        <>[](disk = d) => <>[](config = d.config /\ registry = FromConfig(d.config.engines)
                               /\ current = Hash(ImportAll(d)))
=============================================================================
