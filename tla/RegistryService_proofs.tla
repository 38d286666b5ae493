----------------------- MODULE RegistryService_proofs -----------------------
(***************************************************************************)
(* The safety of the registry service for any number of reloading threads  *)
(* and clients, any disks and any number of edits.  The invariants are the *)
(* parts of IInv (see RegistryService); importing, precedence and engine   *)
(* loading stay opaque except for what the lemmas below say of them.       *)
(* The second part is about what callers of the service get.               *)
(***************************************************************************)
EXTENDS RegistryService, TLAPS

\* A bundle is filed under the hash of exactly its constraints.
LEMMA BundleIdentity ==
    ASSUME NEW S, NEW c
    PROVE  BundleOf(S, c).bundle_id = S /\ BundleOf(S, c).constraints = S
  BY DEF BundleOf, Hash

\* The initial states of both constructors satisfy the invariant.
LEMMA InitIInv == Init => IInv
<1> SUFFICES ASSUME Init PROVE IInv
  OBVIOUS
<1> USE DEF Init, Loads
<1>1. ServiceTyped
  <2>1. CASE StartFromDisk
    BY <2>1, BundleIdentity DEF ServiceTyped, StartFromDisk, Configurations
  <2>2. CASE StartEmpty
    BY <2>2 DEF ServiceTyped, StartEmpty, Configurations
  <2>3. QED
    BY <2>1, <2>2
<1>5. ReloadsTyped /\ CallsTyped
  BY DEF ReloadsTyped, CallsTyped
<1>2. LockOwner /\ CriticalLocals
  BY ThreadsAssumption DEF LockOwner, CriticalLocals, Critical
<1>3. RegistryFollowsConfig /\ StatusFollowsBundle /\ BundleFollowsConfig /\ SnapshotCoherent
  BY DEF RegistryFollowsConfig, StatusFollowsBundle, BundleFollowsConfig, SnapshotCoherent
<1>4. QED
  BY <1>1, <1>5, <1>2, <1>3 DEF IInv, TypeOK

\* What no step of a client, and no edit, touches.
Reloading == <<service, lock, pc, cfg, imported, prev, history>>

\* As long as the reloads stand still, only the typing and the snapshots of
\* the clients are left to show.
LEMMA ReloadingUnchanged ==
    ASSUME IInv, UNCHANGED Reloading, TypeOK', SnapshotCoherent'
    PROVE  IInv'
<1> USE DEF IInv, Reloading, service, history
<1>1. LockOwner' /\ CriticalLocals'
  BY DEF LockOwner, CriticalLocals, ReportOk
<1>2. RegistryFollowsConfig' /\ StatusFollowsBundle' /\ BundleFollowsConfig'
  BY DEF RegistryFollowsConfig, StatusFollowsBundle, BundleFollowsConfig, Nobody
<1>3. QED
  BY <1>1, <1>2

\* A step of a call touches what is its client's only.
LEMMA ServeIsLocal ==
    ASSUME NEW c \in Clients, Serve(c)
    PROVE  UNCHANGED <<disk, edits, service, lock, reloads, history>>
<1> USE DEF service, reloads, history
<1>1. CASE Call(c) \/ Snapshot(c) \/ Resolve(c)
  BY <1>1 DEF Call, Snapshot, Resolve
<1>2. CASE Judge(c) \/ Answer(c)
  BY <1>2 DEF Judge, LookUp, LookUpFails, Evaluate, EvaluateRaises, Answer, Ends
<1>3. QED
  BY <1>1, <1>2 DEF Serve

\* A change of the disk disturbs nothing the service has in memory.
LEMMA EditKeepsIInv == ASSUME IInv, Edit PROVE IInv'
<1> USE DEF IInv, Edit, Noted, service, reloads, judging, history
<1>1. TypeOK'
  BY DEF TypeOK, ServiceTyped, ReloadsTyped, CallsTyped
<1>2. SnapshotCoherent'
  BY DEF SnapshotCoherent
<1>3. QED
  BY <1>1, <1>2, ReloadingUnchanged DEF Reloading

\* A client's step: the snapshot is taken while no reload is between the two
\* assignments of the swap, which is where the registry lags the configuration.
LEMMA ServeKeepsIInv ==
    ASSUME IInv, NEW c \in Clients, Serve(c) PROVE IInv'
<1> USE DEF IInv, TypeOK
<1>1. UNCHANGED <<disk, edits, service, lock, reloads, history>>
  BY ServeIsLocal
<1>2. CallsTyped /\ SnapshotCoherent
  OBVIOUS
<1>3. CallsTyped' /\ SnapshotCoherent'
  <2> USE <1>2 DEF CallsTyped, SnapshotCoherent, judging, since
  <2>1. CASE Call(c) \/ Resolve(c)
    BY <2>1 DEF Call, Resolve
  <2>2. CASE Snapshot(c)
    <3>1. registry = FromConfig(config.engines)
      BY <2>2, ThreadsAssumption DEF Snapshot, RegistryFollowsConfig, Nobody, LockOwner, Critical
    <3>2. CallsTyped'
      BY <2>2 DEF Snapshot
    <3>3. SnapshotCoherent'
      BY <2>2, <3>1 DEF Snapshot
    <3>4. QED
      BY <3>2, <3>3
  <2>3. CASE LookUp(c) \/ LookUpFails(c) \/ Evaluate(c)
    BY <2>3 DEF LookUp, LookUpFails, Evaluate, Gives
  <2>4. CASE EvaluateRaises(c) \/ Answer(c)
    <3>1. PICK result : Ends(c, result)
      BY <2>4 DEF EvaluateRaises, Answer
    <3>2. QED
      BY <3>1 DEF Ends
  <2>5. QED
    BY <2>1, <2>2, <2>3, <2>4 DEF Serve, Judge
<1>4. TypeOK'
  BY <1>1, <1>3 DEF ServiceTyped, ReloadsTyped, service, reloads, history
<1>5. QED
  BY <1>1, <1>3, <1>4, ReloadingUnchanged DEF Reloading, reloads

\* Before the lock: a reload reads its configuration and imports into its own
\* locals.
LEMMA ImportKeepsIInv ==
    ASSUME IInv, NEW t \in Reloaders,
           LoadConfig(t) \/ LoadConfigRaises(t) \/ ImportSource(t) \/ ImportRaises(t)
    PROVE  IInv'
<1> USE DEF IInv, TypeOK, service, reloads, calls, judging, since, history
<1>1. CASE LoadConfig(t)
  <2> USE <1>1 DEF LoadConfig, ReloadConfig
  <2>1. TypeOK'
    BY DEF ServiceTyped, ReloadsTyped, CallsTyped, Configurations, NoConfig, Critical
  <2>2. LockOwner' /\ CriticalLocals'
    BY DEF LockOwner, CriticalLocals, ReportOk, ReloadsTyped, Critical
  <2>3. RegistryFollowsConfig' /\ StatusFollowsBundle' /\ BundleFollowsConfig'
    BY DEF RegistryFollowsConfig, StatusFollowsBundle, BundleFollowsConfig, Nobody,
           ReloadsTyped
  <2>4. SnapshotCoherent'
    BY DEF SnapshotCoherent
  <2>5. QED
    BY <2>1, <2>2, <2>3, <2>4
<1>2. CASE LoadConfigRaises(t)
  <2> USE <1>2 DEF LoadConfigRaises
  <2>1. TypeOK'
    BY DEF ServiceTyped, ReloadsTyped, CallsTyped
  <2>2. SnapshotCoherent'
    BY DEF SnapshotCoherent
  <2>3. QED
    BY <2>1, <2>2, ReloadingUnchanged DEF Reloading
<1>3. CASE ImportSource(t)
  <2> USE <1>3 DEF ImportSource
  <2>1. TypeOK'
    BY DEF ServiceTyped, ReloadsTyped, CallsTyped
  <2>2. LockOwner' /\ CriticalLocals'
    BY DEF LockOwner, CriticalLocals, ReportOk, ReloadsTyped
  <2>3. RegistryFollowsConfig' /\ StatusFollowsBundle' /\ BundleFollowsConfig'
    BY DEF RegistryFollowsConfig, StatusFollowsBundle, BundleFollowsConfig, Nobody
  <2>4. SnapshotCoherent'
    BY DEF SnapshotCoherent
  <2>5. QED
    BY <2>1, <2>2, <2>3, <2>4
<1>4. CASE ImportRaises(t)
  <2> USE <1>4 DEF ImportRaises
  <2>1. TypeOK'
    BY DEF ServiceTyped, ReloadsTyped, CallsTyped, Critical
  <2>2. LockOwner' /\ CriticalLocals'
    BY DEF LockOwner, CriticalLocals, ReportOk, ReloadsTyped, Critical
  <2>3. RegistryFollowsConfig' /\ StatusFollowsBundle' /\ BundleFollowsConfig'
    BY DEF RegistryFollowsConfig, StatusFollowsBundle, BundleFollowsConfig, Nobody,
           ReloadsTyped
  <2>4. SnapshotCoherent'
    BY DEF SnapshotCoherent
  <2>5. QED
    BY <2>1, <2>2, <2>3, <2>4
<1>5. QED
  BY <1>1, <1>2, <1>3, <1>4

\* Inside the critical section: the holder of the lock is the only one there,
\* so what it finds stays what it left.
LEMMA SwapKeepsIInv ==
    ASSUME IInv, NEW t \in Reloaders,
           Acquire(t) \/ SwapConfig(t) \/ SwapRegistry(t) \/ AddBundle(t)
    PROVE  IInv'
<1> USE DEF IInv, TypeOK, service, reloads, calls, judging, since, Noted, history
<1>1. CASE Acquire(t)
  <2> USE <1>1 DEF Acquire
  <2>1. TypeOK'
    BY DEF ServiceTyped, ReloadsTyped, CallsTyped, Critical
  <2>2. LockOwner' /\ CriticalLocals'
    BY ThreadsAssumption DEF LockOwner, CriticalLocals, ReportOk, ReloadsTyped, Critical
  <2>3. RegistryFollowsConfig' /\ StatusFollowsBundle' /\ BundleFollowsConfig'
    BY ThreadsAssumption DEF RegistryFollowsConfig, StatusFollowsBundle,
           BundleFollowsConfig, Nobody, LockOwner, ReloadsTyped, Critical
  <2>4. SnapshotCoherent'
    BY DEF SnapshotCoherent
  <2>5. QED
    BY <2>1, <2>2, <2>3, <2>4
<1>2. CASE SwapConfig(t)
  <2> USE <1>2 DEF SwapConfig
  <2>0. lock = t /\ \A u \in Reloaders \ {t} : pc[u] \notin Critical
    BY DEF LockOwner, Critical
  <2>1. TypeOK'
    BY DEF ServiceTyped, ReloadsTyped, CallsTyped, Critical
  <2>2. LockOwner' /\ CriticalLocals'
    BY <2>0 DEF LockOwner, CriticalLocals, ReportOk, ReloadsTyped, Critical
  <2>3. RegistryFollowsConfig' /\ StatusFollowsBundle' /\ BundleFollowsConfig'
    BY <2>0 DEF RegistryFollowsConfig, StatusFollowsBundle,
           BundleFollowsConfig, Nobody, ReloadsTyped, Critical
  <2>4. SnapshotCoherent'
    BY DEF SnapshotCoherent
  <2>5. QED
    BY <2>1, <2>2, <2>3, <2>4
<1>3. CASE SwapRegistry(t)
  <2> USE <1>3 DEF SwapRegistry
  <2>0. lock = t /\ \A u \in Reloaders \ {t} : pc[u] \notin Critical
    BY DEF LockOwner, Critical
  <2>1. TypeOK'
    BY DEF ServiceTyped, ReloadsTyped, CallsTyped, Critical
  <2>2. LockOwner' /\ CriticalLocals'
    BY <2>0 DEF LockOwner, CriticalLocals, ReportOk, ReloadsTyped, Critical
  <2>3. RegistryFollowsConfig' /\ StatusFollowsBundle' /\ BundleFollowsConfig'
    BY <2>0 DEF RegistryFollowsConfig, StatusFollowsBundle, CriticalLocals,
           BundleFollowsConfig, Nobody, ReloadsTyped, Critical
  <2>4. SnapshotCoherent'
    BY DEF SnapshotCoherent
  <2>5. QED
    BY <2>1, <2>2, <2>3, <2>4
<1>4. CASE AddBundle(t)
  <2> DEFINE b == BundleOf(imported[t], cfg[t])
  <2> USE <1>4 DEF AddBundle
  <2>0. lock = t /\ \A u \in Reloaders \ {t} : pc[u] \notin Critical
    BY DEF LockOwner, Critical
  <2>a. by_id' = Filed(by_id, b) /\ current' = b.bundle_id
    OBVIOUS
  <2> HIDE DEF b
  <2>1. /\ DOMAIN by_id' = DOMAIN by_id \cup {b.bundle_id}
        /\ \A id \in DOMAIN by_id : by_id'[id] = by_id[id]
        /\ b.bundle_id \notin DOMAIN by_id => by_id'[b.bundle_id] = b
        /\ current' = b.bundle_id
    BY <2>a DEF Filed
  <2> USE DEF b
  <2>2. b.bundle_id = imported[t] /\ b.constraints = imported[t]
    BY BundleIdentity
  <2>3. cfg[t] \in Configurations /\ cfg[t] = config
    BY DEF CriticalLocals, ReloadsTyped, ServiceTyped
  <2>4. ServiceTyped'
    BY <2>1, <2>2, <2>3 DEF ServiceTyped
  <2>5. ReloadsTyped' /\ CallsTyped'
    BY DEF ReloadsTyped, CallsTyped, Critical
  <2>6. LockOwner' /\ CriticalLocals'
    BY <2>0 DEF LockOwner, CriticalLocals, ReportOk, ReloadsTyped, Critical
  <2>7. by_id'[current'].constraints = imported[t]
    BY <2>1, <2>2 DEF ServiceTyped
  <2>8. Conflicts(imported[t], config) = {}
    BY <2>3 DEF CriticalLocals, ReportOk
  <2>9. RegistryFollowsConfig' /\ StatusFollowsBundle' /\ BundleFollowsConfig'
    BY <2>0, <2>7, <2>8 DEF RegistryFollowsConfig, StatusFollowsBundle,
           BundleFollowsConfig, Nobody, ReloadsTyped, Critical
  <2>10. SnapshotCoherent'
    BY DEF SnapshotCoherent
  <2>11. QED
    BY <2>4, <2>5, <2>6, <2>9, <2>10
<1>5. QED
  BY <1>1, <1>2, <1>3, <1>4

\* The status, and the way out.
LEMMA StatusKeepsIInv ==
    ASSUME IInv, NEW t \in Reloaders, Published(t) \/ Kept(t) \/ Return(t)
    PROVE  IInv'
<1> USE DEF IInv, TypeOK, service, reloads, calls, judging, since, history
<1>1. CASE Published(t)
  <2> USE <1>1 DEF Published
  <2>0. lock = t /\ \A u \in Reloaders \ {t} : pc[u] \notin Critical
    BY DEF LockOwner, Critical
  <2>1. TypeOK'
    BY DEF ServiceTyped, ReloadsTyped, CallsTyped, Critical
  <2>2. LockOwner' /\ CriticalLocals'
    BY <2>0, ThreadsAssumption
    DEF LockOwner, CriticalLocals, ReportOk, ReloadsTyped, Critical
  <2>3. RegistryFollowsConfig' /\ StatusFollowsBundle' /\ BundleFollowsConfig'
    BY <2>0 DEF RegistryFollowsConfig, StatusFollowsBundle,
           BundleFollowsConfig, Nobody, ReloadsTyped, Critical
  <2>4. SnapshotCoherent'
    BY DEF SnapshotCoherent
  <2>5. QED
    BY <2>1, <2>2, <2>3, <2>4
<1>2. CASE Kept(t)
  <2> USE <1>2 DEF Kept
  <2>0. lock = t /\ \A u \in Reloaders \ {t} : pc[u] \notin Critical
    BY DEF LockOwner, Critical
  <2>1. TypeOK'
    BY DEF ServiceTyped, ReloadsTyped, CallsTyped, Critical
  <2>2. LockOwner' /\ CriticalLocals'
    BY <2>0, ThreadsAssumption
    DEF LockOwner, CriticalLocals, ReportOk, ReloadsTyped, Critical
  <2>3. RegistryFollowsConfig' /\ StatusFollowsBundle' /\ BundleFollowsConfig'
    BY <2>0 DEF RegistryFollowsConfig, StatusFollowsBundle, CriticalLocals,
           BundleFollowsConfig, Nobody, ReloadsTyped, Critical
  <2>4. SnapshotCoherent'
    BY DEF SnapshotCoherent
  <2>5. QED
    BY <2>1, <2>2, <2>3, <2>4
<1>3. CASE Return(t)
  <2> USE <1>3 DEF Return
  <2>1. TypeOK'
    BY DEF ServiceTyped, ReloadsTyped, CallsTyped, Critical
  <2>2. LockOwner' /\ CriticalLocals'
    BY DEF LockOwner, CriticalLocals, ReportOk, ReloadsTyped, Critical
  <2>3. RegistryFollowsConfig' /\ StatusFollowsBundle' /\ BundleFollowsConfig'
    BY DEF RegistryFollowsConfig, StatusFollowsBundle,
           BundleFollowsConfig, Nobody, ReloadsTyped
  <2>4. SnapshotCoherent'
    BY DEF SnapshotCoherent
  <2>5. QED
    BY <2>1, <2>2, <2>3, <2>4
<1>4. QED
  BY <1>1, <1>2, <1>3

\* Every step of the service preserves the invariant.
LEMMA NextKeepsIInv == IInv /\ [Next]_vars => IInv'
<1> SUFFICES ASSUME IInv, [Next]_vars PROVE IInv'
  OBVIOUS
<1>1. CASE Edit
  BY <1>1, EditKeepsIInv
<1>2. ASSUME NEW t \in Reloaders, Reload(t) PROVE IInv'
  BY <1>2, ImportKeepsIInv, SwapKeepsIInv, StatusKeepsIInv DEF Reload
<1>3. ASSUME NEW c \in Clients, Serve(c) PROVE IInv'
  BY <1>3, ServeKeepsIInv
<1>4. CASE UNCHANGED vars
  <2> USE <1>4 DEF vars, service, reloads, calls, judging, since, history, IInv
  <2>1. TypeOK'
    BY DEF TypeOK, ServiceTyped, ReloadsTyped, CallsTyped
  <2>2. SnapshotCoherent'
    BY DEF SnapshotCoherent
  <2>3. QED
    BY <2>1, <2>2, ReloadingUnchanged DEF Reloading
<1>5. QED
  BY <1>1, <1>2, <1>3, <1>4 DEF Next

\* IInv holds in every reachable state.
THEOREM Invariance == Spec => []IInv
<1>1. Init => IInv
  BY InitIInv
<1>2. IInv /\ [Next]_vars => IInv'
  BY NextKeepsIInv
<1>3. QED
  BY <1>1, <1>2, PTL DEF Spec

\* Control, locals and store keep the types TypeOK gives them.
THEOREM TypeCorrect == Spec => []TypeOK
<1>1. IInv => TypeOK
  BY DEF IInv
<1>2. QED
  BY <1>1, Invariance, PTL

\* No call ever pairs a registry with another generation's configuration.
THEOREM SnapshotsAreCoherent == Spec => []SnapshotCoherent
<1>1. IInv => SnapshotCoherent
  BY DEF IInv
<1>2. QED
  BY <1>1, Invariance, PTL

\* With any number of concurrent reloads, the status outside their critical
\* sections is that of the served bundle.
THEOREM StatusIsTruthful == Spec => []StatusTellsServedBundle
<1>1. IInv => StatusTellsServedBundle
  <2> SUFFICES ASSUME IInv, lock = None, last_reload # None
               PROVE  last_reload.bundle_id = current
    BY DEF StatusTellsServedBundle
  <2>1. Nobody({"status"})
    BY ThreadsAssumption DEF IInv, LockOwner, Nobody, Critical
  <2>2. QED
    BY <2>1 DEF IInv, StatusFollowsBundle
<1>2. QED
  BY <1>1, Invariance, PTL

\* What a reload publishes has no conflict under the configuration served
\* with it, however many reloads race and whatever the disk did meanwhile.
THEOREM ReloadsPublishCleanBundles == Spec => []ReloadedBundleIsClean
<1>1. IInv => ReloadedBundleIsClean
  <2> SUFFICES ASSUME IInv, lock = None, origin = "reload"
               PROVE  Conflicts(by_id[current].constraints, config) = {}
    BY DEF ReloadedBundleIsClean
  <2>1. Nobody({"swap_registry", "add"})
    BY ThreadsAssumption DEF IInv, LockOwner, Nobody, Critical
  <2>2. QED
    BY <2>1 DEF IInv, BundleFollowsConfig
<1>2. QED
  BY <1>1, Invariance, PTL

----------------------------------------------------------------------------
\* Refinement of VersionHistory

\* Either constructor leaves a store whose versions have their own ids.
LEMMA InitRefines == Init => History!Init
<1> SUFFICES ASSUME Init PROVE History!Init
  OBVIOUS
<1>1. CASE StartFromDisk
  BY <1>1 DEF StartFromDisk, History!Init
<1>2. CASE StartEmpty
  BY <1>2 DEF StartEmpty, History!Init
<1>3. QED
  BY <1>1, <1>2 DEF Init

\* An add publishes one version: it may come back under an id the store
\* already has, and then the old bundle stays.
LEMMA AddBundlePublishes ==
    ASSUME IInv, NEW t \in Reloaders, AddBundle(t)
    PROVE  History!Publish
<1> DEFINE b == BundleOf(imported[t], cfg[t])
<1>1. by_id' = Filed(by_id, b) /\ current' = b.bundle_id
  BY DEF AddBundle
<1> HIDE DEF b
<1>2. /\ DOMAIN by_id' = DOMAIN by_id \cup {b.bundle_id}
      /\ \A id \in DOMAIN by_id : by_id'[id] = by_id[id]
      /\ b.bundle_id \notin DOMAIN by_id => by_id'[b.bundle_id] = b
  BY <1>1 DEF Filed
<1>3. by_id'[b.bundle_id].bundle_id = b.bundle_id
  BY <1>2 DEF IInv, TypeOK, ServiceTyped
<1>4. QED
  BY <1>1, <1>2, <1>3 DEF History!Publish

\* Every step of the service is a publication or leaves the history alone.
LEMMA NextRefines ==
    IInv /\ [Next]_vars => [History!Publish]_<<by_id, current>>
<1> SUFFICES ASSUME IInv, [Next]_vars, ~ UNCHANGED <<by_id, current>>
             PROVE  History!Publish
  OBVIOUS
<1> USE DEF service, reloads, calls, history
<1>1. PICK t \in Reloaders : Reload(t)
  BY ServeIsLocal DEF Next, vars, Edit
<1>2. AddBundle(t)
  BY <1>1 DEF Reload, LoadConfig, LoadConfigRaises, ImportSource, ImportRaises,
              Acquire, SwapConfig, SwapRegistry, Published, Kept, Return
<1>3. QED
  BY <1>2, AddBundlePublishes

\* The service implements VersionHistory: what was retrievable stays so,
\* unchanged, and the default is retrievable.
THEOREM ServiceKeepsHistory == Spec => KeepsHistory
<1>1. Init => History!Init
  BY InitRefines
<1>2. IInv /\ [Next]_vars => [History!Publish]_<<by_id, current>>
  BY NextRefines
<1>3. QED
  BY <1>1, <1>2, Invariance, PTL DEF Spec, KeepsHistory, History!Spec

\* Only the start and an add put a bundle into the store; each puts in one it
\* built with the configuration it publishes, or leaves the old one there.
LEMMA RecordsInitially == Init => RecordOfOneConfiguration
<1> SUFFICES ASSUME Init PROVE RecordOfOneConfiguration
  OBVIOUS
<1>1. CASE StartFromDisk
  BY <1>1, BundleIdentity DEF StartFromDisk, RecordOfOneConfiguration
<1>2. CASE StartEmpty
  BY <1>2 DEF StartEmpty, RecordOfOneConfiguration
<1>3. QED
  BY <1>1, <1>2 DEF Init

LEMMA AddBundleKeepsRecords ==
    ASSUME RecordOfOneConfiguration, NEW t \in Reloaders, AddBundle(t)
    PROVE  RecordOfOneConfiguration'
<1> DEFINE b == BundleOf(imported[t], cfg[t])
           new == [bundle_id |-> b.bundle_id, config |-> cfg[t]]
<1>1. by_id' = Filed(by_id, b) /\ generations' = generations \cup {new}
  BY DEF AddBundle
<1>2. b = BundleOf(b.constraints, new.config)
  BY BundleIdentity
<1>3. new.bundle_id = b.bundle_id /\ new \in generations'
  BY <1>1
<1> HIDE DEF b, new
<1>4. SUFFICES ASSUME NEW id \in DOMAIN by_id'
               PROVE  \E g \in generations' :
                          g.bundle_id = id
                          /\ by_id'[id] = BundleOf(by_id'[id].constraints, g.config)
  BY DEF RecordOfOneConfiguration
<1>5. CASE id \in DOMAIN by_id
  <2>1. by_id'[id] = by_id[id]
    BY <1>1, <1>5 DEF Filed
  <2>2. PICK g \in generations :
            g.bundle_id = id /\ by_id[id] = BundleOf(by_id[id].constraints, g.config)
    BY <1>5 DEF RecordOfOneConfiguration
  <2>3. QED
    BY <1>1, <2>1, <2>2
<1>6. CASE id \notin DOMAIN by_id
  <2>1. id = b.bundle_id /\ by_id'[id] = b
    BY <1>1, <1>6 DEF Filed
  <2>2. QED
    BY <1>2, <1>3, <2>1
<1>7. QED
  BY <1>5, <1>6

LEMMA NextKeepsRecords ==
    RecordOfOneConfiguration /\ [Next]_vars => RecordOfOneConfiguration'
<1> SUFFICES ASSUME RecordOfOneConfiguration, [Next]_vars
             PROVE  RecordOfOneConfiguration'
  OBVIOUS
<1>1. CASE \E t \in Reloaders : AddBundle(t)
  BY <1>1, AddBundleKeepsRecords
<1>2. CASE ~ \E t \in Reloaders : AddBundle(t)
  <2>1. UNCHANGED <<by_id, generations>>
    BY <1>2, ServeIsLocal
    DEF Next, vars, service, reloads, calls, history, Edit, Reload, LoadConfig,
        LoadConfigRaises, ImportSource, ImportRaises, Acquire, SwapConfig, SwapRegistry,
        Published, Kept, Return
  <2>2. QED
    BY <2>1 DEF RecordOfOneConfiguration
<1>3. QED
  BY <1>1, <1>2

\* However many reloads race over however torn a disk, the precedence record of
\* a version is that of one published configuration (store.py add).
THEOREM RecordsAreOfOneConfiguration == Spec => []RecordOfOneConfiguration
  BY RecordsInitially, NextKeepsRecords, PTL DEF Spec

----------------------------------------------------------------------------
\* What callers get, for any number of them and of reloads: answers that are
\* current or repeat, passes that are earned, and from reload() itself a status
\* that is not stale.

Operations == {"get_constraints", "describe_scope", "validate"}

\* An answer names the bundle it was made from, or none.
LEMMA AnswerNamesBundle ==
    ASSUME NEW req, req.op \in Operations, NEW b, NEW verdicts
    PROVE  /\ AnswerTo(req, b, verdicts).bundle_id # None
              => b # None /\ AnswerTo(req, b, verdicts).bundle_id = b.bundle_id
           /\ b = None => AnswerTo(req, b, verdicts).bundle_id = None
<1>1. CASE req.op = "validate"
  BY <1>1 DEF AnswerTo, Report, Raised
<1>2. CASE req.op # "validate"
  BY <1>2 DEF AnswerTo, Guidance, Unavailable
<1>3. QED
  BY <1>1, <1>2

\* What is true of a call while it runs ...
RunningCall(c) ==
    cpc[c] # "idle" =>
        /\ current \in seen[c] /\ config \in served[c] /\ disk \in held[c]
        /\ call[c].op \in Operations
        /\ call[c].op = "validate" => call[c].artifact \in Artifacts
        /\ answer[c] = None
\* ... of the bundle it resolved ...
ResolvedBundle(c) ==
    cpc[c] = "answer" /\ bundle[c] # None =>
        /\ call[c].version = None => bundle[c].bundle_id \in seen[c]
        /\ call[c].version # None =>
              call[c].version \in DOMAIN by_id /\ bundle[c] = by_id[call[c].version]
\* ... and of a guidance answer that was pinned.
PinnedAnswer(c) ==
    ( /\ answer[c] # None /\ answer[c].bundle_id # None
      /\ call[c].version # None /\ call[c].op # "validate" )
    => /\ call[c].version \in DOMAIN by_id
       /\ answer[c] = Guidance(call[c], by_id[call[c].version])
CallsInv == \A c \in Clients : RunningCall(c) /\ ResolvedBundle(c) /\ PinnedAnswer(c)

LEMMA InitCalls == Init => CallsInv
  BY DEF Init, CallsInv, RunningCall, ResolvedBundle, PinnedAnswer

\* Reloads and edits go on beside a call; what they publish, put in service or
\* leave on disk is noted for every running call.
NotedSince(c) ==
    /\ seen[c] \subseteq seen'[c] /\ served[c] \subseteq served'[c] /\ held[c] \subseteq held'[c]
    /\ current' \in seen'[c] /\ config' \in served'[c] /\ disk' \in held'[c]
LEMMA OthersNote ==
    ASSUME CallsInv, [Next]_vars, \A c \in Clients : ~Serve(c)
    PROVE  /\ UNCHANGED <<cpc, call, snap, bundle, answer, judging>>
           /\ \A c \in Clients : cpc[c] # "idle" => NotedSince(c)
<1> USE DEF service, reloads, calls, since, history
<1>1. UNCHANGED <<cpc, call, snap, bundle, answer, judging>>
  BY DEF Next, vars, Edit, Reload, LoadConfig, LoadConfigRaises, ImportSource, ImportRaises,
         Acquire, SwapConfig, SwapRegistry, AddBundle, Published, Kept, Return
<1>2. \A c \in Clients : cpc[c] # "idle" => current \in seen[c] /\ config \in served[c] /\ disk \in held[c]
  BY DEF CallsInv, RunningCall
<1>3. ASSUME NEW c \in Clients, cpc[c] # "idle" PROVE NotedSince(c)
  <2>1. CASE \E t \in Reloaders : AddBundle(t)
    BY <1>2, <1>3, <2>1 DEF AddBundle, Noted, NotedSince
  <2>2. CASE \E t \in Reloaders : SwapConfig(t)
    BY <1>2, <1>3, <2>2 DEF SwapConfig, Noted, NotedSince
  <2>3. CASE Edit
    BY <1>2, <1>3, <2>3 DEF Edit, Noted, NotedSince
  <2>4. CASE ~Edit /\ ~ \E t \in Reloaders : AddBundle(t) \/ SwapConfig(t)
    <3>1. UNCHANGED <<seen, served, held, current, config, disk>>
      BY <2>4 DEF Next, vars, Reload, LoadConfig, LoadConfigRaises, ImportSource,
                  ImportRaises, Acquire, SwapRegistry, Published, Kept, Return
    <3>2. QED
      BY <1>2, <1>3, <3>1 DEF NotedSince
  <2>5. QED
    BY <2>1, <2>2, <2>3, <2>4
<1>4. QED
  BY <1>1, <1>3

LEMMA OthersKeepCalls ==
    ASSUME IInv, CallsInv, [Next]_vars, \A c \in Clients : ~Serve(c)
    PROVE  CallsInv'
<1>1. /\ UNCHANGED <<cpc, call, snap, bundle, answer, judging>>
      /\ \A c \in Clients : cpc[c] # "idle" => NotedSince(c)
  BY OthersNote
<1>2. /\ DOMAIN by_id \subseteq DOMAIN by_id'
      /\ \A id \in DOMAIN by_id : by_id'[id] = by_id[id]
  BY NextRefines DEF History!Publish
<1>4. ASSUME NEW c \in Clients
      PROVE  RunningCall(c)' /\ ResolvedBundle(c)' /\ PinnedAnswer(c)'
  <2>1. RunningCall(c) /\ ResolvedBundle(c) /\ PinnedAnswer(c)
    BY DEF CallsInv
  <2>2. RunningCall(c)'
    BY <1>1, <2>1 DEF RunningCall, NotedSince
  <2>3. ResolvedBundle(c)'
    BY <1>1, <1>2, <2>1 DEF ResolvedBundle, NotedSince
  <2>4. PinnedAnswer(c)'
    BY <1>1, <1>2, <2>1 DEF PinnedAnswer
  <2>5. QED
    BY <2>2, <2>3, <2>4
<1>5. QED
  BY <1>4 DEF CallsInv

\* A step of a client leaves the calls of the others alone.
OtherCall(o) ==
    /\ cpc'[o] = cpc[o] /\ call'[o] = call[o] /\ snap'[o] = snap[o]
    /\ bundle'[o] = bundle[o] /\ answer'[o] = answer[o]
    /\ pending'[o] = pending[o] /\ checked'[o] = checked[o] /\ given'[o] = given[o]
    /\ seen'[o] = seen[o] /\ served'[o] = served[o] /\ held'[o] = held[o]
LEMMA ServeIsOfOneCall ==
    ASSUME CallsTyped, NEW c \in Clients, Serve(c), NEW o \in Clients \ {c}
    PROVE  OtherCall(o)
<1> USE DEF CallsTyped, OtherCall, judging, since
<1>1. CASE Call(c) \/ Snapshot(c) \/ Resolve(c)
  BY <1>1 DEF Call, Snapshot, Resolve
<1>2. CASE LookUp(c) \/ LookUpFails(c) \/ Evaluate(c)
  BY <1>2 DEF LookUp, LookUpFails, Evaluate, Gives
<1>3. CASE EvaluateRaises(c) \/ Answer(c)
  BY <1>3 DEF EvaluateRaises, Answer, Ends
<1>4. QED
  BY <1>1, <1>2, <1>3 DEF Serve, Judge

\* Going through the bindings is between the resolve and the answer.
LEMMA JudgingStep ==
    ASSUME NEW c \in Clients, LookUp(c) \/ LookUpFails(c) \/ Evaluate(c)
    PROVE  cpc[c] = "answer" /\ UNCHANGED <<cpc, call, snap, bundle, answer, since>>
  BY DEF LookUp, LookUpFails, Evaluate

\* How a call ends.
LEMMA EndOfCall ==
    ASSUME CallsTyped, NEW c \in Clients, EvaluateRaises(c) \/ Answer(c)
    PROVE  /\ cpc[c] = "answer" /\ cpc'[c] = "idle" /\ UNCHANGED call
           /\ \/ answer'[c] = Raised
              \/ /\ checked[c] = {} /\ pending[c] = {}
                 /\ answer'[c] = AnswerTo(call[c], bundle[c], given[c])
  BY DEF EvaluateRaises, Answer, Ends, CallsTyped

\* A step of a client is about its own call.
LEMMA ServeKeepsCalls ==
    ASSUME IInv, CallsInv, NEW c \in Clients, Serve(c)
    PROVE  CallsInv'
<1> USE DEF service, history
<1>1. UNCHANGED <<by_id, current, config, disk>>
  BY ServeIsLocal
<1>2. CallsTyped
  BY DEF IInv, TypeOK
<1>3. ASSUME NEW o \in Clients \ {c}
      PROVE  RunningCall(o)' /\ ResolvedBundle(o)' /\ PinnedAnswer(o)'
  <2>1. OtherCall(o)
    BY <1>2, ServeIsOfOneCall
  <2>2. RunningCall(o) /\ ResolvedBundle(o) /\ PinnedAnswer(o)
    BY DEF CallsInv
  <2>3. QED
    BY <1>1, <2>1, <2>2 DEF RunningCall, ResolvedBundle, PinnedAnswer, OtherCall
<1>4. RunningCall(c) /\ ResolvedBundle(c) /\ PinnedAnswer(c)
  BY DEF CallsInv
<1>5. RunningCall(c)' /\ ResolvedBundle(c)' /\ PinnedAnswer(c)'
  <2>1. CASE Call(c)
    <3>1. PICK req \in Requests, v \in {None, UnknownVersion} \cup DOMAIN by_id :
              call' = [call EXCEPT ![c] = [op |-> req.op, scope |-> req.scope,
                                           artifact |-> req.artifact, version |-> v]]
      BY <2>1 DEF Call
    <3>2. req.op \in Operations /\ (req.op = "validate" => req.artifact \in Artifacts)
      BY DEF Requests, Operations
    <3>3. /\ cpc'[c] = "snapshot" /\ answer'[c] = None
          /\ seen'[c] = {current} /\ served'[c] = {config} /\ held'[c] = {disk}
          /\ call'[c].op = req.op /\ call'[c].artifact = req.artifact
      BY <1>2, <2>1, <3>1 DEF Call, CallsTyped
    <3>4. QED
      BY <1>1, <3>2, <3>3 DEF RunningCall, ResolvedBundle, PinnedAnswer
  <2>2. CASE Snapshot(c)
    BY <1>1, <1>2, <1>4, <2>2
    DEF Snapshot, since, CallsTyped, RunningCall, ResolvedBundle, PinnedAnswer
  <2>3. CASE Resolve(c)
    <3>1. /\ cpc[c] = "resolve" /\ cpc'[c] = "answer"
          /\ bundle'[c] = Get(call[c].version)
          /\ UNCHANGED <<call, answer, seen, served, held>>
      BY <1>2, <2>3 DEF Resolve, since, CallsTyped
    <3>2. bundle'[c] # None =>
              LET id == IF call[c].version = None THEN current ELSE call[c].version
              IN  id \in DOMAIN by_id /\ bundle'[c] = by_id[id] /\ by_id[id].bundle_id = id
      BY <3>1 DEF Get, IInv, TypeOK, ServiceTyped
    <3>3. QED
      BY <1>1, <1>4, <3>1, <3>2 DEF RunningCall, ResolvedBundle, PinnedAnswer
  <2>4. CASE LookUp(c) \/ LookUpFails(c) \/ Evaluate(c)
    <3>1. cpc[c] = "answer" /\ UNCHANGED <<cpc, call, snap, bundle, answer, seen, served, held>>
      BY <2>4, JudgingStep DEF since
    <3>2. QED
      BY <1>1, <1>4, <3>1 DEF RunningCall, ResolvedBundle, PinnedAnswer
  <2>5. CASE EvaluateRaises(c) \/ Answer(c)
    <3>1. /\ cpc[c] = "answer" /\ cpc'[c] = "idle" /\ UNCHANGED call
          /\ \/ answer'[c] = Raised
             \/ answer'[c] = AnswerTo(call[c], bundle[c], given[c])
      BY <1>2, <2>5, EndOfCall
    <3>2. RunningCall(c)' /\ ResolvedBundle(c)'
      BY <3>1 DEF RunningCall, ResolvedBundle
    <3>3. call[c].op \in Operations
      BY <1>4, <3>1 DEF RunningCall
    <3>4. CASE answer'[c] = Raised
      BY <3>2, <3>4 DEF Raised, PinnedAnswer
    <3>5. CASE answer'[c] = AnswerTo(call[c], bundle[c], given[c])
      <4>1. answer'[c].bundle_id # None => bundle[c] # None
        BY <3>3, <3>5, AnswerNamesBundle
      <4>2. call[c].op # "validate" => answer'[c] = Guidance(call[c], bundle[c])
        BY <3>5 DEF AnswerTo
      <4>3. PinnedAnswer(c)'
        BY <1>1, <1>4, <3>1, <4>1, <4>2 DEF ResolvedBundle, PinnedAnswer
      <4>4. QED
        BY <3>2, <4>3
    <3>6. QED
      BY <3>1, <3>4, <3>5
  <2>6. QED
    BY <2>1, <2>2, <2>3, <2>4, <2>5 DEF Serve, Judge
<1>6. QED
  BY <1>3, <1>5 DEF CallsInv

LEMMA CallsInvariance == Spec => [](IInv /\ CallsInv)
<1>1. IInv /\ CallsInv /\ [Next]_vars => CallsInv'
  BY OthersKeepCalls, ServeKeepsCalls
<1>2. QED
  BY <1>1, InitCalls, Invariance, PTL DEF Spec

\* Asking again for a pinned version gives the answer it gave, for ever
\* (FR-VERSION-3).
THEOREM PinnedGuidanceIsForEver == Spec => []PinnedGuidanceRepeats
<1>1. CallsInv => PinnedGuidanceRepeats
  <2> SUFFICES ASSUME CallsInv, NEW c \in Clients,
                      answer[c] # None, answer[c].bundle_id # None,
                      call[c].version # None, call[c].op # "validate"
               PROVE  Guidance(call[c], Get(call[c].version)) = answer[c]
    BY DEF PinnedGuidanceRepeats
  <2>1. /\ call[c].version \in DOMAIN by_id
        /\ answer[c] = Guidance(call[c], by_id[call[c].version])
    BY DEF CallsInv, PinnedAnswer
  <2>2. Get(call[c].version) = by_id[call[c].version]
    BY <2>1 DEF Get
  <2>3. QED
    BY <2>1, <2>2
<1>2. QED
  BY <1>1, CallsInvariance, PTL

\* Only the last statement of a call gives an answer that names a bundle.
LEMMA OnlyAnswerAnswers ==
    ASSUME IInv, CallsInv, [Next]_vars, NEW c \in Clients,
           answer'[c] # answer[c], answer'[c] # None, answer'[c].bundle_id # None
    PROVE  /\ cpc[c] = "answer" /\ checked[c] = {} /\ pending[c] = {}
           /\ answer'[c] = AnswerTo(call[c], bundle[c], given[c])
<1>0. CallsTyped
  BY DEF IInv, TypeOK
<1>1. PICK d \in Clients : Serve(d)
  BY OthersNote
<1>2. d = c
  BY <1>0, <1>1, ServeIsOfOneCall DEF OtherCall
<1>3. EvaluateRaises(c) \/ Answer(c)
  <2>1. CASE Call(c)
    BY <1>0, <2>1 DEF Call, CallsTyped
  <2>2. CASE Snapshot(c) \/ Resolve(c)
    BY <2>2 DEF Snapshot, Resolve
  <2>3. CASE LookUp(c) \/ LookUpFails(c) \/ Evaluate(c)
    BY <2>3, JudgingStep
  <2>4. QED
    BY <1>1, <1>2, <2>1, <2>2, <2>3 DEF Serve, Judge
<1>4. QED
  BY <1>0, <1>3, EndOfCall DEF Raised

\* An unpinned answer is never older than its call, for any number of reloads
\* that publish while it runs (service.py get_constraints, _resolve_bundle).
THEOREM AnswersAreNotOlder == Spec => AnswerNotOlderThanCall
<1> DEFINE Current(c) ==
        ( /\ answer'[c] # answer[c] /\ answer'[c] # None
          /\ call[c].version = None /\ answer'[c].bundle_id # None )
        => answer'[c].bundle_id \in seen[c]
<1>1. ASSUME IInv, CallsInv, [Next]_vars, NEW c \in Clients PROVE Current(c)
  <2> SUFFICES ASSUME answer'[c] # answer[c], answer'[c] # None,
                      call[c].version = None, answer'[c].bundle_id # None
               PROVE  answer'[c].bundle_id \in seen[c]
    OBVIOUS
  <2>1. cpc[c] = "answer" /\ answer'[c] = AnswerTo(call[c], bundle[c], given[c])
    BY <1>1, OnlyAnswerAnswers
  <2>2. RunningCall(c) /\ ResolvedBundle(c)
    BY <1>1 DEF CallsInv
  <2>3. call[c].op \in Operations
    BY <2>1, <2>2 DEF RunningCall
  <2>4. bundle[c] # None /\ answer'[c].bundle_id = bundle[c].bundle_id
    BY <2>1, <2>3, AnswerNamesBundle
  <2>5. QED
    BY <2>1, <2>2, <2>4 DEF ResolvedBundle
<1>2. (IInv /\ CallsInv) /\ [Next]_vars => [\A c \in Clients : Current(c)]_vars
  BY <1>1
<1>3. QED
  BY <1>2, CallsInvariance, PTL DEF Spec, AnswerNotOlderThanCall

\* A bundle is published together with the configuration in service then, and
\* stays with it until the next swap ...
PublishedTogether ==
    (Nobody({"swap_registry", "add"}) /\ current # None)
    => [bundle_id |-> current, config |-> config] \in generations
\* ... so that a call no reload disturbs has both of one generation ...
SnapshotOfGeneration(c) ==
    cpc[c] \in {"resolve", "answer"} =>
        /\ snap[c].registry = FromConfig(snap[c].config.engines)
        /\ snap[c].config \in served[c]
        /\ \A id \in seen[c] : Undisturbed(c, snap[c].config) /\ id # None
              => [bundle_id |-> id, config |-> snap[c].config] \in generations
\* ... and validate has or will have a verdict of every binding, each pass from
\* a policy it found at the path of its snapshot.
BindingsCovered(c) ==
    cpc[c] = "answer" =>
        /\ \A p \in ToJudge(call[c], bundle[c]) :
              p \in pending[c] \/ p \in checked[c] \/ \E g \in given[c] : g.of = p
        /\ \A g \in given[c] : /\ g.verdict \in {"pass", "fail", "error"}
                               /\ g.verdict = "pass" => AcceptedUnder(snap[c].config, c, g.of)
\* Only a validate that resolved its bundle has bindings to go through.
BindingLocals(c) ==
    /\ cpc[c] # "answer" => pending[c] = {} /\ checked[c] = {} /\ given[c] = {}
    /\ pending[c] # {} \/ checked[c] # {} => call[c].op = "validate"
    /\ \A p, q \in checked[c] : p = q
JudgingOf(c) == SnapshotOfGeneration(c) /\ BindingsCovered(c) /\ BindingLocals(c)
JudgingInv == PublishedTogether /\ \A c \in Clients : JudgingOf(c)

LEMMA InitJudging == Init => JudgingInv
<1> SUFFICES ASSUME Init PROVE JudgingInv
  OBVIOUS
<1>1. PublishedTogether
  <2>1. CASE StartFromDisk
    BY <2>1 DEF Init, StartFromDisk, PublishedTogether
  <2>2. CASE StartEmpty
    BY <2>2 DEF StartEmpty, PublishedTogether
  <2>3. QED
    BY <2>1, <2>2 DEF Init
<1>2. QED
  BY <1>1 DEF Init, JudgingInv, JudgingOf, SnapshotOfGeneration, BindingsCovered, BindingLocals

\* A swap is repaired by the add of the same reload.
LEMMA PublishingTogether ==
    ASSUME IInv, PublishedTogether, [Next]_vars
    PROVE  PublishedTogether' /\ generations \subseteq generations'
<1> USE DEF service, reloads, calls, history
<1>0. pc \in [Reloaders -> {"idle", "import", "return"} \cup Critical]
  BY DEF IInv, TypeOK, ReloadsTyped
<1>1. ASSUME NEW t \in Reloaders, AddBundle(t)
      PROVE  PublishedTogether' /\ generations \subseteq generations'
  <2>1. cfg[t] = config
    BY <1>1 DEF AddBundle, IInv, CriticalLocals
  <2>2. /\ [bundle_id |-> current', config |-> cfg[t]] \in generations'
        /\ config' = config /\ generations \subseteq generations'
    BY <1>1 DEF AddBundle
  <2>3. QED
    BY <2>1, <2>2 DEF PublishedTogether
<1>2. ASSUME NEW t \in Reloaders, SwapConfig(t) \/ SwapRegistry(t)
      PROVE  PublishedTogether' /\ generations' = generations
  <2>1. pc'[t] \in {"swap_registry", "add"} /\ generations' = generations
    BY <1>0, <1>2 DEF SwapConfig, SwapRegistry
  <2>2. QED
    BY <2>1 DEF PublishedTogether, Nobody
<1>3. CASE ~ \E t \in Reloaders : AddBundle(t) \/ SwapConfig(t) \/ SwapRegistry(t)
  <2>1. UNCHANGED <<current, config, generations>>
    BY <1>3, ServeIsLocal
    DEF Next, vars, Edit, Reload, LoadConfig, LoadConfigRaises, ImportSource, ImportRaises,
        Acquire, Published, Kept, Return
  <2>2. \A u \in Reloaders : pc[u] \in {"swap_registry", "add"} => pc'[u] = pc[u]
    <3>1. CASE \E t \in Reloaders : Reload(t)
      BY <1>0, <1>3, <3>1
      DEF Reload, LoadConfig, LoadConfigRaises, ImportSource, ImportRaises,
          Acquire, Published, Kept, Return
    <3>2. CASE ~ \E t \in Reloaders : Reload(t)
      BY <3>2, ServeIsLocal DEF Next, vars, Edit
    <3>3. QED
      BY <3>1, <3>2
  <2>3. QED
    BY <2>1, <2>2 DEF PublishedTogether, Nobody
<1>4. QED
  BY <1>1, <1>2, <1>3

\* More having been there since the call began disturbs a call, and takes no
\* verdict back.
LEMMA MoreSince ==
    ASSUME IInv, CallsInv, NEW c \in Clients, NotedSince(c), generations \subseteq generations',
           cpc[c] # "idle",
           cpc'[c] = cpc[c], call'[c] = call[c], snap'[c] = snap[c], bundle'[c] = bundle[c],
           pending'[c] = pending[c], checked'[c] = checked[c], given'[c] = given[c],
           JudgingOf(c)
    PROVE  JudgingOf(c)'
<1> USE DEF JudgingOf
<1>1. SnapshotOfGeneration(c)'
  <2> SUFFICES ASSUME cpc[c] \in {"resolve", "answer"}
               PROVE  /\ snap[c].registry = FromConfig(snap[c].config.engines)
                      /\ snap[c].config \in served'[c]
                      /\ \A id \in seen'[c] : Undisturbed(c, snap[c].config)' /\ id # None
                            => [bundle_id |-> id, config |-> snap[c].config] \in generations'
    BY DEF SnapshotOfGeneration, Undisturbed
  <2>1. snap[c].registry = FromConfig(snap[c].config.engines) /\ snap[c].config \in served[c]
    BY DEF SnapshotOfGeneration
  <2>2. ASSUME NEW id \in seen'[c], served'[c] = {snap[c].config}, id # None,
               \A i, j \in seen'[c] : i = j
        PROVE  [bundle_id |-> id, config |-> snap[c].config] \in generations'
    <3>1. served[c] = {snap[c].config}
      BY <2>1, <2>2 DEF NotedSince
    <3>2. current \in seen[c]
      BY DEF CallsInv, RunningCall
    <3>3. id \in seen[c] /\ \A i, j \in seen[c] : i = j
      BY <2>2, <3>2 DEF NotedSince
    <3>4. QED
      BY <2>2, <3>1, <3>3 DEF SnapshotOfGeneration, Undisturbed
  <2>3. QED
    BY <2>1, <2>2 DEF NotedSince, Undisturbed
<1>2. BindingsCovered(c)'
  <2>1. \A p : AcceptedUnder(snap[c].config, c, p) => AcceptedUnder(snap[c].config, c, p)'
    BY DEF AcceptedUnder, NotedSince
  <2>2. ToJudge(call[c], bundle[c])' = ToJudge(call[c], bundle[c])
    BY DEF ToJudge
  <2>3. QED
    BY <2>1, <2>2 DEF BindingsCovered
<1>3. BindingLocals(c)'
  BY DEF BindingLocals
<1>4. QED
  BY <1>1, <1>2, <1>3

\* A snapshot is taken while no reload is inside its critical section.
LEMMA SnapshotJudging ==
    ASSUME IInv, CallsInv, PublishedTogether, NEW c \in Clients, Snapshot(c), JudgingOf(c)
    PROVE  JudgingOf(c)'
<1>1. /\ snap'[c] = [registry |-> registry, config |-> config] /\ cpc'[c] = "resolve"
      /\ UNCHANGED <<seen, served, generations>>
  BY DEF Snapshot, IInv, TypeOK, CallsTyped, since, history
<1>2. Nobody({"swap_registry", "add"})
  BY ThreadsAssumption DEF Snapshot, IInv, LockOwner, Nobody, Critical
<1>3. registry = FromConfig(config.engines)
  BY <1>2 DEF IInv, RegistryFollowsConfig, Nobody
<1>4. current # None => [bundle_id |-> current, config |-> config] \in generations
  BY <1>2 DEF PublishedTogether
<1>5. current \in seen[c] /\ config \in served[c]
  BY DEF Snapshot, CallsInv, RunningCall
<1>6. SnapshotOfGeneration(c)'
  BY <1>1, <1>3, <1>4, <1>5 DEF SnapshotOfGeneration, Undisturbed
<1>7. BindingsCovered(c)'
  BY <1>1 DEF BindingsCovered
<1>8. BindingLocals(c)'
  BY <1>1 DEF Snapshot, judging, JudgingOf, BindingLocals
<1>9. QED
  BY <1>6, <1>7, <1>8 DEF JudgingOf

\* The verdict of one binding, when its policy is read.
LEMMA VerdictIsJustified ==
    ASSUME IInv, CallsInv, NEW c \in Clients, SnapshotOfGeneration(c), cpc[c] = "answer",
           call[c].op = "validate", NEW p, Verdict(c, p) # "raised"
    PROVE  /\ Verdict(c, p) \in {"pass", "fail", "error"}
           /\ Verdict(c, p) = "pass" => AcceptedUnder(snap[c].config, c, p)
<1> DEFINE policy == PolicyPath(snap[c].config, p.ic.source, p.binding.policy)
<1>1. disk \in Disks /\ disk \in held[c] /\ call[c].artifact \in Artifacts
  BY DEF IInv, TypeOK, ServiceTyped, CallsInv, RunningCall
<1>2. snap[c].registry = FromConfig(snap[c].config.engines)
  BY DEF SnapshotOfGeneration
<1>3. CASE ForBinding(snap[c].registry, p.binding.engine) = None \/ policy \notin DOMAIN disk.files
  BY <1>3 DEF Verdict, BindingVerdict
<1>4. CASE ForBinding(snap[c].registry, p.binding.engine) # None /\ policy \in DOMAIN disk.files
  <2>1. Verdict(c, p) = disk.files[policy][call[c].artifact]
    BY <1>4 DEF Verdict, BindingVerdict
  <2>2. Verdict(c, p) \in {"pass", "fail", "error"}
    BY <1>1, <1>4, <2>1, PoliciesAssumption
  <2>3. QED
    BY <1>1, <1>2, <1>4, <2>1, <2>2 DEF AcceptedUnder
<1>5. QED
  BY <1>3, <1>4

\* Looking up a binding, and evaluating it.
LEMMA JudgeJudging ==
    ASSUME IInv, CallsInv, NEW c \in Clients, LookUp(c) \/ LookUpFails(c) \/ Evaluate(c),
           JudgingOf(c)
    PROVE  JudgingOf(c)'
<1> USE DEF JudgingOf
<1>1. /\ cpc[c] = "answer" /\ UNCHANGED <<cpc, call, snap, bundle, answer, seen, served, held>>
      /\ UNCHANGED generations
  BY JudgingStep, ServeIsLocal DEF Serve, Judge, since, history
<1>2. SnapshotOfGeneration(c)'
  BY <1>1 DEF SnapshotOfGeneration, Undisturbed
<1>3. /\ \A p : AcceptedUnder(snap[c].config, c, p) => AcceptedUnder(snap[c].config, c, p)'
      /\ ToJudge(call[c], bundle[c])' = ToJudge(call[c], bundle[c])
  BY <1>1 DEF AcceptedUnder, ToJudge
<1>4. CallsTyped
  BY DEF IInv, TypeOK
<1>5. CASE LookUp(c)
  <2>1. PICK p \in pending[c] : /\ checked' = [checked EXCEPT ![c] = {p}]
                                /\ pending' = [pending EXCEPT ![c] = @ \ {p}]
                                /\ given' = given
    BY <1>5 DEF LookUp
  <2>2. checked[c] = {}
    BY <1>5 DEF LookUp
  <2>3. checked'[c] = {p} /\ pending'[c] = pending[c] \ {p} /\ given'[c] = given[c]
    BY <1>4, <2>1 DEF CallsTyped
  <2>4. BindingsCovered(c)'
    BY <1>1, <1>3, <2>2, <2>3 DEF BindingsCovered
  <2>5. QED
    BY <1>1, <1>2, <2>3, <2>4 DEF BindingLocals
<1>6. CASE LookUpFails(c) \/ Evaluate(c)
  <2>1. PICK p \in pending[c] \cup checked[c] :
            /\ Verdict(c, p) # "raised" /\ Gives(c, p)
            /\ \A q \in pending[c] \cup checked[c] : q = p \/ q \in pending'[c] \cup checked'[c]
            /\ pending'[c] \subseteq pending[c] /\ checked'[c] = {}
    <3>1. CASE LookUpFails(c)
      <4>1. PICK p \in pending[c] :
                /\ ~Evaluable(p.ic, p.binding, snap[c].registry, snap[c].config, disk.files)
                /\ Gives(c, p) /\ pending' = [pending EXCEPT ![c] = @ \ {p}]
        BY <3>1 DEF LookUpFails
      <4>2. Verdict(c, p) # "raised"
        BY <4>1 DEF Verdict, BindingVerdict, Evaluable
      <4>3. checked[c] = {} /\ checked' = checked
        BY <3>1 DEF LookUpFails
      <4>4. pending'[c] = pending[c] \ {p}
        BY <1>4, <4>1 DEF CallsTyped
      <4>5. QED
        BY <4>1, <4>2, <4>3, <4>4
    <3>2. CASE Evaluate(c)
      <4>1. PICK p \in checked[c] : Verdict(c, p) # "raised" /\ Gives(c, p)
        BY <3>2 DEF Evaluate
      <4>2. checked'[c] = {} /\ pending' = pending
        BY <1>4, <3>2 DEF Evaluate, CallsTyped
      <4>3. \A q \in checked[c] : q = p
        BY <4>1 DEF BindingLocals
      <4>4. QED
        BY <4>1, <4>2, <4>3
    <3>3. QED
      BY <1>6, <3>1, <3>2
  <2>2. call[c].op = "validate"
    BY <2>1 DEF BindingLocals
  <2>3. /\ Verdict(c, p) \in {"pass", "fail", "error"}
        /\ Verdict(c, p) = "pass" => AcceptedUnder(snap[c].config, c, p)
    BY <1>1, <2>1, <2>2, VerdictIsJustified
  <2> DEFINE new == [of |-> p, verdict |-> Verdict(c, p)]
  <2>4. given'[c] = given[c] \cup {new}
    BY <1>4, <2>1 DEF Gives, CallsTyped
  <2>5. new.of = p /\ new.verdict = Verdict(c, p)
    OBVIOUS
  <2> HIDE DEF new
  <2>6. ASSUME NEW q \in ToJudge(call[c], bundle[c])
        PROVE  q \in pending'[c] \/ q \in checked'[c] \/ \E g \in given'[c] : g.of = q
    BY <1>1, <2>1, <2>4, <2>5 DEF BindingsCovered
  <2>7. ASSUME NEW g \in given'[c]
        PROVE  /\ g.verdict \in {"pass", "fail", "error"}
               /\ g.verdict = "pass" => AcceptedUnder(snap[c].config, c, g.of)
    BY <1>1, <2>3, <2>4, <2>5 DEF BindingsCovered
  <2>8. BindingsCovered(c)'
    BY <1>1, <1>3, <2>6, <2>7 DEF BindingsCovered
  <2>9. BindingLocals(c)'
    BY <1>1, <2>1, <2>2 DEF BindingLocals
  <2>10. QED
    BY <1>2, <2>8, <2>9
<1>7. QED
  BY <1>5, <1>6

\* The other steps of a call.
LEMMA CallJudging ==
    ASSUME IInv, NEW c \in Clients, Call(c) \/ Resolve(c) \/ EvaluateRaises(c) \/ Answer(c),
           JudgingOf(c)
    PROVE  JudgingOf(c)'
<1> USE DEF JudgingOf
<1>0. CallsTyped
  BY DEF IInv, TypeOK
<1>1. CASE Call(c)
  <2>1. /\ cpc[c] = "idle" /\ cpc'[c] = "snapshot"
        /\ UNCHANGED <<pending, checked, given>>
    BY <1>0, <1>1 DEF Call, judging, CallsTyped
  <2>2. QED
    BY <2>1 DEF SnapshotOfGeneration, BindingsCovered, BindingLocals
<1>2. CASE Resolve(c)
  <2>1. /\ cpc[c] = "resolve" /\ cpc'[c] = "answer"
        /\ UNCHANGED <<call, snap, checked, given, seen, served, held, generations>>
        /\ bundle'[c] = Get(call[c].version)
        /\ pending'[c] = ToJudge(call[c], Get(call[c].version))
    BY <1>0, <1>2 DEF Resolve, since, history, CallsTyped
  <2>2. ToJudge(call[c], bundle[c])' = pending'[c]
    BY <2>1 DEF ToJudge
  <2>3. SnapshotOfGeneration(c)'
    BY <2>1 DEF SnapshotOfGeneration, Undisturbed
  <2>4. BindingsCovered(c)'
    BY <2>1, <2>2 DEF BindingsCovered, BindingLocals
  <2>5. pending'[c] # {} => call'[c].op = "validate"
    BY <2>1 DEF ToJudge
  <2>6. BindingLocals(c)'
    BY <2>1, <2>5 DEF BindingLocals
  <2>7. QED
    BY <2>3, <2>4, <2>6
<1>3. CASE EvaluateRaises(c) \/ Answer(c)
  <2>1. /\ cpc'[c] = "idle" /\ pending'[c] = {} /\ checked'[c] = {} /\ given'[c] = {}
    BY <1>0, <1>3 DEF EvaluateRaises, Answer, Ends, CallsTyped
  <2>2. QED
    BY <2>1 DEF SnapshotOfGeneration, BindingsCovered, BindingLocals
<1>4. QED
  BY <1>1, <1>2, <1>3

LEMMA NextKeepsJudging ==
    ASSUME IInv, CallsInv, JudgingInv, [Next]_vars
    PROVE  JudgingInv'
<1>1. PublishedTogether' /\ generations \subseteq generations'
  BY PublishingTogether DEF JudgingInv
<1>2. CASE \A c \in Clients : ~Serve(c)
  <2>1. /\ UNCHANGED <<cpc, call, snap, bundle, answer, pending, checked, given>>
        /\ \A c \in Clients : cpc[c] # "idle" => NotedSince(c)
    BY <1>2, OthersNote DEF judging
  <2>2. ASSUME NEW c \in Clients PROVE JudgingOf(c)'
    <3>1. JudgingOf(c)
      BY DEF JudgingInv
    <3>2. CASE cpc[c] = "idle"
      BY <2>1, <3>1, <3>2 DEF JudgingOf, SnapshotOfGeneration, BindingsCovered, BindingLocals
    <3>3. CASE cpc[c] # "idle"
      BY <1>1, <2>1, <3>1, <3>3, MoreSince
    <3>4. QED
      BY <3>2, <3>3
  <2>3. QED
    BY <1>1, <2>2 DEF JudgingInv
<1>3. ASSUME NEW c \in Clients, Serve(c) PROVE JudgingInv'
  <2>1. ASSUME NEW o \in Clients \ {c} PROVE JudgingOf(o)'
    <3>1. OtherCall(o) /\ UNCHANGED generations
      BY <1>3, ServeIsOfOneCall, ServeIsLocal DEF IInv, TypeOK, history
    <3>2. JudgingOf(o)
      BY DEF JudgingInv
    <3>3. /\ ToJudge(call[o], bundle[o])' = ToJudge(call[o], bundle[o])
          /\ \A p : AcceptedUnder(snap[o].config, o, p)' = AcceptedUnder(snap[o].config, o, p)
      BY <3>1 DEF OtherCall, ToJudge, AcceptedUnder
    <3>4. QED
      BY <3>1, <3>2, <3>3
      DEF OtherCall, JudgingOf, SnapshotOfGeneration, Undisturbed, BindingsCovered, BindingLocals
  <2>2. JudgingOf(c) /\ PublishedTogether
    BY DEF JudgingInv
  <2>3. JudgingOf(c)'
    <3>1. CASE Snapshot(c)
      BY <2>2, <3>1, SnapshotJudging
    <3>2. CASE LookUp(c) \/ LookUpFails(c) \/ Evaluate(c)
      BY <2>2, <3>2, JudgeJudging
    <3>3. CASE Call(c) \/ Resolve(c) \/ EvaluateRaises(c) \/ Answer(c)
      BY <2>2, <3>3, CallJudging
    <3>4. QED
      BY <1>3, <3>1, <3>2, <3>3 DEF Serve, Judge
  <2>4. QED
    BY <1>1, <2>1, <2>3 DEF JudgingInv
<1>4. QED
  BY <1>2, <1>3

\* In a report that passes no binding has a verdict other than a pass.
LEMMA PassedReport ==
    ASSUME NEW req, NEW b, NEW verdicts,
           Report(req, b, verdicts).bundle_id # None, Passed(Report(req, b, verdicts)),
           NEW p \in ToJudge(req, b), NEW g \in verdicts, g.of = p,
           g.verdict \in {"pass", "fail", "error"}
    PROVE  g.verdict = "pass"
<1>1. b # None /\ req.scope # BadScope /\ req.op = "validate"
  BY DEF ToJudge
<1>2. PICK ic \in Select(b.constraints, req.scope) :
          \E e \in ic.constraint.enforcement : p = [ic |-> ic, binding |-> e]
  BY <1>1 DEF ToJudge
<1> DEFINE mine == {k.verdict : k \in {h \in verdicts : h.of.ic = ic}}
           result == ResultWith(ic, Combined(mine))
<1>3. result \in Report(req, b, verdicts).results
  BY <1>1 DEF Report
<1>4. result.verdict \notin {"fail", "error"}
  BY <1>3 DEF Passed
<1>5. result.verdict = Combined(mine)
  BY <1>2 DEF ResultWith, IsAdvisory
<1>6. "error" \notin mine /\ "fail" \notin mine
  BY <1>4, <1>5 DEF Combined
<1>7. g.verdict \in mine
  <2>1. g.of.ic = ic
    BY <1>2
  <2>2. QED
    BY <2>1
<1>8. QED
  BY <1>6, <1>7

\* Whatever races with a validate, between any two of its bindings and within
\* one: a pass is earned under one configuration in service meanwhile and, if
\* no reload took effect, under the one its bundle was published with
\* (validate.py:88-113, service.py:195-203).
THEOREM PassesAreEarned == Spec => PassIsEarned
<1> DEFINE Earned(c) == PassReturned(c) =>
        \E cf \in served[c] :
           /\ EarnedUnder(cf, c)
           /\ Undisturbed(c, cf) /\ call[c].version = None
              => [bundle_id |-> answer'[c].bundle_id, config |-> cf] \in generations
<1>1. ASSUME IInv, CallsInv, JudgingInv, [Next]_vars, NEW c \in Clients PROVE Earned(c)
  <2> SUFFICES ASSUME PassReturned(c)
               PROVE  \E cf \in served[c] :
                         /\ EarnedUnder(cf, c)
                         /\ Undisturbed(c, cf) /\ call[c].version = None
                            => [bundle_id |-> answer'[c].bundle_id, config |-> cf] \in generations
    OBVIOUS
  <2>1. /\ cpc[c] = "answer" /\ checked[c] = {} /\ pending[c] = {}
        /\ answer'[c] = AnswerTo(call[c], bundle[c], given[c])
    BY <1>1, OnlyAnswerAnswers DEF PassReturned
  <2>2. /\ call[c].op = "validate" /\ answer'[c].bundle_id # None
        /\ answer'[c] = Report(call[c], bundle[c], given[c]) /\ Passed(answer'[c])
    BY <2>1 DEF PassReturned, AnswerTo
  <2>3. JudgingOf(c) /\ RunningCall(c) /\ ResolvedBundle(c)
    BY <1>1 DEF JudgingInv, CallsInv
  <2>4. snap[c].config \in served[c]
    BY <2>1, <2>3 DEF JudgingOf, SnapshotOfGeneration
  <2>5. EarnedUnder(snap[c].config, c)
    <3> SUFFICES ASSUME NEW p \in ToJudge(call[c], bundle[c])
                 PROVE  AcceptedUnder(snap[c].config, c, p)
      BY DEF EarnedUnder
    <3>1. PICK g \in given[c] : g.of = p
      BY <2>1, <2>3 DEF JudgingOf, BindingsCovered
    <3>2. /\ g.verdict \in {"pass", "fail", "error"}
          /\ g.verdict = "pass" => AcceptedUnder(snap[c].config, c, g.of)
      BY <2>1, <2>3 DEF JudgingOf, BindingsCovered
    <3>3. g.verdict = "pass"
      BY <2>2, <3>1, <3>2, PassedReport
    <3>4. QED
      BY <3>1, <3>2, <3>3
  <2>6. ASSUME Undisturbed(c, snap[c].config), call[c].version = None
        PROVE  [bundle_id |-> answer'[c].bundle_id, config |-> snap[c].config] \in generations
    <3>1. bundle[c] # None /\ answer'[c].bundle_id = bundle[c].bundle_id
      BY <2>2 DEF Report, Raised
    <3>2. answer'[c].bundle_id \in seen[c]
      BY <2>1, <2>3, <2>6, <3>1 DEF ResolvedBundle
    <3>3. QED
      BY <2>1, <2>2, <2>3, <2>6, <3>2 DEF JudgingOf, SnapshotOfGeneration
  <2>7. QED
    BY <2>4, <2>5, <2>6
<1>2. (IInv /\ CallsInv /\ JudgingInv) /\ [Next]_vars => [\A c \in Clients : Earned(c)]_vars
  BY <1>1
<1>3. IInv /\ CallsInv /\ JudgingInv /\ [Next]_vars => JudgingInv'
  BY NextKeepsJudging
<1>4. QED
  BY <1>2, <1>3, InitJudging, CallsInvariance, PTL DEF Spec, PassIsEarned

\* A reload that is about to return finds a status, of the bundle being served
\* or, while another is between its add and its status, of the one that found.
StatusInv ==
    \A t \in Reloaders : pc[t] = "return" =>
        /\ Nobody({"status"}) => last_reload \in StatusOf(current)
        /\ \A u \in Reloaders : pc[u] = "status" => last_reload \in StatusOf(prev[u])

LEMMA NextKeepsStatusInv == IInv /\ StatusInv /\ [Next]_vars => StatusInv'
<1> SUFFICES ASSUME IInv, StatusInv, [Next]_vars PROVE StatusInv'
  OBVIOUS
<1> USE DEF service, reloads, calls, history
<1>0. pc \in [Reloaders -> {"idle", "import", "return"} \cup Critical] /\ DOMAIN prev = Reloaders
  BY DEF IInv, TypeOK, ReloadsTyped
<1>1. CASE ~ \E t \in Reloaders : Reload(t)
  <2>1. UNCHANGED <<pc, prev, last_reload, current>>
    BY <1>1, ServeIsLocal DEF Next, vars, Edit
  <2>2. QED
    BY <2>1 DEF StatusInv, Nobody, StatusOf
<1>2. ASSUME NEW t \in Reloaders, Reload(t) PROVE StatusInv'
  <2>1. CASE AddBundle(t)
    <3>1. \A u \in Reloaders \ {t} : pc[u] # "status"
      BY <2>1 DEF AddBundle, IInv, LockOwner, Critical
    <3>2. prev[t] = current /\ Nobody({"status"})
      BY <2>1, <3>1 DEF AddBundle, IInv, CriticalLocals, Nobody, Critical
    <3>3. /\ prev' = prev /\ last_reload' = last_reload
          /\ pc' = [pc EXCEPT ![t] = "status"]
      BY <2>1 DEF AddBundle
    <3>4. \A u \in Reloaders : (pc'[u] = "status") = (u = t)
      BY <1>0, <3>1, <3>3
    <3>5. \A u \in Reloaders : pc'[u] = "return" => last_reload \in StatusOf(prev[t])
      BY <1>0, <3>2, <3>3 DEF StatusInv
    <3>6. ~Nobody({"status"})'
      BY <3>4 DEF Nobody
    <3>7. QED
      BY <3>3, <3>4, <3>5, <3>6 DEF StatusInv, StatusOf
  <2>2. CASE Published(t) \/ Kept(t)
    <3>1. \A u \in Reloaders \ {t} : pc[u] # "status"
      BY <2>2 DEF Published, Kept, IInv, LockOwner, Critical
    <3>2. last_reload' \in StatusOf(current)
      <4>1. (current # prev[t]) \in BOOLEAN
        OBVIOUS
      <4>2. pc[t] = "keep" => prev[t] = current
        BY DEF IInv, CriticalLocals, Critical
      <4>3. \E flag \in BOOLEAN, changed \in BOOLEAN :
               last_reload' = [ok |-> flag, changed |-> changed, bundle_id |-> current]
        <5>1. CASE Published(t)
          BY <4>1, <5>1, Zenon DEF Published
        <5>2. CASE Kept(t)
          <6>1. last_reload' = [ok |-> FALSE, changed |-> FALSE, bundle_id |-> current]
            BY <4>2, <5>2 DEF Kept
          <6>2. QED
            BY <6>1, Zenon
        <5>3. QED
          BY <2>2, <5>1, <5>2
      <4>4. QED
        BY <4>3 DEF StatusOf
    <3>3. current' = current /\ pc' = [pc EXCEPT ![t] = "return"]
      BY <2>2 DEF Published, Kept
    <3>4. \A u \in Reloaders : pc'[u] # "status"
      BY <1>0, <3>1, <3>3
    <3>5. QED
      BY <3>2, <3>3, <3>4 DEF StatusInv, StatusOf
  <2>3. CASE ~AddBundle(t) /\ ~Published(t) /\ ~Kept(t)
    <3>1. last_reload' = last_reload /\ current' = current
      BY <1>2, <2>3
      DEF Reload, LoadConfig, LoadConfigRaises, ImportSource, ImportRaises,
          Acquire, SwapConfig, SwapRegistry, Return
    <3>2. \A u \in Reloaders :
             /\ pc'[u] = "return" => pc[u] = "return"
             /\ (pc'[u] = "status") = (pc[u] = "status")
             /\ pc[u] = "status" => prev'[u] = prev[u]
      BY <1>0, <1>2, <2>3
      DEF Reload, LoadConfig, LoadConfigRaises, ImportSource, ImportRaises,
          Acquire, SwapConfig, SwapRegistry, Return
    <3>3. Nobody({"status"})' = Nobody({"status"})
      BY <3>2 DEF Nobody
    <3>4. QED
      BY <3>1, <3>2, <3>3 DEF StatusInv, StatusOf
  <2>4. QED
    BY <2>1, <2>2, <2>3
<1>3. QED
  BY <1>1, <1>2

\* A reload returns a status, of the bundle served then or, while a reload is
\* in its critical section, of the one that reload found, although the status
\* may be another reload's (service.py:106).
THEOREM ReturnedStatusesAreFresh == Spec => ReturnedStatusIsFresh
<1> DEFINE Fresh(t) == pc[t] = "return" /\ pc'[t] # "return" =>
                         \/ returned'[t] \in StatusOf(current)
                         \/ lock # None /\ returned'[t] \in StatusOf(prev[lock])
<1>1. Init => StatusInv
  BY DEF Init, StatusInv
<1>2. ASSUME IInv, StatusInv, [Next]_vars, NEW t \in Reloaders PROVE Fresh(t)
  <2> SUFFICES ASSUME pc[t] = "return", pc'[t] # "return"
               PROVE  \/ returned'[t] \in StatusOf(current)
                      \/ lock # None /\ returned'[t] \in StatusOf(prev[lock])
    OBVIOUS
  <2>0. pc \in [Reloaders -> {"idle", "import", "return"} \cup Critical] /\ DOMAIN returned = Reloaders
    BY <1>2 DEF IInv, TypeOK, ReloadsTyped
  <2>1. \E u \in Reloaders : Reload(u)
    BY <1>2, ServeIsLocal DEF Next, vars, service, reloads, history, Edit
  <2>2. Return(t)
    BY <2>0, <2>1
    DEF Reload, LoadConfig, LoadConfigRaises, ImportSource, ImportRaises, Acquire,
        SwapConfig, SwapRegistry, AddBundle, Published, Kept, Return
  <2>3. returned'[t] = last_reload
    BY <2>0, <2>2 DEF Return
  <2>4. CASE Nobody({"status"})
    BY <1>2, <2>3, <2>4 DEF StatusInv
  <2>5. ASSUME NEW u \in Reloaders, pc[u] = "status" PROVE lock # None /\ returned'[t] \in StatusOf(prev[lock])
    <3>1. lock = u
      BY <1>2, <2>5 DEF IInv, LockOwner, Critical
    <3>2. QED
      BY <1>2, <2>3, <2>5, <3>1, ThreadsAssumption DEF StatusInv
  <2>6. QED
    BY <2>4, <2>5 DEF Nobody
<1>3. (IInv /\ StatusInv) /\ [Next]_vars => [\A t \in Reloaders : Fresh(t)]_vars
  BY <1>2
<1>4. QED
  BY <1>1, <1>3, NextKeepsStatusInv, CallsInvariance, PTL DEF Spec, ReturnedStatusIsFresh
=============================================================================
