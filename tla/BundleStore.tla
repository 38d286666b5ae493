---------------------------- MODULE BundleStore ----------------------------
(***************************************************************************)
(* The bundle store (store.py) at the grain of its own statements.  Adds   *)
(* run one at a time, under the service's lock; latest() and get() take no *)
(* lock, so a reader may run between any two statements of an add.         *)
(***************************************************************************)
EXTENDS Optional, Sequences

CONSTANTS Bundles,     \* records with a bundle_id; equal ids, other fields may differ
          Readers,
          UnknownId,   \* a version no one ever published
          KeyError     \* the exception of a subscript with a missing key

ASSUME ValuesAssumption ==
    /\ None \notin Bundles /\ None \notin {b.bundle_id : b \in Bundles}
    /\ KeyError \notin Bundles /\ KeyError # None
    /\ UnknownId # None

VARIABLES by_id, order, current,   \* the store's three fields
          adding, wpc,             \* the add in progress and its next statement
          rpc, wanted, answer,     \* per reader: control, version asked for, result
          seen                     \* per reader: the ids that were current since it
                                   \* began (history variable)
store == <<by_id, order, current>>
vars == <<by_id, order, current, adding, wpc, rpc, wanted, answer, seen>>

Ids == {b.bundle_id : b \in Bundles}

Init == /\ by_id = <<>> /\ order = <<>> /\ current = None
        /\ adding = None /\ wpc = "idle"
        /\ rpc = [r \in Readers |-> "idle"]
        /\ wanted = [r \in Readers |-> None]
        /\ answer = [r \in Readers |-> None]
        /\ seen = [r \in Readers |-> {}]

----------------------------------------------------------------------------
\* add(bundle)

\* Mutants of AddStart: the pointer moves before the bundle is filed; a version
\* that is there already is filed again.
AddStartPointing(b) ==
    /\ wpc = "idle"
    /\ adding' = b
    /\ current' = b.bundle_id
    /\ wpc' = IF b.bundle_id \in DOMAIN by_id THEN "point" ELSE "file"
    /\ UNCHANGED <<by_id, order, rpc, wanted, answer, seen>>
AddStartAlways(b) ==
    /\ wpc = "idle"
    /\ adding' = b
    /\ wpc' = "file"
    /\ UNCHANGED <<store, rpc, wanted, answer, seen>>

AddStart(b) ==
    /\ wpc = "idle"
    /\ adding' = b
    /\ wpc' = IF b.bundle_id \in DOMAIN by_id THEN "point" ELSE "file"
    /\ UNCHANGED <<store, rpc, wanted, answer, seen>>

\* self._by_id[bundle.bundle_id] = bundle
AddFile ==
    /\ wpc = "file"
    /\ by_id' = [id \in DOMAIN by_id \cup {adding.bundle_id} |->
                    IF id = adding.bundle_id THEN adding ELSE by_id[id]]
    /\ wpc' = "order"
    /\ UNCHANGED <<order, current, adding, rpc, wanted, answer, seen>>

\* Mutant of AddOrder: the pointer, which has not moved yet, instead of the id.
AddOrderCurrent ==
    /\ wpc = "order"
    /\ order' = Append(order, current)
    /\ wpc' = "point"
    /\ UNCHANGED <<by_id, current, adding, rpc, wanted, answer, seen>>

\* self._order.append(bundle.bundle_id)
AddOrder ==
    /\ wpc = "order"
    /\ order' = Append(order, adding.bundle_id)
    /\ wpc' = "point"
    /\ UNCHANGED <<by_id, current, adding, rpc, wanted, answer, seen>>

\* self._current_id = bundle.bundle_id
AddPoint ==
    /\ wpc = "point"
    /\ current' = adding.bundle_id
    /\ wpc' = "idle"
    /\ adding' = None
    /\ seen' = [r \in Readers |->
                  IF rpc[r] = "idle" THEN seen[r] ELSE seen[r] \cup {adding.bundle_id}]
    /\ UNCHANGED <<by_id, order, rpc, wanted, answer>>

----------------------------------------------------------------------------
\* get(bundle_id), with latest() inlined for None

GetStart(r, id) ==
    /\ rpc[r] = "idle"
    /\ wanted' = [wanted EXCEPT ![r] = id]
    /\ answer' = [answer EXCEPT ![r] = None]
    /\ seen' = [seen EXCEPT ![r] = {current}]
    /\ rpc' = [rpc EXCEPT ![r] = IF id = None THEN "test" ELSE "fetch"]
    /\ UNCHANGED <<store, adding, wpc>>

\* the condition of the conditional expression reads _current_id ...
LatestTest(r) ==
    /\ rpc[r] = "test"
    /\ rpc' = [rpc EXCEPT ![r] = IF current = None THEN "idle" ELSE "index"]
    /\ UNCHANGED <<store, adding, wpc, wanted, answer, seen>>

\* Mutant of LatestIndex: the latest is the last one filed.
LatestIndexByOrder(r) ==
    /\ rpc[r] = "index"
    /\ answer' = [answer EXCEPT ![r] = by_id[order[Len(order)]]]
    /\ rpc' = [rpc EXCEPT ![r] = "idle"]
    /\ UNCHANGED <<store, adding, wpc, wanted, seen>>

\* ... and its value reads _current_id again, as the key of the dict
LatestIndex(r) ==
    /\ rpc[r] = "index"
    /\ answer' = [answer EXCEPT ![r] =
                    IF current \in DOMAIN by_id THEN by_id[current] ELSE KeyError]
    /\ rpc' = [rpc EXCEPT ![r] = "idle"]
    /\ UNCHANGED <<store, adding, wpc, wanted, seen>>

\* self._by_id.get(bundle_id)
GetFetch(r) ==
    /\ rpc[r] = "fetch"
    /\ answer' = [answer EXCEPT ![r] =
                    IF wanted[r] \in DOMAIN by_id THEN by_id[wanted[r]] ELSE None]
    /\ rpc' = [rpc EXCEPT ![r] = "idle"]
    /\ UNCHANGED <<store, adding, wpc, wanted, seen>>

Add == (\E b \in Bundles : AddStart(b)) \/ AddFile \/ AddOrder \/ AddPoint
Read(r) == \/ \E id \in Ids \cup {None, UnknownId} : GetStart(r, id)
           \/ LatestTest(r)
           \/ LatestIndex(r)
           \/ GetFetch(r)

Next == Add \/ \E r \in Readers : Read(r)
Spec == Init /\ [][Next]_vars

----------------------------------------------------------------------------

\* Every field holds what its Python annotation says.
TypeOK ==
    /\ by_id \in UNION {[S -> Bundles] : S \in SUBSET Ids}
    /\ order \in Seq(Ids)
    /\ current \in Ids \cup {None}
    /\ adding \in Bundles \cup {None}
    /\ wpc \in {"idle", "file", "order", "point"}
    /\ rpc \in [Readers -> {"idle", "test", "index", "fetch"}]
    /\ wanted \in [Readers -> Ids \cup {None, UnknownId}]
    /\ answer \in [Readers -> Bundles \cup {None, KeyError}]
    /\ seen \in [Readers -> SUBSET (Ids \cup {None})]

\* latest(), which holds no lock, never finds _current_id naming a bundle
\* that is not filed yet: an add files before it points (store.py:24-32).
LatestNeverFails == \A r \in Readers : answer[r] # KeyError

\* What an unpinned read returns was the published bundle at some moment
\* between its call and its return, although it reads _current_id twice.
LatestIsCurrent ==
    \A r \in Readers :
        (rpc[r] = "idle" /\ wanted[r] = None /\ answer[r] \notin {None, KeyError})
        => answer[r].bundle_id \in seen[r]

\* versions() lists each filed bundle exactly once, as soon as it has been
\* current: order and by_id may disagree only inside an add.
OrderListsVersionsOnce ==
    /\ \A i, j \in DOMAIN order : order[i] = order[j] => i = j
    /\ wpc # "order" => {order[i] : i \in DOMAIN order} = DOMAIN by_id
    /\ current # None => \E i \in DOMAIN order : order[i] = current

Listed == {order[i] : i \in DOMAIN order}

\* What holds between the statements of an add: which of filing, listing and
\* pointing is done, and what a reader in the middle may count on.
AddInProgress ==
    /\ wpc # "idle" => adding \in Bundles
    /\ wpc = "file" => adding.bundle_id \notin DOMAIN by_id
    /\ wpc = "order" => DOMAIN by_id = Listed \cup {adding.bundle_id}
                       /\ adding.bundle_id \notin Listed
    /\ wpc = "point" => adding.bundle_id \in DOMAIN by_id
FiledUnderItsId == \A id \in DOMAIN by_id : by_id[id].bundle_id = id
PointsAtFiled == current # None => current \in DOMAIN by_id
ReadInProgress ==
    \A r \in Readers :
        /\ rpc[r] # "idle" => current \in seen[r] /\ answer[r] = None
        /\ rpc[r] = "index" => current # None
        /\ rpc[r] = "fetch" => wanted[r] # None
\* The inductive invariant of the store: the pointer never runs ahead of the
\* dict nor the list behind it, whatever statement of an add a reader meets.
IInv == /\ TypeOK /\ AddInProgress /\ FiledUnderItsId /\ PointsAtFiled /\ ReadInProgress
        /\ LatestNeverFails /\ LatestIsCurrent /\ OrderListsVersionsOnce

History == INSTANCE VersionHistory WITH versions <- by_id, latest <- current
\* The store keeps the promise of VersionHistory at every statement of an add.
KeepsHistory == History!Spec
=============================================================================
