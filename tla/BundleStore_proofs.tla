------------------------- MODULE BundleStore_proofs -------------------------
(***************************************************************************)
(* The store's promises to readers that hold no lock, for any bundles and  *)
(* any number of readers: IInv (see BundleStore) holds after every         *)
(* statement of an add and of a read.                                      *)
(***************************************************************************)
EXTENDS BundleStore, Integers, TLAPS

\* The empty store satisfies the invariant.
LEMMA InitIInv == Init => IInv
<1> SUFFICES ASSUME Init PROVE IInv
  OBVIOUS
<1> USE DEF Init
<1>1. by_id = [id \in {} |-> None] /\ order \in Seq(Ids)
  OBVIOUS
<1>2. TypeOK
  BY <1>1 DEF TypeOK
<1>3. AddInProgress /\ FiledUnderItsId /\ PointsAtFiled /\ ReadInProgress
  BY <1>1 DEF AddInProgress, FiledUnderItsId, PointsAtFiled, ReadInProgress
<1>4. LatestNeverFails /\ LatestIsCurrent
  BY ValuesAssumption DEF LatestNeverFails, LatestIsCurrent
<1>5. OrderListsVersionsOnce
  BY <1>1 DEF OrderListsVersionsOnce
<1>6. QED
  BY <1>2, <1>3, <1>4, <1>5 DEF IInv

\* The three statements of add() that move one field each, and the membership
\* test before them.
LEMMA AddKeepsIInv == ASSUME IInv, Add PROVE IInv'
<1> USE ValuesAssumption DEF IInv, store
<1>1. ASSUME NEW b \in Bundles, AddStart(b) PROVE IInv'
  <2> USE <1>1 DEF AddStart
  <2>1. TypeOK'
    BY DEF TypeOK
  <2>2. AddInProgress' /\ FiledUnderItsId' /\ PointsAtFiled' /\ ReadInProgress'
    BY DEF AddInProgress, FiledUnderItsId, PointsAtFiled, ReadInProgress
  <2>3. LatestNeverFails' /\ LatestIsCurrent' /\ OrderListsVersionsOnce'
    BY DEF LatestNeverFails, LatestIsCurrent, OrderListsVersionsOnce
  <2>4. QED
    BY <2>1, <2>2, <2>3
<1>2. CASE AddFile
  <2> USE <1>2 DEF AddFile
  <2>1. /\ adding \in Bundles
        /\ adding.bundle_id \in Ids
        /\ DOMAIN by_id' = DOMAIN by_id \cup {adding.bundle_id}
        /\ by_id'[adding.bundle_id] = adding
        /\ \A id \in DOMAIN by_id : by_id'[id] = by_id[id]
    BY DEF AddInProgress, Ids
  <2>2. by_id' \in UNION {[S -> Bundles] : S \in SUBSET Ids}
    <3>1. PICK S \in SUBSET Ids : by_id \in [S -> Bundles]
      BY DEF TypeOK
    <3>2. by_id' \in [S \cup {adding.bundle_id} -> Bundles]
      BY <2>1, <3>1
    <3>3. S \cup {adding.bundle_id} \in SUBSET Ids
      BY <2>1
    <3>4. QED
      BY <3>2, <3>3
  <2>3. TypeOK'
    BY <2>2 DEF TypeOK
  <2>4. AddInProgress' /\ FiledUnderItsId' /\ PointsAtFiled' /\ ReadInProgress'
    BY <2>1 DEF AddInProgress, FiledUnderItsId, PointsAtFiled, ReadInProgress,
                OrderListsVersionsOnce, Listed
  <2>5. LatestNeverFails' /\ LatestIsCurrent' /\ OrderListsVersionsOnce'
    BY <2>1 DEF LatestNeverFails, LatestIsCurrent, OrderListsVersionsOnce
  <2>6. QED
    BY <2>3, <2>4, <2>5
<1>3. CASE AddOrder
  <2> USE <1>3 DEF AddOrder
  <2>1. /\ adding.bundle_id \in Ids
        /\ order \in Seq(Ids)
        /\ adding.bundle_id \notin Listed
        /\ DOMAIN by_id = Listed \cup {adding.bundle_id}
    BY DEF AddInProgress, TypeOK, Ids
  <2>2. /\ order' \in Seq(Ids)
        /\ DOMAIN order' = DOMAIN order \cup {Len(order) + 1}
        /\ order'[Len(order) + 1] = adding.bundle_id
        /\ \A i \in DOMAIN order : i # Len(order) + 1 /\ order'[i] = order[i]
    BY <2>1
  <2>3. Listed' = Listed \cup {adding.bundle_id}
    BY <2>2 DEF Listed
  <2>4. TypeOK'
    BY <2>2 DEF TypeOK
  <2>5. AddInProgress' /\ FiledUnderItsId' /\ PointsAtFiled' /\ ReadInProgress'
    BY <2>1, <2>3 DEF AddInProgress, FiledUnderItsId, PointsAtFiled, ReadInProgress
  <2>6. LatestNeverFails' /\ LatestIsCurrent'
    BY DEF LatestNeverFails, LatestIsCurrent
  <2>7. OrderListsVersionsOnce'
    BY <2>1, <2>2, <2>3 DEF OrderListsVersionsOnce, Listed
  <2>8. QED
    BY <2>4, <2>5, <2>6, <2>7
<1>4. CASE AddPoint
  <2> USE <1>4 DEF AddPoint
  <2>1. /\ adding.bundle_id \in Ids
        /\ adding.bundle_id \in DOMAIN by_id
        /\ DOMAIN by_id = Listed
    BY DEF AddInProgress, OrderListsVersionsOnce, Listed, Ids
  <2>2. TypeOK'
    BY <2>1 DEF TypeOK
  <2>3. AddInProgress' /\ FiledUnderItsId' /\ PointsAtFiled'
    BY <2>1 DEF AddInProgress, FiledUnderItsId, PointsAtFiled
  <2>4. ReadInProgress'
    BY <2>1 DEF ReadInProgress, TypeOK, Ids
  <2>5. LatestNeverFails' /\ LatestIsCurrent'
    BY DEF LatestNeverFails, LatestIsCurrent, TypeOK
  <2>6. OrderListsVersionsOnce'
    BY <2>1 DEF OrderListsVersionsOnce, Listed
  <2>7. QED
    BY <2>2, <2>3, <2>4, <2>5, <2>6
<1>5. QED
  BY <1>1, <1>2, <1>3, <1>4 DEF Add

\* A reader's statements touch its own locals only.
StoreUnchanged == UNCHANGED <<store, adding, wpc>>
LEMMA StoreInvariantUnchanged ==
    ASSUME IInv, StoreUnchanged, TypeOK', ReadInProgress',
           LatestNeverFails', LatestIsCurrent'
    PROVE  IInv'
<1> USE DEF IInv, store, StoreUnchanged
<1>1. AddInProgress' /\ FiledUnderItsId' /\ PointsAtFiled'
  BY DEF AddInProgress, FiledUnderItsId, PointsAtFiled, Listed
<1>2. OrderListsVersionsOnce'
  BY DEF OrderListsVersionsOnce
<1>3. QED
  BY <1>1, <1>2

\* get() and the two reads of the pointer in latest().
LEMMA ReadKeepsIInv == ASSUME IInv, NEW r \in Readers, Read(r) PROVE IInv'
<1> USE ValuesAssumption DEF IInv, store, StoreUnchanged
<1>1. ASSUME NEW id \in Ids \cup {None, UnknownId}, GetStart(r, id) PROVE IInv'
  <2> USE <1>1 DEF GetStart
  <2>1. TypeOK'
    BY DEF TypeOK
  <2>2. ReadInProgress' /\ LatestNeverFails' /\ LatestIsCurrent'
    BY DEF ReadInProgress, LatestNeverFails, LatestIsCurrent, TypeOK, Ids
  <2>3. QED
    BY <2>1, <2>2, StoreInvariantUnchanged
<1>2. CASE LatestTest(r)
  <2> USE <1>2 DEF LatestTest
  <2>1. TypeOK'
    BY DEF TypeOK
  <2>2. ReadInProgress' /\ LatestNeverFails' /\ LatestIsCurrent'
    BY DEF ReadInProgress, LatestNeverFails, LatestIsCurrent, TypeOK
  <2>3. QED
    BY <2>1, <2>2, StoreInvariantUnchanged
<1>3. CASE LatestIndex(r)
  <2> USE <1>3 DEF LatestIndex
  <2>1. /\ current \in DOMAIN by_id
        /\ by_id[current].bundle_id = current
        /\ by_id[current] \in Bundles
        /\ current \in seen[r]
    BY DEF ReadInProgress, PointsAtFiled, FiledUnderItsId, TypeOK
  <2>2. answer' = [answer EXCEPT ![r] = by_id[current]]
    BY <2>1
  <2>3. TypeOK'
    BY <2>1, <2>2 DEF TypeOK
  <2>4. ReadInProgress'
    BY <2>2 DEF ReadInProgress, TypeOK
  <2>5. LatestNeverFails'
    BY <2>1, <2>2 DEF LatestNeverFails, TypeOK
  <2>6. LatestIsCurrent'
    BY <2>1, <2>2 DEF LatestIsCurrent, TypeOK
  <2>7. QED
    BY <2>3, <2>4, <2>5, <2>6, StoreInvariantUnchanged
<1>4. CASE GetFetch(r)
  <2> USE <1>4 DEF GetFetch
  <2> DEFINE found == IF wanted[r] \in DOMAIN by_id THEN by_id[wanted[r]] ELSE None
  <2>1. found \in Bundles \cup {None} /\ answer' = [answer EXCEPT ![r] = found]
    BY DEF TypeOK
  <2> HIDE DEF found
  <2>2. TypeOK'
    BY <2>1 DEF TypeOK
  <2>3. ReadInProgress'
    BY <2>1 DEF ReadInProgress, TypeOK
  <2>4. LatestNeverFails'
    BY <2>1 DEF LatestNeverFails, TypeOK
  <2>5. LatestIsCurrent'
    BY <2>1 DEF LatestIsCurrent, ReadInProgress, TypeOK
  <2>6. QED
    BY <2>2, <2>3, <2>4, <2>5, StoreInvariantUnchanged
<1>5. QED
  BY <1>1, <1>2, <1>3, <1>4 DEF Read

LEMMA NextKeepsIInv == IInv /\ [Next]_vars => IInv'
<1> SUFFICES ASSUME IInv, [Next]_vars PROVE IInv'
  OBVIOUS
<1>1. CASE UNCHANGED vars
  BY <1>1 DEF vars, IInv, TypeOK, AddInProgress, FiledUnderItsId, PointsAtFiled,
              ReadInProgress, LatestNeverFails, LatestIsCurrent,
              OrderListsVersionsOnce, Listed
<1>2. QED
  BY <1>1, AddKeepsIInv, ReadKeepsIInv DEF Next

\* The inductive invariant holds whatever the bundles and the readers are.
THEOREM StoreInvariance == Spec => []IInv
  BY InitIInv, NextKeepsIInv, PTL DEF Spec

\* latest() without the lock never subscripts the dict with a missing key
\* (store.py:31).
THEOREM LatestAlwaysFound == Spec => []LatestNeverFails
<1>1. IInv => LatestNeverFails
  BY DEF IInv
<1>2. QED
  BY <1>1, StoreInvariance, PTL

\* An unpinned read is linearizable: it returns a bundle that was the latest
\* between its first statement and its last.
THEOREM LatestWasCurrent == Spec => []LatestIsCurrent
<1>1. IInv => LatestIsCurrent
  BY DEF IInv
<1>2. QED
  BY <1>1, StoreInvariance, PTL

\* versions() never lists a version twice and lists every one once filed.
THEOREM VersionsListedOnce == Spec => []OrderListsVersionsOnce
<1>1. IInv => OrderListsVersionsOnce
  BY DEF IInv
<1>2. QED
  BY <1>1, StoreInvariance, PTL

\* Filing a bundle, and moving the pointer to a filed one, are publications;
\* no other statement of the store or of a reader touches the history.
LEMMA NextRefines ==
    IInv /\ [Next]_vars => [History!Publish]_<<by_id, current>>
<1> SUFFICES ASSUME IInv, [Next]_vars, ~ UNCHANGED <<by_id, current>>
             PROVE  History!Publish
  OBVIOUS
<1>1. AddFile \/ AddPoint
  BY DEF Next, Add, Read, vars, store, AddStart, AddOrder,
         GetStart, LatestTest, LatestIndex, GetFetch
<1>2. CASE AddFile
  <2>1. adding.bundle_id \notin DOMAIN by_id
    BY <1>2 DEF AddFile, IInv, AddInProgress
  <2>2. /\ DOMAIN by_id' = DOMAIN by_id \cup {adding.bundle_id}
        /\ by_id'[adding.bundle_id] = adding
        /\ \A id \in DOMAIN by_id : by_id'[id] = by_id[id]
        /\ current' = current
    BY <1>2, <2>1 DEF AddFile
  <2>3. QED
    BY <2>2 DEF History!Publish
<1>3. CASE AddPoint
  <2>1. adding.bundle_id \in DOMAIN by_id
    BY <1>3 DEF AddPoint, IInv, AddInProgress
  <2>2. /\ by_id' = by_id
        /\ current' = adding.bundle_id
        /\ by_id[adding.bundle_id].bundle_id = adding.bundle_id
    BY <1>3, <2>1 DEF AddPoint, IInv, FiledUnderItsId
  <2>3. QED
    BY <2>1, <2>2 DEF History!Publish
<1>4. QED
  BY <1>1, <1>2, <1>3

\* The store, statement by statement, implements VersionHistory.
THEOREM StoreKeepsHistory == Spec => KeepsHistory
<1>1. Init => History!Init
  BY DEF Init, History!Init
<1>2. QED
  BY <1>1, NextRefines, StoreInvariance, PTL DEF Spec, KeepsHistory, History!Spec
=============================================================================
