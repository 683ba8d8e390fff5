--------------------------- MODULE LifecycleProofs ---------------------------
(***************************************************************************)
(* Reservations implements ReservationLifecycle under first-updater-wins:  *)
(* every step of every transaction is a step of the promised lifecycle or  *)
(* does not show in it.                                                    *)
(***************************************************************************)
EXTENDS EntitlementsProofs

-----------------------------------------------------------------------------
(* The refinement mapping.                                                 *)

Owner == [r \in Res |-> IF res[r] = NoRow THEN NoElig ELSE res[r].user]
StatusOf == [r \in Res |-> res[r].status]

\* The cardinality that the lifecycle counts approvals with is the same one.
LEMMA SameCardinality == \A S : Lifecycle!Cardinality(S) = Cardinality(S)
  BY DEF Cardinality, Lifecycle!Cardinality

\* Nothing is reserved at the start.
LEMMA LifecycleInit == Init => Lifecycle!Init
  BY DEF Init, Lifecycle!Init, NoRow

\* Steps that open a transaction or let time pass do not show in the lifecycle.
LEMMA LifecycleStutters ==
    ASSUME UNCHANGED usage,
           \A r \in Res : /\ res'[r] = NoRow <=> res[r] = NoRow
                          /\ res[r] # NoRow => /\ res'[r].status = res[r].status
                                               /\ res'[r].user = res[r].user
    PROVE  UNCHANGED Lifecycle!vars
  <1>1. \A r \in Res : res'[r].status = res[r].status
    OBVIOUS
  <1>2. StatusOf' = StatusOf /\ Owner' = Owner
    BY <1>1 DEF StatusOf, Owner, Res
  <1> QED
    BY <1>2 DEF Lifecycle!vars, StatusOf, Owner

\* A commit that inserts a reservation opens it, and counts nothing.
LEMMA CommitOpens ==
    ASSUME FirstUpdaterWins, IInv, NEW p \in Proc, Commit(p), txn[p].new # NoRow
    PROVE  \E r \in Res : Lifecycle!Open(r)
  <1> DEFINE t == txn[p]
  <1>1. SnapshotInv /\ WritesHold
    BY DEF IInv, UsageInv
  <1>2. t \in Txn /\ Updates(t) = {}
    BY <1>1, CommitFresh DEF Consistent
  <1>3. PICK n \in Res \cup {0} :
          /\ n = 0 <=> t.new = NoRow
          /\ n \in Res => res[n] = NoRow /\ res'[n] = t.new
          /\ \A r \in Res : r # n /\ r \notin Updates(t) => res'[r] = res[r]
    BY <1>1, CommitInserts
  <1>4. /\ n \in Res /\ res[n] = NoRow /\ res'[n] = t.new
        /\ \A r \in Res : r # n => res'[r] = res[r]
    BY <1>2, <1>3
  <1>5. t.new \in Row
    BY <1>2 DEF Txn
  <1>6. t.new.status \in Final \cup {"PENDING"} /\ t.new.user \in User
    BY <1>5 DEF Row, Status
  <1>7. UNCHANGED usage
    <2>1. \A u \in User : \A y \in Year : usage'[u][y] = usage[u][y]
      <3> TAKE u \in User
      <3> TAKE y \in Year
      <3>1. ApprovedBy(t, u) = {}
        BY <1>2, DecidedRows
      <3>2. usage[u][y] \in Nat
        BY <1>1 DEF SnapshotInv, TypeOK
      <3>3. Cardinality(ApprovedBy(t, u)) = 0
        BY <3>1, FS_EmptySet
      <3>4. usage'[u][y] = usage[u][y] +
              (IF y = t.year THEN Cardinality(ApprovedBy(t, u)) ELSE 0)
        BY <1>1, CommitUsage
      <3> QED
        BY <3>2, <3>3, <3>4
    <2>2. usage \in [User -> [Year -> Nat]] /\ usage' \in [User -> [Year -> Nat]]
      BY <1>1, CommitType DEF SnapshotInv, TypeOK
    <2> QED
      BY <2>1, <2>2
  <1>8. StatusOf' = [StatusOf EXCEPT ![n] = t.new.status]
    BY <1>4 DEF StatusOf, Res
  <1>9. Owner' = [Owner EXCEPT ![n] = t.new.user]
    BY <1>4 DEF Owner, Res
  <1>10. StatusOf[n] = "NONE"
    BY <1>4 DEF StatusOf, NoRow
  <1>11. Lifecycle!Open(n)
    BY <1>6, <1>7, <1>8, <1>9, <1>10
       DEF Lifecycle!Open, Lifecycle!Final, Final, StatusOf, Owner
  <1> QED
    BY <1>4, <1>11

\* A commit that inserts nothing decides the pending reservations it updates,
\* and counts the approvals among them.
LEMMA CommitDecides ==
    ASSUME FirstUpdaterWins, IInv, NEW p \in Proc, Commit(p), txn[p].new = NoRow
    PROVE  \E y \in Year : Lifecycle!Decide(y)
  <1> DEFINE t == txn[p]
  <1>1. SnapshotInv /\ WritesHold
    BY DEF IInv, UsageInv
  <1>2. t \in Txn /\ t.year \in Year /\ UpToDate(t)
    BY <1>1, CommitFresh DEF Txn
  <1>3. ASSUME NEW r \in Res
        PROVE  \/ res'[r] = res[r]
               \/ /\ res[r] # NoRow /\ res'[r] # NoRow /\ r \in Updates(t) /\ Pending(r)
                  /\ res'[r].status = t.decide[r] /\ res'[r].status \in Final
                  /\ res'[r].user = res[r].user
    <2>1. CASE r \in Updates(t)
      <3>1. \A row \in Row : row # NoRow
        BY DEF Row, NoRow, Status, Final
      <3> QED
        BY <1>1, <1>2, <2>1, <3>1, CommitRows DEF UpToDate
    <2>2. CASE r \notin Updates(t)
      BY <1>1, <2>2, CommitRows
    <2> QED
      BY <2>1, <2>2
  <1>4. StatusOf' \in [Res -> Final \cup {"NONE", "PENDING"}]
    <2>1. \A r \in Res : res[r].status \in Final \cup {"NONE", "PENDING"}
      BY <1>1 DEF SnapshotInv, TypeOK, Row, NoRow, Status
    <2>2. \A r \in Res : res'[r].status \in Final \cup {"NONE", "PENDING"}
      BY <1>3, <2>1
    <2> QED
      BY <2>2 DEF StatusOf, Res
  <1>5. \A r \in Res : StatusOf'[r] # StatusOf[r] =>
          StatusOf[r] = "PENDING" /\ StatusOf'[r] \in Final
    BY <1>3 DEF StatusOf, Pending, Res
  <1>6. Owner' = Owner
    BY <1>3 DEF Owner, Res
  <1> DEFINE Approved(u) == {r \in Res : /\ StatusOf[r] = "PENDING"
                                         /\ StatusOf'[r] = "APPROVED" /\ Owner[r] = u}
  <1>7. \A u : Approved(u) = ApprovedBy(t, u)
    <2> SUFFICES ASSUME NEW u, NEW r \in Res
                 PROVE  r \in Approved(u) <=> r \in ApprovedBy(t, u)
      BY DEF ApprovedBy
    <2>1. CASE r \in Updates(t)
      <3>1. /\ res[r] # NoRow /\ Pending(r)
            /\ res'[r].status = t.decide[r]
        BY <1>1, <1>2, <2>1, CommitRows DEF UpToDate, Pending, NoRow
      <3> QED
        BY <3>1 DEF ApprovedBy, StatusOf, Owner, Pending, Res
    <2>2. CASE r \notin Updates(t)
      <3>1. res'[r] = res[r] \/ res'[r] = NoRow
        BY <1>1, <2>2, CommitRows
      <3>2. r \notin ApprovedBy(t, u)
        BY <2>2, DecidedRows
      <3> QED
        BY <3>1, <3>2 DEF StatusOf, NoRow, Res
    <2> QED
      BY <2>1, <2>2
  <1>8. usage' = [u \in User |-> [usage[u] EXCEPT ![t.year] = @ + Cardinality(Approved(u))]]
    <2>1. usage \in [User -> [Year -> Nat]] /\ usage' \in [User -> [Year -> Nat]]
      BY <1>1, CommitType DEF SnapshotInv, TypeOK
    <2>2. \A u \in User : Cardinality(Approved(u)) \in Nat
      <3> TAKE u \in User
      <3>1. ApprovedBy(t, u) \in SUBSET Res
        BY DEF ApprovedBy
      <3> QED
        BY <1>7, <3>1, ReservationsFinite
    <2>3. \A u \in User : \A y \in Year :
             usage'[u][y] = usage[u][y] + (IF y = t.year THEN Cardinality(Approved(u)) ELSE 0)
      <3> TAKE u \in User
      <3> TAKE y \in Year
      <3>1. usage'[u][y] = usage[u][y] +
              (IF y = t.year THEN Cardinality(ApprovedBy(t, u)) ELSE 0)
        BY <1>1, CommitUsage
      <3> HIDE DEF Approved
      <3> QED
        BY <1>7, <3>1
    <2> HIDE DEF Approved, t
    <2>4. \A u \in User :
             usage'[u] = [usage[u] EXCEPT ![t.year] = @ + Cardinality(Approved(u))]
      <3> TAKE u \in User
      <3>1. usage[u] \in [Year -> Nat] /\ usage'[u] \in [Year -> Nat]
        BY <2>1
      <3>2. \A y \in Year : usage'[u][y] =
              [usage[u] EXCEPT ![t.year] = @ + Cardinality(Approved(u))][y]
        BY <2>2, <2>3, <3>1
      <3> QED
        BY <3>1, <3>2
    <2> QED
      BY <2>1, <2>4
  <1>9. PICK y \in Year : y = t.year
    BY <1>2
  <1>10. Lifecycle!Decide(y)
    <2>1. \A u : Lifecycle!Approved(u) = Approved(u)
      BY DEF Lifecycle!Approved, StatusOf, Owner
    <2>2. usage' = [u \in User |->
             [usage[u] EXCEPT ![y] = @ + Lifecycle!Cardinality(Lifecycle!Approved(u))]]
      BY <1>8, <1>9, <2>1, SameCardinality
    <2>3. /\ [r \in Res |-> res[r].status]' \in [Res -> Lifecycle!Final \cup {"NONE", "PENDING"}]
          /\ \A r \in Res :
                ([r_1 \in Res |-> res[r_1].status]')[r] # [r_1 \in Res |-> res[r_1].status][r]
                => /\ [r_1 \in Res |-> res[r_1].status][r] = "PENDING"
                   /\ ([r_1 \in Res |-> res[r_1].status]')[r] \in Lifecycle!Final
      BY <1>4, <1>5 DEF StatusOf, Lifecycle!Final, Final
    <2>4. UNCHANGED [r \in Res |-> IF res[r] = NoRow THEN NoElig ELSE res[r].user]
      BY <1>6 DEF Owner
    <2> QED
      BY <2>2, <2>3, <2>4 DEF Lifecycle!Decide
  <1> QED
    BY <1>9, <1>10

\* Every step of the implementation is a step of the lifecycle or a stutter.
LEMMA LifecycleStep ==
    ASSUME FirstUpdaterWins, IInv, [Next]_vars
    PROVE  [Lifecycle!Next]_(Lifecycle!vars)
  <1>1. UsageInv /\ WritesHold /\ TablesInv /\ TypeOK
    BY IInvParts DEF UsageInv, SnapshotInv
  <1>2. ASSUME (\E p \in Worker : Request(p)) \/ ExpirePending
        PROVE  UNCHANGED Lifecycle!vars
    BY <1>1, <1>2, OpeningTables, LifecycleStutters DEF db
  <1>3. ASSUME NEW p \in Proc, Commit(p)
        PROVE  Lifecycle!Next
    BY <1>3, CommitOpens, CommitDecides DEF Lifecycle!Next
  <1>4. ASSUME \/ \E p \in Proc : Rollback(p)
               \/ \E c \in Slot : RoomsChange(c)
               \/ \E r \in Res : DeadlinePasses(r)
               \/ NewYear
               \/ UNCHANGED vars
        PROVE  UNCHANGED Lifecycle!vars
    BY <1>1, <1>4, OtherStepsRows, LifecycleStutters DEF SameRow
  <1> QED
    BY <1>2, <1>3, <1>4 DEF Next

\* Under first-updater-wins the service is the lifecycle it promises: with all
\* its snapshots, races, retries and batches, a reservation is opened once, a
\* pending one is decided once, and the counter of its owner moves exactly with
\* its approval.
THEOREM Implementation ==
    ASSUME FirstUpdaterWins
    PROVE  Spec => ImplementsLifecycle
  <1>1. Init => Lifecycle!Init
    BY LifecycleInit
  <1>2. IInv /\ [Next]_vars => [Lifecycle!Next]_(Lifecycle!vars)
    BY LifecycleStep
  <1> QED
    BY <1>1, <1>2, InvariantCorrect, PTL DEF Spec, ImplementsLifecycle, Lifecycle!Spec

=============================================================================
