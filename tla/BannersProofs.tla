---------------------------- MODULE BannersProofs ----------------------------
(***************************************************************************)
(* For any number of threads and banners, and with or without snapshot     *)
(* isolation, at most one banner is active; with it, an activation never   *)
(* leaves the portal without one.                                          *)
(***************************************************************************)
EXTENDS Banners, TLAPS

\* The transactions that may be opened, and the step that opens one.
LEMMA IdleTyped == Idle \in Txn /\ Idle.id = None /\ Idle.op = "CREATE"
  BY DEF Idle, Txn, Flag, None

LEMMA InitInv == Init => IInv
<1> SUFFICES ASSUME Init PROVE IInv
  OBVIOUS
<1>1. TypeOK
  BY IdleTyped DEF Init, TypeOK
<1>2. Shaped /\ SweepHolds /\ SnapshotHolds
  BY DEF Init, Shaped, SweepHolds, SnapshotHolds, Idle
<1>3. AtMostOneActive
  BY DEF Init, AtMostOneActive, Active
<1> QED
  BY <1>1, <1>2, <1>3 DEF IInv

\* Opening a transaction: everything it knows comes from its snapshot.
LEMMA BeginInv ==
    ASSUME IInv, NEW p \in Proc, NEW t \in Txn, Begin(p, t),
           t.step = "READ", t.locks = {}, t.off = {},
           t.id = None <=> t.op = "CREATE",
           t.op = "UPDATE" => t.was = banner[t.id]
    PROVE  IInv'
<1> USE DEF Begin
<1>1. TypeOK'
  BY DEF IInv, TypeOK
<1>2. /\ Rows' = Rows /\ Active' = Active
      /\ \A q \in Proc \ {p} : txn'[q] = txn[q] /\ changed'[q] = changed[q]
      /\ txn'[p] = t /\ changed'[p] = {}
  BY DEF IInv, TypeOK, Rows, Active
<1>3. Shaped'
  BY <1>2 DEF IInv, Shaped
<1>4. SweepHolds'
  BY <1>2 DEF IInv, SweepHolds, Others
<1>5. SnapshotHolds'
  <2>1. ASSUME t.op = "UPDATE", t.was = "ACTIVE" PROVE Active \ {t.id} = {}
    <3>1. t.id \in Active
      BY <2>1 DEF Txn, None, Active
    <3> QED
      BY <3>1 DEF IInv, AtMostOneActive
  <2> QED
    BY <1>2, <2>1 DEF IInv, SnapshotHolds
<1>6. AtMostOneActive'
  BY <1>2 DEF IInv, AtMostOneActive
<1> QED
  BY <1>1, <1>3, <1>4, <1>5, <1>6 DEF IInv

\* The bulk UPDATE finds every other active banner.
LEMMA SweepInv ==
    ASSUME IInv, NEW p \in Proc, Sweep(p)
    PROVE  IInv'
<1> DEFINE t == txn[p]
<1>1. PICK scanned \in {Rows, Others(t)} :
         /\ fuw => scanned \cap changed[p] = {}
         /\ txn' = [txn EXCEPT ![p].step = "SWEPT", ![p].locks = scanned,
                               ![p].off = Active \cap Others(t)]
  BY DEF Sweep
<1>2. fuw' = fuw /\ banner' = banner /\ changed' = changed /\ Rows' = Rows /\ Active' = Active
  BY DEF Sweep, Rows, Active
<1>3. t \in Txn /\ Others(t) \subseteq scanned /\ scanned \subseteq Rows /\ Rows \subseteq Id
      /\ Active \subseteq Rows
  BY <1>1 DEF IInv, TypeOK, Others, Rows, Active, Flag
<1>4. txn'[p] = [t EXCEPT !.step = "SWEPT", !.locks = scanned, !.off = Active \cap Others(t)]
  BY <1>1 DEF IInv, TypeOK
<1>5. \A q \in Proc \ {p} : txn'[q] = txn[q]
  BY <1>1 DEF IInv, TypeOK
<1>6. TypeOK'
  <2>1. txn'[p] \in Txn
    <3>1. scanned \in SUBSET Id /\ Active \cap Others(t) \in SUBSET Id
      BY <1>3
    <3> QED
      BY <1>3, <1>4, <3>1 DEF Txn
  <2>2. DOMAIN txn' = Proc /\ txn' = [q \in Proc |-> txn'[q]]
    BY <1>1 DEF IInv, TypeOK
  <2>3. \A q \in Proc : txn'[q] \in Txn
    BY <2>1, <1>5 DEF IInv, TypeOK
  <2>4. txn' \in [Proc -> Txn]
    BY <2>2, <2>3
  <2> QED
    BY <1>2, <2>4 DEF IInv, TypeOK
<1>7. /\ txn'[p].step = "SWEPT" /\ txn'[p].locks = scanned
      /\ txn'[p].off = Active \cap Others(t)
      /\ txn'[p].id = t.id /\ txn'[p].op = t.op /\ txn'[p].was = t.was
  BY <1>3, <1>4 DEF Txn
<1>8. Shaped'
  BY <1>5, <1>7 DEF IInv, Shaped
<1>9. SweepHolds'
  <2>1. Active \ {t.id} \subseteq Active \cap Others(t)
    BY <1>3 DEF Others
  <2> QED
    BY <1>2, <1>3, <1>5, <1>7, <2>1 DEF IInv, SweepHolds, Others
<1>10. SnapshotHolds'
  <2>1. ASSUME t.op = "UPDATE", t.was = "ACTIVE", fuw PROVE Active \cap Others(t) = {}
    <3>1. Active \ {t.id} \subseteq changed[p]
      BY <2>1 DEF IInv, SnapshotHolds, Sweep
    <3> QED
      BY <2>1, <3>1, <1>1, <1>3 DEF Others
  <2>2. ASSUME t.op = "UPDATE", t.was = "ACTIVE" PROVE Active \ {t.id} \subseteq changed[p]
    BY <2>2 DEF IInv, SnapshotHolds, Sweep
  <2>3. ASSUME NEW q \in Proc \ {p}, txn[q].step # "IDLE", txn[q].op = "UPDATE",
               txn[q].was = "ACTIVE"
        PROVE  Active \ {txn[q].id} \subseteq changed[q] /\ (fuw => txn[q].off = {})
    BY <2>3 DEF IInv, SnapshotHolds
  <2> QED
    BY <1>2, <1>5, <1>7, <2>1, <2>2, <2>3 DEF SnapshotHolds
<1>11. AtMostOneActive'
  BY <1>2 DEF IInv, AtMostOneActive
<1> QED
  BY <1>6, <1>8, <1>9, <1>10, <1>11 DEF IInv

-----------------------------------------------------------------------------
(* Commits.                                                                *)

\* The end of p keeps the invariant when the new table has one active banner at
\* most, agrees with what the others deactivate, and differs where p says.
LEMMA EndInv ==
    ASSUME IInv, NEW p \in Proc, NEW new \in [Id -> Flag \cup {"FREE", "DELETED"}],
           NEW rows \in SUBSET Id, End(p, new, rows),
           \A b, c \in Id : new[b] = "ACTIVE" /\ new[c] = "ACTIVE" => b = c,
           \A q \in Proc \ {p}, b \in Id : txn[q].step = "SWEPT" /\ b # txn[q].id =>
                /\ new[b] \in Flag => b \in txn[q].locks
                /\ new[b] = "ACTIVE" => b \in txn[q].off,
           \A q \in Proc \ {p} : \A b \in txn[q].locks : new[b] \in Flag,
           \A b \in Id \ rows : new[b] = "ACTIVE" => b \in Active
    PROVE  IInv'
<1>1. /\ banner' = new /\ fuw' = fuw /\ txn'[p] = Idle
      /\ \A q \in Proc \ {p} : txn'[q] = txn[q]
      /\ \A q \in Proc \ {p} : txn[q].step # "IDLE" =>
             changed'[q] = changed[q] \cup txn[p].off \cup rows
  BY DEF End, IInv, TypeOK
<1>2. TypeOK'
  <2>1. txn[p].off \subseteq Id /\ \A q \in Proc : changed[q] \subseteq Id
    BY DEF IInv, TypeOK, Txn
  <2> QED
    BY <2>1, IdleTyped DEF End, IInv, TypeOK
<1>3. Shaped'
  BY <1>1, IdleTyped DEF IInv, Shaped
<1>4. SweepHolds'
  <2>1. ASSUME NEW q \in Proc \ {p}
        PROVE  /\ txn[q].off \subseteq txn[q].locks /\ txn[q].locks \subseteq Rows'
               /\ txn[q].step # "SWEPT" => txn[q].locks = {}
    <3>1. txn[q].off \subseteq txn[q].locks /\ txn[q].locks \subseteq Id
      BY DEF IInv, SweepHolds, Rows
    <3> QED
      BY <1>1, <3>1 DEF Rows, IInv, SweepHolds
  <2>2. ASSUME NEW q \in Proc \ {p}, txn[q].step = "SWEPT"
        PROVE  Rows' \ {txn[q].id} \subseteq txn[q].locks /\ Active' \ {txn[q].id} \subseteq txn[q].off
    BY <1>1, <2>2 DEF Rows, Active
  <2> QED
    BY <1>1, <2>1, <2>2 DEF SweepHolds, Others, Idle
<1>5. SnapshotHolds'
  <2>1. Active' \subseteq Active \cup rows
    BY <1>1 DEF Active
  <2>2. ASSUME NEW q \in Proc \ {p}, txn[q].step # "IDLE", txn[q].op = "UPDATE",
               txn[q].was = "ACTIVE"
        PROVE  Active' \ {txn[q].id} \subseteq changed'[q] /\ (fuw => txn[q].off = {})
    BY <1>1, <2>1, <2>2 DEF IInv, SnapshotHolds
  <2> QED
    BY <1>1, <2>2 DEF SnapshotHolds, Idle
<1>6. AtMostOneActive'
  BY <1>1 DEF AtMostOneActive, Active
<1> QED
  BY <1>2, <1>3, <1>4, <1>5, <1>6 DEF IInv

\* create_banner inserts while nobody else holds the end of the table.
LEMMA CommitCreateInv ==
    ASSUME IInv, NEW p \in Proc, CommitCreate(p)
    PROVE  IInv'
<1> DEFINE t == txn[p]
<1>1. PICK n \in Id : End(p, [b \in Id |-> IF b = n THEN "ACTIVE" ELSE Swept(t, b)], {n})
  BY DEF CommitCreate
<1> DEFINE new == [b \in Id |-> IF b = n THEN "ACTIVE" ELSE Swept(t, b)]
<1>2. t \in Txn /\ t.step = "SWEPT" /\ t.id = None
  BY DEF CommitCreate, Ready, Activates, IInv, TypeOK, Shaped
<1>3. new \in [Id -> Flag \cup {"FREE", "DELETED"}]
  BY DEF IInv, TypeOK, Swept, Flag
<1>4. \A b \in Id : new[b] = "ACTIVE" => b = n
  BY <1>2 DEF IInv, SweepHolds, Active, Swept, None, Id
<1>5. \A q \in Proc \ {p} : txn[q].step # "SWEPT"
  BY DEF CommitCreate
<1>6. \A q \in Proc \ {p} : \A b \in txn[q].locks : new[b] \in Flag
  BY DEF IInv, SweepHolds, Rows, Swept, Flag
<1> HIDE DEF new
<1>7. End(p, new, {n})
  BY <1>1 DEF new
<1> QED
  BY <1>3, <1>4, <1>5, <1>6, <1>7, EndInv

\* update_banner: an activation has deactivated every other active banner, and
\* nobody who did so can be waiting for this one.
LEMMA CommitUpdateInv ==
    ASSUME IInv, NEW p \in Proc, CommitUpdate(p)
    PROVE  IInv'
<1> DEFINE t == txn[p]
           new == Updated(t)
           rows == IF Dirty(t) THEN {t.id} ELSE {}
<1>1. t \in Txn /\ t.op = "UPDATE" /\ t.id \in Id
  BY DEF CommitUpdate, Ready, IInv, TypeOK, Shaped, Txn
<1>2. End(p, new, rows)
  BY DEF CommitUpdate
<1>3. FlagWritten(t) => t.id \in Rows \ LockedByOthers(p)
  BY DEF CommitUpdate, Dirty, Writable
<1>4. FlagWritten(t) => NewFlag(t) = t.set /\ t.set \in Flag
  BY <1>1 DEF FlagWritten, NewFlag, Txn
<1>5. new \in [Id -> Flag \cup {"FREE", "DELETED"}]
  BY <1>4 DEF Updated, Swept, IInv, TypeOK, Flag
<1>6. \A b \in Id : new[b] = "ACTIVE" =>
            \/ b \in Active \ t.off
            \/ b = t.id /\ FlagWritten(t) /\ t.set = "ACTIVE"
  BY <1>4 DEF Updated, Swept, Active
<1>7. \A b \in Id : new[b] \in Flag => b \in Rows
  BY <1>3 DEF Updated, Swept, Rows, Flag, IInv, SweepHolds
<1>8. t.set = "ACTIVE" => Active \ {t.id} \subseteq t.off
  BY <1>1 DEF CommitUpdate, Ready, Activates, IInv, SweepHolds
<1>9. \A b, c \in Id : new[b] = "ACTIVE" /\ new[c] = "ACTIVE" => b = c
  BY <1>6, <1>8 DEF IInv, AtMostOneActive
<1>10. ASSUME NEW q \in Proc \ {p}, NEW b \in Id, txn[q].step = "SWEPT", b # txn[q].id
       PROVE  /\ new[b] \in Flag => b \in txn[q].locks
              /\ new[b] = "ACTIVE" => b \in txn[q].off
  <2>1. Rows \ {txn[q].id} \subseteq txn[q].locks /\ Active \ {txn[q].id} \subseteq txn[q].off
    BY <1>10 DEF IInv, SweepHolds, Others
  <2>2. FlagWritten(t) => t.id \notin txn[q].locks
    BY <1>3 DEF LockedByOthers
  <2> QED
    BY <1>3, <1>6, <1>7, <1>10, <2>1, <2>2
<1>11. \A b \in Id \ rows : new[b] = "ACTIVE" => b \in Active
  BY <1>6 DEF Dirty
<1>12. rows \in SUBSET Id
  BY <1>1
<1>13. \A q \in Proc \ {p} : \A b \in txn[q].locks : new[b] \in Flag
  BY <1>4 DEF IInv, SweepHolds, Rows, Updated, Swept, Flag
<1> HIDE DEF new, rows
<1> QED
  BY <1>2, <1>5, <1>9, <1>10, <1>11, <1>12, <1>13, EndInv

LEMMA CommitDeleteInv ==
    ASSUME IInv, NEW p \in Proc, CommitDelete(p)
    PROVE  IInv'
<1> DEFINE d == txn[p].id
           new == [banner EXCEPT ![d] = "DELETED"]
<1>1. d \in Id /\ banner \in [Id -> Flag \cup {"FREE", "DELETED"}]
  BY DEF CommitDelete, Writable, Rows, IInv, TypeOK
<1>2. new \in [Id -> Flag \cup {"FREE", "DELETED"}]
  BY <1>1
<1>3. \A b \in Id : (new[b] = "ACTIVE" => b \in Active) /\ (new[b] \in Flag => b \in Rows)
  BY <1>1 DEF Active, Rows, Flag
<1>4. \A b, c \in Id : new[b] = "ACTIVE" /\ new[c] = "ACTIVE" => b = c
  BY <1>3 DEF IInv, AtMostOneActive
<1>5. \A q \in Proc \ {p}, b \in Id : txn[q].step = "SWEPT" /\ b # txn[q].id =>
            /\ new[b] \in Flag => b \in txn[q].locks
            /\ new[b] = "ACTIVE" => b \in txn[q].off
  BY <1>3 DEF IInv, SweepHolds, Others
<1>6. \A q \in Proc \ {p} : \A b \in txn[q].locks : new[b] \in Flag
  <2>1. \A q \in Proc \ {p} : d \notin txn[q].locks
    BY DEF CommitDelete, Writable, LockedByOthers
  <2> QED
    BY <1>1, <2>1 DEF IInv, SweepHolds, Rows
<1>7. End(p, new, {d})
  BY DEF CommitDelete
<1> HIDE DEF new, d
<1> QED
  BY <1>1, <1>2, <1>3, <1>4, <1>5, <1>6, <1>7, EndInv

LEMMA RollbackInv ==
    ASSUME IInv, NEW p \in Proc, Rollback(p)
    PROVE  IInv'
<1>1. /\ Rows' = Rows /\ Active' = Active /\ fuw' = fuw /\ txn'[p] = Idle
      /\ \A q \in Proc \ {p} : txn'[q] = txn[q] /\ changed'[q] = changed[q]
  BY DEF Rollback, IInv, TypeOK, Rows, Active
<1>2. TypeOK' /\ Shaped'
  BY <1>1, IdleTyped DEF Rollback, IInv, TypeOK, Shaped
<1>3. SweepHolds'
  BY <1>1 DEF IInv, SweepHolds, Others, Idle
<1>4. SnapshotHolds'
  BY <1>1 DEF IInv, SnapshotHolds, Idle
<1>5. AtMostOneActive'
  BY <1>1 DEF IInv, AtMostOneActive
<1> QED
  BY <1>2, <1>3, <1>4, <1>5 DEF IInv

-----------------------------------------------------------------------------

\* Every step keeps the invariant.
LEMMA NextInv == IInv /\ [Next]_vars => IInv'
<1> SUFFICES ASSUME IInv, [Next]_vars PROVE IInv'
  OBVIOUS
<1>1. ASSUME NEW p \in Proc, CreateBanner(p) PROVE IInv'
  <2>1. Begin(p, Opened("CREATE", None, "ACTIVE", FALSE, "INACTIVE"))
    BY <1>1 DEF CreateBanner
  <2>2. Opened("CREATE", None, "ACTIVE", FALSE, "INACTIVE") \in Txn
    BY DEF Opened, Txn, Flag
  <2> QED
    BY <2>1, <2>2, BeginInv DEF Opened
<1>2. ASSUME NEW p \in Proc, NEW b \in Id, NEW set \in Flag \cup {"KEEP"}, NEW text \in BOOLEAN,
             UpdateBanner(p, b, set, text)
      PROVE  IInv'
  <2>1. banner[b] \in Flag /\ b # None
    BY <1>2 DEF UpdateBanner, Rows, Id, None
  <2>2. Begin(p, Opened("UPDATE", b, set, text, banner[b]))
    BY <1>2 DEF UpdateBanner
  <2>3. Opened("UPDATE", b, set, text, banner[b]) \in Txn
    BY <2>1 DEF Opened, Txn
  <2> QED
    BY <2>1, <2>2, <2>3, BeginInv DEF Opened
<1>3. ASSUME NEW p \in Proc, NEW b \in Id, DeleteBanner(p, b) PROVE IInv'
  <2>1. banner[b] \in Flag /\ b # None
    BY <1>3 DEF DeleteBanner, Rows, Id, None
  <2>2. Begin(p, Opened("DELETE", b, "ACTIVE", FALSE, banner[b]))
    BY <1>3 DEF DeleteBanner
  <2>3. Opened("DELETE", b, "ACTIVE", FALSE, banner[b]) \in Txn
    BY <2>1 DEF Opened, Txn, Flag
  <2> QED
    BY <2>1, <2>2, <2>3, BeginInv DEF Opened
<1>4. ASSUME UNCHANGED vars PROVE IInv'
  BY <1>4 DEF vars, IInv, TypeOK, Shaped, SweepHolds, SnapshotHolds, AtMostOneActive, Others,
              Rows, Active
<1> QED
  BY <1>1, <1>2, <1>3, <1>4, SweepInv, CommitCreateInv, CommitUpdateInv, CommitDeleteInv,
     RollbackInv DEF Next, Handler, Commit

\* Whatever requests are open, the sweep of each covers the banners it must, and
\* at most one banner is active.
THEOREM Invariance == Spec => []IInv
<1>1. Init => IInv
  BY InitInv
<1>2. IInv /\ [Next]_vars => IInv'
  BY NextInv
<1> QED
  BY <1>1, <1>2, PTL DEF Spec

\* However many administrators create, activate and edit banners at once, at
\* most one is active, with or without snapshot isolation (create_banner and
\* update_banner deactivate the others first).
THEOREM OneBannerOnly == Spec => []AtMostOneActive
<1>1. IInv => AtMostOneActive
  BY DEF IInv
<1> QED
  BY <1>1, Invariance, PTL

\* Under snapshot isolation the portal loses its banner only to a request that
\* deactivates or deletes one, never to an activation (update_banner).
THEOREM PortalKeepsBanner == Spec => NeverGoesDark
<1> DEFINE Lost(p) == /\ txn[p].step # "IDLE" /\ txn'[p].step = "IDLE"
                      /\ txn[p].op = "DELETE" \/ txn[p].set = "INACTIVE"
<1>1. ASSUME IInv, [Next]_vars, fuw, Active # {}, Active' = {} PROVE \E p \in Proc : Lost(p)
  <2>1. banner' # banner
    BY <1>1 DEF Active
  <2>2. PICK p \in Proc : Commit(p)
    BY <1>1, <2>1 DEF Next, vars, Handler, CreateBanner, UpdateBanner, DeleteBanner, Begin, Sweep,
                      Rollback
  <2>3. ASSUME CommitCreate(p) PROVE FALSE
    <3>1. PICK n \in Id :
             banner' = [b \in Id |-> IF b = n THEN "ACTIVE" ELSE Swept(txn[p], b)]
      BY <2>3 DEF CommitCreate, End
    <3>2. n \in Active'
      BY <3>1 DEF Active
    <3> QED
      BY <1>1, <3>2
  <2>4. ASSUME CommitUpdate(p), txn[p].set # "INACTIVE" PROVE FALSE
    <3> DEFINE t == txn[p]
    <3>1. t \in Txn /\ t.op = "UPDATE" /\ t.step # "IDLE" /\ t.id \in Id
      BY <1>1, <2>4 DEF CommitUpdate, Ready, IInv, TypeOK, Shaped, Txn
    <3>2. banner' = Updated(t)
      BY <2>4 DEF CommitUpdate, End
    <3>3. ASSUME FlagWritten(t) PROVE FALSE
      <4>1. NewFlag(t) = "ACTIVE"
        BY <2>4, <3>1, <3>3 DEF FlagWritten, NewFlag, Txn, Flag
      <4>2. t.id \in Active'
        BY <3>1, <3>2, <3>3, <4>1 DEF Updated, Active
      <4> QED
        BY <1>1, <4>2
    <3>4. t.off = {}
      <4>1. CASE t.set = "KEEP"
        BY <1>1, <2>4, <3>1, <4>1 DEF CommitUpdate, Ready, Activates, IInv, SweepHolds
      <4>2. CASE t.set = "ACTIVE"
        <5>1. t.was = "ACTIVE"
          BY <3>3, <4>2 DEF FlagWritten
        <5> QED
          BY <1>1, <3>1, <5>1 DEF IInv, SnapshotHolds
      <4> QED
        BY <2>4, <3>1, <4>1, <4>2 DEF Txn, Flag
    <3>5. \A b \in Active : b \in Active'
      BY <3>2, <3>3, <3>4 DEF Updated, Swept, Active
    <3> QED
      BY <1>1, <3>5
  <2>5. ASSUME CommitUpdate(p), txn[p].set = "INACTIVE" PROVE Lost(p)
    BY <1>1, <2>5 DEF CommitUpdate, Ready, End, IInv, TypeOK, Idle
  <2>6. ASSUME CommitDelete(p) PROVE Lost(p)
    BY <1>1, <2>6 DEF CommitDelete, Ready, End, IInv, TypeOK, Idle
  <2> QED
    BY <2>2, <2>3, <2>4, <2>5, <2>6 DEF Commit
<1>2. IInv /\ [Next]_vars =>
        [fuw /\ Active # {} /\ Active' = {} => \E p \in Proc : Lost(p)]_vars
  BY <1>1
<1> QED
  BY <1>2, Invariance, PTL DEF Spec, NeverGoesDark

=============================================================================
