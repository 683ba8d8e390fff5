-------------------------- MODULE ReservationsProofs --------------------------
(***************************************************************************)
(* What TLAPS proves of Reservations, for any number of employees, stays,  *)
(* eligibilities, request threads, reservations and years.                 *)
(***************************************************************************)
EXTENDS Reservations, FiniteSetTheorems, TLAPS

-----------------------------------------------------------------------------
(* The operators of the model.                                             *)

\* The tiers are the three of _calc_discount_percent, whatever the count.
LEMMA DiscountType ==
    ASSUME NEW n \in Nat
    PROVE  CalcDiscountPercent(n) \in Discount
  BY DEF CalcDiscountPercent, Discount

\* The discounted price is a price, and never more than the full one.
LEMMA FinalPriceBounds ==
    ASSUME NEW total \in Nat, NEW percent \in Discount
    PROVE  FinalPrice(total, percent) \in 0 .. total
  BY DEF FinalPrice, Discount

\* There are finitely many reservation ids, so every set of reservations has a
\* cardinality.
LEMMA ReservationsFinite ==
    ASSUME NEW S \in SUBSET Res
    PROVE  IsFiniteSet(S) /\ Cardinality(S) \in Nat
  <1>1. MaxReservations \in Int /\ 1 \in Int
    BY ConstantsAssumption
  <1>2. IsFiniteSet(Res)
    BY <1>1, FS_Interval DEF Res
  <1>3. IsFiniteSet(S)
    BY <1>2, FS_Subset
  <1> QED
    BY <1>3, FS_CardinalityType

\* The groups of a run are images of reservations, so they are finitely many.
LEMMA GroupsFinite == IsFiniteSet(Groups)
  <1> DEFINE f == [r \in Overdue |-> StayOf(r)]
  <1>1. IsFiniteSet(Overdue)
    BY ReservationsFinite DEF Overdue
  <1>2. f \in Surjection(Overdue, Groups)
    BY DEF Surjection, Groups
  <1> QED
    BY <1>1, <1>2, FS_Surjection

-----------------------------------------------------------------------------
(* Type correctness.                                                       *)

\* The pending writes that are no writes.
LEMMA NoWritesType ==
    ASSUME TypeOK
    PROVE  NoWrites \in Txn
  BY ConstantsAssumption DEF TypeOK, NoWrites, Txn, Row, NoRow, Keep, Same

\* Opening a transaction keeps the invariant when its writes are well formed
\* and up to date, and it changes no table.
LEMMA BeginInv ==
    ASSUME SnapshotInv, NEW p \in Proc, NEW w \in Txn, Begin(p, w),
           WellFormed(w), UpToDate(w)
    PROVE  SnapshotInv' /\ UNCHANGED <<res, usage>>
  <1>1. UNCHANGED <<res, usage, used, notes, rooms, year>>
    BY DEF Begin, db
  <1>2. TypeOK'
    BY <1>1 DEF SnapshotInv, TypeOK, Begin, Row
  <1>3. PendingNotDirect'
    BY <1>1 DEF SnapshotInv, PendingNotDirect, Pending
  <1>4. SnapshotsHold'
    <2> SUFFICES ASSUME NEW q \in Proc, txn'[q].open
                 PROVE  WellFormed(txn[q])' /\ (~stale'[q] => UpToDate(txn[q])')
      BY DEF SnapshotsHold
    <2>1. CASE q = p
      <3>1. txn'[q] = w
        BY <2>1 DEF Begin, SnapshotInv, TypeOK
      <3> QED
        BY <1>1, <3>1 DEF WellFormed, UpToDate, ApprovedBy, Updates, Counted, Pending
    <2>2. CASE q # p
      <3>1. txn'[q] = txn[q] /\ stale'[q] = stale[q]
        BY <2>2 DEF Begin, SnapshotInv, TypeOK
      <3> QED
        BY <1>1, <3>1 DEF SnapshotInv, SnapshotsHold, WellFormed, UpToDate, ApprovedBy,
                          Updates, Counted, Pending
    <2> QED
      BY <2>1, <2>2
  <1> QED
    BY <1>1, <1>2, <1>3, <1>4 DEF SnapshotInv

\* Writes that update no row are up to date, and well formed when the row they
\* insert is.
LEMMA InsertInv ==
    ASSUME NEW w, w.decide = [r \in Res |-> Keep], w.wins = [u \in User |-> 0],
           w.new # NoRow => /\ w.new.status = "APPROVED" => w.new.direct
                            /\ w.new.status = "PENDING" => ~w.new.direct
    PROVE  WellFormed(w) /\ UpToDate(w)
  <1>1. Updates(w) = {} /\ Counted(w) = {}
    BY DEF Updates, Counted
  <1>2. \A u \in User : ApprovedBy(w, u) = {}
    BY DEF ApprovedBy, Keep
  <1> QED
    BY <1>1, <1>2, FS_EmptySet DEF WellFormed, UpToDate, Keep

LEMMA CreateReservationInv ==
    ASSUME SnapshotInv, NEW p \in Proc, NEW u \in User, NEW s \in Slot, NEW b \in BOOLEAN,
           CreateReservation(p, u, s, b)
    PROVE  SnapshotInv' /\ UNCHANGED <<res, usage>>
  <1>0. TypeOK
    BY DEF SnapshotInv
  <1>1. PICK e \in Elig \cup {NoElig} :
          Begin(p, [NoWrites EXCEPT
            !.new = [status |-> "PENDING", user |-> u, slot |-> s, elig |-> e,
                     discount |-> IF e # NoElig THEN 0
                                  ELSE CalcDiscountPercent(UsageCount(u)),
                     year |-> NoYear, overdue |-> FALSE, direct |-> FALSE,
                     request |-> FALSE],
            !.use = {e} \ {NoElig},
            !.note = "NEW_RESERVATION"])
    BY DEF CreateReservation, UnusedElig
  <1>2. CalcDiscountPercent(UsageCount(u)) \in Discount
    BY <1>0, DiscountType DEF TypeOK, UsageCount
  <1> DEFINE row == [status |-> "PENDING", user |-> u, slot |-> s, elig |-> e,
                     discount |-> IF e # NoElig THEN 0
                                  ELSE CalcDiscountPercent(UsageCount(u)),
                     year |-> NoYear, overdue |-> FALSE, direct |-> FALSE,
                     request |-> FALSE]
             w == [NoWrites EXCEPT !.new = row, !.use = {e} \ {NoElig},
                                   !.note = "NEW_RESERVATION"]
  <1>3. row \in Row
    BY <1>2 DEF Row, Status, NoYear, Discount
  <1> HIDE DEF row
  <1>4. w \in Txn
    BY <1>0, <1>3, NoWritesType DEF Txn, NoteKind
  <1>5. WellFormed(w) /\ UpToDate(w)
    BY InsertInv DEF NoWrites, row
  <1> QED
    BY <1>1, <1>4, <1>5, BeginInv DEF row

LEMMA AdminCreateReservationInv ==
    ASSUME SnapshotInv, NEW p \in Proc, NEW u \in User, NEW s \in Slot, NEW st \in AdminStatus,
           AdminCreateReservation(p, u, s, st)
    PROVE  SnapshotInv' /\ UNCHANGED <<res, usage>>
  <1> DEFINE row == [status |-> st, user |-> u, slot |-> s, elig |-> NoElig,
                     discount |-> 0, year |-> year, overdue |-> TRUE,
                     direct |-> st = "APPROVED", request |-> FALSE]
             w == [NoWrites EXCEPT !.new = row]
  <1>0. TypeOK
    BY DEF SnapshotInv
  <1>1. row \in Row
    BY <1>0, ConstantsAssumption DEF TypeOK, Row, Discount
  <1>2. Begin(p, w)
    BY DEF AdminCreateReservation
  <1> HIDE DEF row
  <1>3. w \in Txn
    BY <1>0, <1>1, NoWritesType DEF Txn
  <1>4. WellFormed(w) /\ UpToDate(w)
    BY InsertInv DEF NoWrites, row
  <1> QED
    BY <1>2, <1>3, <1>4, BeginInv

LEMMA ReviewPlanRequestInv ==
    ASSUME SnapshotInv, NEW p \in Proc, NEW u \in User, NEW s \in Slot,
           NEW e \in Elig \cup {NoElig}, ReviewPlanRequest(p, u, s, e)
    PROVE  SnapshotInv' /\ UNCHANGED <<res, usage>>
  <1> DEFINE row == [status |-> "APPROVED", user |-> u, slot |-> s, elig |-> e,
                     discount |-> 0, year |-> year, overdue |-> TRUE,
                     direct |-> TRUE, request |-> TRUE]
             w == [NoWrites EXCEPT !.new = row, !.use = {x \in Elig : x = e /\ ~used[x]}]
  <1>0. TypeOK
    BY DEF SnapshotInv
  <1>1. row \in Row
    BY <1>0 DEF TypeOK, Row, Discount, Status, Final
  <1>2. Begin(p, w)
    BY DEF ReviewPlanRequest
  <1> HIDE DEF row
  <1>3. w \in Txn
    BY <1>0, <1>1, NoWritesType DEF Txn
  <1>4. WellFormed(w) /\ UpToDate(w)
    BY InsertInv DEF NoWrites, row
  <1> QED
    BY <1>2, <1>3, <1>4, BeginInv

\* The writes of a run of the job are typed when their columns are.
LEMMA RunType ==
    ASSUME NEW t \in Txn, NEW decide \in [Res -> Final \cup {Keep}],
           NEW discount \in [Res -> Discount \cup {Same}],
           NEW wins \in [User -> Nat], NEW seen \in [User -> Nat], NEW w,
           w = [t EXCEPT !.decide = decide, !.discount = discount, !.wins = wins,
                         !.seen = seen, !.reviewed = TRUE]
    PROVE  w \in Txn
  BY DEF Txn

LEMMA ReviewReservationInv ==
    ASSUME SnapshotInv, NEW p \in Proc, NEW r \in Res, NEW a \in {"APPROVE", "REJECT"},
           NEW b \in BOOLEAN, ReviewReservation(p, r, a, b)
    PROVE  SnapshotInv' /\ UNCHANGED <<res, usage>>
  <1> DEFINE row == res[r]
             removed == b /\ row.elig # NoElig
             percent == CalcDiscountPercent(UsageCount(row.user))
             d == IF Recalculates(row, a, removed) /\ percent # row.discount
                  THEN percent ELSE Same
             w == [NoWrites EXCEPT
                     !.decide[r] = IF a = "APPROVE" THEN "APPROVED" ELSE "REJECTED",
                     !.discount[r] = d,
                     !.dropElig = Detached(r, removed),
                     !.free = IF removed THEN {row.elig} ELSE {},
                     !.wins[row.user] = IF a = "APPROVE" THEN 1 ELSE 0,
                     !.seen[row.user] = IF a = "APPROVE" THEN UsageCount(row.user) ELSE 0,
                     !.reviewed = TRUE,
                     !.note = a]
  <1>0. TypeOK
    BY DEF SnapshotInv
  <1>1. Pending(r) /\ Begin(p, w)
    BY DEF ReviewReservation
  <1>2. row \in Row
    BY <1>0, <1>1 DEF TypeOK, Pending, NoRow
  <1>3. row.user \in User /\ UsageCount(row.user) \in Nat
    BY <1>0, <1>2 DEF TypeOK, Row, UsageCount
  <1>4. d \in Discount \cup {Same}
    BY <1>3, DiscountType
  <1>5. Detached(r, removed) \in SUBSET Res
    BY DEF Detached
  <1>6. (IF removed THEN {row.elig} ELSE {}) \in SUBSET Elig
    BY <1>2 DEF Row
  <1> HIDE DEF d, removed
  <1>7. w \in Txn
    <2> DEFINE decide == [NoWrites.decide EXCEPT
                            ![r] = IF a = "APPROVE" THEN "APPROVED" ELSE "REJECTED"]
               discount == [NoWrites.discount EXCEPT ![r] = d]
               wins == [NoWrites.wins EXCEPT ![row.user] = IF a = "APPROVE" THEN 1 ELSE 0]
               seen == [NoWrites.seen EXCEPT
                          ![row.user] = IF a = "APPROVE" THEN UsageCount(row.user) ELSE 0]
               dropped == Detached(r, removed)
               freed == IF removed THEN {row.elig} ELSE {}
    <2>1. NoWrites \in Txn
      BY <1>0, NoWritesType
    <2>2. decide \in [Res -> Final \cup {Keep}]
      BY <2>1 DEF Txn, Final
    <2>3. discount \in [Res -> Discount \cup {Same}]
      BY <1>4, <2>1 DEF Txn
    <2>4. wins \in [User -> Nat] /\ seen \in [User -> Nat]
      BY <1>3, <2>1 DEF Txn
    <2>5. a \in NoteKind
      BY DEF NoteKind
    <2>6. w = [NoWrites EXCEPT !.decide = decide, !.discount = discount,
                 !.dropElig = dropped, !.free = freed, !.wins = wins, !.seen = seen,
                 !.reviewed = TRUE, !.note = a]
      OBVIOUS
    <2>7. dropped \in SUBSET Res /\ freed \in SUBSET Elig
      BY <1>5, <1>6
    <2> HIDE DEF w, decide, discount, wins, seen, dropped, freed
    <2> QED
      BY <2>1, <2>2, <2>3, <2>4, <2>5, <2>6, <2>7 DEF Txn
  <1>8. Updates(w) = {r}
    BY DEF Updates, NoWrites, Keep
  <1>9. \A u \in User : ApprovedBy(w, u) =
                          IF a = "APPROVE" /\ u = row.user THEN {r} ELSE {}
    BY DEF ApprovedBy, NoWrites, Keep
  <1>10. WellFormed(w)
    <2>1. \A u \in User : w.wins[u] = IF a = "APPROVE" /\ u = row.user THEN 1 ELSE 0
      BY <1>3 DEF NoWrites
    <2>2. Cardinality({r}) = 1 /\ Cardinality({}) = 0
      BY FS_Singleton, FS_EmptySet
    <2>3. \A u \in User : w.wins[u] = Cardinality(ApprovedBy(w, u))
      <3> HIDE DEF w
      <3> QED
        BY <1>9, <2>1, <2>2
    <2> QED
      <3>1. w.new = NoRow /\ w.reviewed
        BY DEF NoWrites
      <3>2. res[r] # NoRow
        BY <1>1 DEF Pending, NoRow
      <3> HIDE DEF w
      <3> QED
        BY <1>8, <2>3, <3>1, <3>2 DEF WellFormed
  <1>11. UpToDate(w)
    <2>1. w.year = year /\ \A u \in Counted(w) : u = row.user /\ a = "APPROVE"
      BY DEF Counted, NoWrites
    <2>2. \A u \in Counted(w) : w.seen[u] = usage[u][w.year]
      BY <2>1 DEF NoWrites, UsageCount, Counted
    <2> QED
      BY <1>1, <1>8, <2>2 DEF UpToDate
  <1> QED
    BY <1>1, <1>7, <1>10, <1>11, BeginInv

LEMMA CancelReservationInv ==
    ASSUME SnapshotInv, NEW p \in Proc, NEW r \in Res, CancelReservation(p, r)
    PROVE  SnapshotInv' /\ UNCHANGED <<res, usage>>
  <1> DEFINE w == [NoWrites EXCEPT !.decide[r] = "CANCELLED",
                                   !.note = "RESERVATION_CANCELLED"]
  <1>1. w \in Txn
    BY NoWritesType DEF Txn, Final, NoteKind, SnapshotInv
  <1>2. Updates(w) = {r} /\ Counted(w) = {} /\ \A u \in User : ApprovedBy(w, u) = {}
    BY DEF Updates, Counted, ApprovedBy, NoWrites, Keep
  <1>3. WellFormed(w) /\ UpToDate(w)
    BY <1>2, FS_EmptySet
       DEF WellFormed, UpToDate, CancelReservation, Cancellable, Pending, NoWrites, NoRow, Keep
  <1> QED
    BY <1>1, <1>3, BeginInv DEF CancelReservation

\* The writes of one run of the job, for an outcome that a run can have.
RunWrites(order, winner) ==
    LET winners == {winner[g] : g \in Groups}
        wins(u) == Cardinality({r \in winners : res[r].user = u})
        percent(r) == CalcDiscountPercent(
                          CountInRun(res[r].user, StayOf(r), order, winner))
    IN  [NoWrites EXCEPT
           !.decide = [r \in Res |-> IF r \in winners THEN "APPROVED"
                                     ELSE IF r \in Overdue THEN "EXPIRED"
                                     ELSE Keep],
           !.discount = [r \in Res |->
                 IF r \in winners /\ res[r].elig = NoElig /\ percent(r) # res[r].discount
                 THEN percent(r) ELSE Same],
           !.wins = [u \in User |-> wins(u)],
           !.seen = [u \in User |-> IF wins(u) = 0 THEN 0 ELSE UsageCount(u)],
           !.reviewed = TRUE]

\* A run of the job opens a transaction with the writes of an outcome.
LEMMA ExpirePendingWrites ==
    ASSUME ExpirePending
    PROVE  \E order \in Orders, winner \in [Groups -> Overdue] :
             IsOutcome(order, winner) /\ Begin(Job, RunWrites(order, winner))
  BY Zenon DEF ExpirePending, RunWrites

LEMMA RunWritesType ==
    ASSUME TypeOK, NEW order \in Orders, NEW winner \in [Groups -> Overdue]
    PROVE  RunWrites(order, winner) \in Txn
  <1> DEFINE winners == {winner[g] : g \in Groups}
             wins(u) == Cardinality({r \in winners : res[r].user = u})
             percent(r) == CalcDiscountPercent(
                               CountInRun(res[r].user, StayOf(r), order, winner))
             decide == [r \in Res |-> IF r \in winners THEN "APPROVED"
                                      ELSE IF r \in Overdue THEN "EXPIRED" ELSE Keep]
             discount == [r \in Res |->
                 IF r \in winners /\ res[r].elig = NoElig /\ percent(r) # res[r].discount
                 THEN percent(r) ELSE Same]
             won == [u \in User |-> wins(u)]
             seen == [u \in User |-> IF wins(u) = 0 THEN 0 ELSE UsageCount(u)]
  <1>1. winners \subseteq Overdue /\ Overdue \subseteq Res
    BY DEF Overdue
  <1>2. \A u : wins(u) \in Nat
    <2> TAKE u
    <2>1. {r \in winners : res[r].user = u} \in SUBSET Res
      BY <1>1
    <2> QED
      BY <2>1, ReservationsFinite
  <1>3. \A u \in User : UsageCount(u) \in Nat
    BY DEF TypeOK, UsageCount
  <1>4. \A r \in winners : percent(r) \in Discount
    <2> SUFFICES ASSUME NEW r \in winners
                 PROVE  percent(r) \in Discount
      OBVIOUS
    <2> DEFINE before == {h \in Groups : order[h] < order[StayOf(r)]
                                         /\ res[winner[h]].user = res[r].user}
    <2>1. res[r] \in Row
      BY <1>1 DEF Overdue, Pending, TypeOK, NoRow
    <2>2. Cardinality(before) \in Nat
      <3>1. before \in SUBSET Groups
        OBVIOUS
      <3> HIDE DEF before
      <3>2. IsFiniteSet(before)
        BY <3>1, GroupsFinite, FS_Subset
      <3> QED
        BY <3>2, FS_CardinalityType
    <2>3. UsageCount(res[r].user) \in Nat
      BY <1>3, <2>1 DEF Row
    <2>4. CountInRun(res[r].user, StayOf(r), order, winner) \in Nat
      BY <2>2, <2>3 DEF CountInRun
    <2> QED
      BY <2>4, DiscountType
  <1>5. decide \in [Res -> Final \cup {Keep}]
    BY DEF Final
  <1> HIDE DEF winners, wins, percent
  <1>6. discount \in [Res -> Discount \cup {Same}]
    BY <1>4
  <1>7. won \in [User -> Nat] /\ seen \in [User -> Nat]
    BY <1>2, <1>3
  <1>8. RunWrites(order, winner) =
          [NoWrites EXCEPT !.decide = decide, !.discount = discount,
                           !.wins = won, !.seen = seen, !.reviewed = TRUE]
    BY Zenon DEF RunWrites, winners, wins, percent
  <1> HIDE DEF decide, discount, won, seen
  <1>9. NoWrites \in Txn
    BY NoWritesType
  <1> QED
    BY <1>5, <1>6, <1>7, <1>8, <1>9, RunType

\* The job counts the winners it approves and updates overdue rows only.
LEMMA RunWritesFit ==
    ASSUME TypeOK, NEW order \in Orders, NEW winner \in [Groups -> Overdue]
    PROVE  WellFormed(RunWrites(order, winner)) /\ UpToDate(RunWrites(order, winner))
  <1> DEFINE w == RunWrites(order, winner)
             winners == {winner[g] : g \in Groups}
             wins(u) == Cardinality({r \in winners : res[r].user = u})
  <1>1. winners \subseteq Overdue /\ Overdue \subseteq Res
    BY DEF Overdue
  <1>2. /\ w.decide = [r \in Res |-> IF r \in winners THEN "APPROVED"
                                      ELSE IF r \in Overdue THEN "EXPIRED" ELSE Keep]
        /\ w.wins = [u \in User |-> wins(u)]
        /\ w.seen = [u \in User |-> IF wins(u) = 0 THEN 0 ELSE UsageCount(u)]
        /\ w.reviewed = TRUE /\ w.new = NoRow /\ w.year = year
    BY DEF RunWrites, NoWrites
  <1>3. \A r \in Updates(w) : Pending(r) /\ res[r] # NoRow
    BY <1>1, <1>2 DEF Updates, Overdue, Pending, NoRow
  <1>4. \A u \in User : w.wins[u] = Cardinality(ApprovedBy(w, u))
    <2> TAKE u \in User
    <2>1. ApprovedBy(w, u) = {r \in winners : res[r].user = u}
      BY <1>1, <1>2 DEF ApprovedBy, Keep
    <2> QED
      BY <1>2, <2>1
  <1>5. \A u \in Counted(w) : w.seen[u] > 0 => usage[u][w.year] = w.seen[u]
    <2> TAKE u \in Counted(w)
    <2> HIDE DEF w, wins
    <2>1. u \in User
      BY DEF Counted
    <2> QED
      BY <1>2, <2>1 DEF UsageCount
  <1> HIDE DEF w
  <1> QED
    BY <1>2, <1>3, <1>4, <1>5 DEF WellFormed, UpToDate, w

LEMMA ExpirePendingInv ==
    ASSUME SnapshotInv, ExpirePending
    PROVE  SnapshotInv' /\ UNCHANGED <<res, usage>>
  BY ExpirePendingWrites, RunWritesType, RunWritesFit, BeginInv DEF Proc, SnapshotInv

LEMMA CommitType ==
    ASSUME TypeOK, SnapshotsHold, NEW p \in Proc, Commit(p)
    PROVE  TypeOK'
  <1> DEFINE t == txn[p]
  <1>1. t \in Txn /\ txn[p].open
    BY DEF TypeOK, Commit, NoTxn
  <1>2. PICK n \in NewIds(t) :
          /\ res' = [r \in Res |-> IF r = n THEN t.new ELSE Updated(r, t)]
          /\ notes' = notes \cup {<<r, t.note>> : r \in {x \in Res :
                                    t.note # "NONE" /\ (x = n \/ x \in Updates(t))}}
    BY DEF Commit
  <1>3. res' \in [Res -> Row \cup {NoRow}]
    <2> SUFFICES ASSUME NEW r \in Res
                 PROVE  Updated(r, t) \in Row \cup {NoRow}
      BY <1>1, <1>2 DEF Txn
    <2>1. CASE t.decide[r] = Keep
      BY <2>1 DEF Updated, TypeOK
    <2>2. CASE t.decide[r] # Keep
      <3>1. res[r] \in Row
        BY <1>1, <2>2 DEF SnapshotsHold, WellFormed, Updates, TypeOK
      <3> QED
        <4>1. /\ t.decide[r] \in Status
              /\ t.discount[r] # Same => t.discount[r] \in Discount
              /\ t.year \in Year \cup {NoYear}
          BY <1>1, <2>2 DEF Txn, Status
        <4>2. /\ (IF t.discount[r] = Same THEN res[r].discount ELSE t.discount[r]) \in Discount
              /\ (IF r \in t.dropElig THEN NoElig ELSE res[r].elig) \in Elig \cup {NoElig}
              /\ (IF t.reviewed THEN t.year ELSE res[r].year) \in Year \cup {NoYear}
          BY <3>1, <4>1 DEF Row
        <4>3. Updated(r, t) = [res[r] EXCEPT
                !.status = t.decide[r],
                !.discount = IF t.discount[r] = Same THEN res[r].discount ELSE t.discount[r],
                !.elig = IF r \in t.dropElig THEN NoElig ELSE res[r].elig,
                !.year = IF t.reviewed THEN t.year ELSE res[r].year]
          BY <2>2, <3>1 DEF Updated, Row
        <4> HIDE DEF t
        <4> QED
          BY <3>1, <4>1, <4>2, <4>3 DEF Row
    <2> QED
      BY <2>1, <2>2
  <1>4. usage' \in [User -> [Year -> Nat]]
    BY <1>1 DEF Commit, NewUsage, TypeOK, Txn
  <1>5. used' \in [Elig -> BOOLEAN]
    BY DEF Commit, TypeOK
  <1>6. notes' \subseteq Res \X NoteKind
    BY <1>1, <1>2 DEF TypeOK, Txn
  <1>7. txn' \in [Proc -> Txn \cup {NoTxn}]
    BY DEF Commit, TypeOK
  <1>8. stale' \in [Proc -> BOOLEAN]
    <2>1. \A q \in Proc : (q # p /\ txn[q].open
                          /\ (stale[q] \/ Overlap(t, txn[q]))) \in BOOLEAN
      OBVIOUS
    <2>2. stale' = [q \in Proc |-> q # p /\ txn[q].open
                                    /\ (stale[q] \/ Overlap(t, txn[q]))]
      BY DEF Commit
    <2> QED
      BY <2>1, <2>2, Zenon
  <1>9. year' \in Year
    BY DEF Commit, TypeOK
  <1>10. rooms' \in [Slot -> RoomCounts]
    BY DEF Commit, TypeOK
  <1> QED
    BY <1>3, <1>4, <1>5, <1>6, <1>7, <1>8, <1>9, <1>10 DEF TypeOK

-----------------------------------------------------------------------------
(* The commit.                                                             *)

\* What a commit does to a row: it fills an id that was not issued, or it
\* updates columns of a row and leaves its owner alone.
LEMMA CommitRows ==
    ASSUME SnapshotInv, NEW p \in Proc, Commit(p), NEW r \in Res
    PROVE  LET t == txn[p]
           IN  \/ /\ res[r] = NoRow /\ r \notin Updates(t)
                  /\ res'[r] = NoRow \/ (t.new # NoRow /\ res'[r] = t.new)
               \/ /\ res[r] \in Row /\ r \notin Updates(t) /\ res'[r] = res[r]
               \/ /\ res[r] \in Row /\ r \in Updates(t) /\ res'[r] \in Row
                  /\ res'[r].status = t.decide[r] /\ res'[r].status \in Final
                  /\ res'[r].user = res[r].user /\ res'[r].direct = res[r].direct
                  /\ t.reviewed => res'[r].year = t.year
  <1> DEFINE t == txn[p]
  <1>1. t \in Txn /\ WellFormed(t)
    BY DEF SnapshotInv, TypeOK, SnapshotsHold, Commit, NoTxn
  <1>2. PICK n \in NewIds(t) :
          res' = [x \in Res |-> IF x = n THEN t.new ELSE Updated(x, t)]
    BY DEF Commit
  <1>3. r = n => res[r] = NoRow /\ t.new # NoRow
    BY DEF NewIds, NextIds, Res
  <1>4. CASE res[r] = NoRow
    <2>1. r \notin Updates(t)
      BY <1>1, <1>4 DEF WellFormed
    <2> QED
      BY <1>2, <1>3, <1>4, <2>1 DEF Updated, Updates
  <1>5. CASE res[r] # NoRow /\ r \notin Updates(t)
    BY <1>2, <1>3, <1>5 DEF Updated, Updates, SnapshotInv, TypeOK
  <1>6. CASE res[r] # NoRow /\ r \in Updates(t)
    <2>1. res[r] \in Row /\ t.decide[r] \in Final /\ t.decide[r] # Keep
      BY <1>1, <1>6 DEF SnapshotInv, TypeOK, Txn, Updates
    <2>2. res'[r] = [res[r] EXCEPT !.status = t.decide[r],
                        !.discount = IF t.discount[r] = Same THEN @ ELSE t.discount[r],
                        !.elig = IF r \in t.dropElig THEN NoElig ELSE @,
                        !.year = IF t.reviewed THEN t.year ELSE @]
      BY <1>2, <1>3, <1>6, <2>1 DEF Updated
    <2>3. /\ t.discount[r] \in Discount \cup {Same}
          /\ t.year \in Year
      BY <1>1 DEF Txn
    <2>4. res'[r] \in Row
      BY <2>1, <2>2, <2>3 DEF Row, Status
    <2> QED
      BY <1>6, <2>1, <2>2, <2>4 DEF Row
  <1> QED
    BY <1>4, <1>5, <1>6

LEMMA CommitPendingNotDirect ==
    ASSUME SnapshotInv, NEW p \in Proc, Commit(p)
    PROVE  PendingNotDirect'
  <1> DEFINE t == txn[p]
  <1>1. WellFormed(t)
    BY DEF SnapshotInv, SnapshotsHold, Commit
  <1> SUFFICES ASSUME NEW r \in Res, Pending(r)'
               PROVE  ~res'[r].direct
    BY DEF PendingNotDirect
  <1> QED
    BY <1>1, CommitRows DEF SnapshotInv, PendingNotDirect, Pending, WellFormed, Final, NoRow

\* The other open transactions stay well formed, and those that the commit
\* does not make stale stay up to date.
LEMMA CommitSnapshotsHold ==
    ASSUME SnapshotInv, NEW p \in Proc, Commit(p)
    PROVE  SnapshotsHold'
  <1> DEFINE t == txn[p]
  <1> SUFFICES ASSUME NEW q \in Proc, txn'[q].open
               PROVE  WellFormed(txn[q])' /\ (~stale'[q] => UpToDate(txn[q])')
    BY DEF SnapshotsHold
  <1> DEFINE o == txn[q]
  <1>1. q # p /\ txn'[q] = o /\ o.open
    BY DEF Commit, SnapshotInv, TypeOK, NoTxn
  <1>2. o \in Txn /\ WellFormed(o) /\ t \in Txn
    BY <1>1 DEF SnapshotInv, TypeOK, SnapshotsHold, NoTxn, Commit
  <1>3. \A r \in Updates(o) : res'[r] # NoRow /\ res'[r].user = res[r].user
    <2> SUFFICES ASSUME NEW r \in Updates(o)
                 PROVE  res'[r] # NoRow /\ res'[r].user = res[r].user
      OBVIOUS
    <2>1. r \in Res /\ res[r] # NoRow
      BY <1>2 DEF WellFormed, Updates
    <2> QED
      BY <2>1, CommitRows DEF Row, NoRow, Status, Final
  <1>4. WellFormed(txn[q])'
    <2>1. \A u \in User : ApprovedBy(o, u)' = ApprovedBy(o, u)
      BY <1>1, <1>3 DEF ApprovedBy, Updates, Keep
    <2>2. Updates(txn[q])' = Updates(o)
      BY <1>1 DEF Updates
    <2> QED
      BY <1>1, <1>2, <1>3, <2>1, <2>2 DEF WellFormed, ApprovedBy
  <1>5. ASSUME ~stale'[q]
        PROVE  UpToDate(txn[q])'
    <2>1. ~stale[q] /\ ~Overlap(t, o)
      BY <1>1, <1>5 DEF Commit
    <2>2. UpToDate(o)
      BY <1>1, <2>1 DEF SnapshotInv, SnapshotsHold
    <2>3. \A r \in Updates(o) : Pending(r)'
      <3> SUFFICES ASSUME NEW r \in Updates(o)
                   PROVE  Pending(r)'
        OBVIOUS
      <3>1. r \in Res /\ Pending(r) /\ r \notin Updates(t)
        BY <2>1, <2>2 DEF UpToDate, Overlap, Updates
      <3> QED
        BY <3>1, CommitRows DEF Pending, NoRow
    <2>4. \A u \in Counted(o) : o.seen[u] > 0 => usage'[u][o.year] = o.seen[u]
      <3> SUFFICES ASSUME NEW u \in Counted(o), o.seen[u] > 0
                   PROVE  usage'[u][o.year] = o.seen[u]
        OBVIOUS
      <3>1. u \in User /\ usage[u][o.year] = o.seen[u]
        BY <2>2 DEF UpToDate, Counted
      <3>2. usage'[u] = NewUsage(u, t)
        BY <3>1 DEF Commit
      <3>3. t.year = o.year => t.wins[u] = 0
        <4>1. t.year = o.year => u \notin Counted(t)
          BY <2>1 DEF Overlap
        <4>2. t.wins[u] \in Nat
          BY <1>2, <3>1 DEF Txn
        <4> QED
          BY <3>1, <4>1, <4>2 DEF Counted
      <3>4. usage[u] \in [Year -> Nat] /\ o.year \in Year
        BY <1>2, <3>1 DEF SnapshotInv, TypeOK, Txn
      <3> QED
        BY <3>1, <3>2, <3>3, <3>4 DEF NewUsage
    <2> QED
      BY <1>1, <2>3, <2>4 DEF UpToDate, Updates, Counted
  <1> QED
    BY <1>4, <1>5

LEMMA CommitInv ==
    ASSUME SnapshotInv, NEW p \in Proc, Commit(p)
    PROVE  SnapshotInv'
  BY CommitType, CommitPendingNotDirect, CommitSnapshotsHold DEF SnapshotInv

LEMMA OtherStepsType ==
    ASSUME TypeOK,
           \/ \E p \in Proc : Rollback(p)
           \/ \E c \in Slot : RoomsChange(c)
           \/ \E r \in Res : DeadlinePasses(r)
           \/ NewYear
           \/ UNCHANGED vars
    PROVE  TypeOK'
  <1>1. ASSUME NEW p \in Proc, Rollback(p)
        PROVE  TypeOK'
    BY <1>1 DEF TypeOK, Rollback, db
  <1>2. ASSUME NEW r \in Res, DeadlinePasses(r)
        PROVE  TypeOK'
    <2>1. res[r] \in Row
      BY <1>2 DEF DeadlinePasses, Pending, TypeOK, NoRow
    <2>2. [res[r] EXCEPT !.overdue = TRUE] \in Row
      BY <2>1 DEF Row
    <2> QED
      BY <1>2, <2>2 DEF TypeOK, DeadlinePasses
  <1>3. CASE NewYear
    BY <1>3, ConstantsAssumption DEF TypeOK, NewYear, db, Year
  <1>4. CASE UNCHANGED vars
    BY <1>4 DEF TypeOK, vars
  <1>5. ASSUME NEW c \in Slot, RoomsChange(c)
        PROVE  TypeOK'
    <2>1. rooms' \in [Slot -> RoomCounts]
      BY <1>5 DEF TypeOK, RoomsChange
    <2> QED
      BY <1>5, <2>1 DEF TypeOK, RoomsChange, db
  <1> QED
    BY <1>1, <1>2, <1>3, <1>4, <1>5

\* Steps that write no table, apart from a deadline that passes, keep the
\* transactions that stay open as they are.
LEMMA OtherStepsInv ==
    ASSUME SnapshotInv,
           \/ \E p \in Proc : Rollback(p)
           \/ \E c \in Slot : RoomsChange(c)
           \/ \E r \in Res : DeadlinePasses(r)
           \/ NewYear
           \/ UNCHANGED vars
    PROVE  SnapshotInv' /\ UNCHANGED usage
             /\ \A r \in Res : /\ (res[r] = NoRow <=> res'[r] = NoRow)
                               /\ res[r] # NoRow =>
                                    /\ res'[r].status = res[r].status
                                    /\ res'[r].user = res[r].user
                                    /\ res'[r].year = res[r].year
                                    /\ res'[r].direct = res[r].direct
  <1> DEFINE SameRows == \A r \in Res :
                /\ (res[r] = NoRow <=> res'[r] = NoRow)
                /\ res[r] # NoRow => /\ res'[r].status = res[r].status
                                     /\ res'[r].user = res[r].user
                                     /\ res'[r].year = res[r].year
                                     /\ res'[r].direct = res[r].direct
  <1>1. UNCHANGED usage /\ TypeOK'
    <2>1. TypeOK'
      BY OtherStepsType DEF SnapshotInv
    <2>2. UNCHANGED usage
      BY DEF Rollback, RoomsChange, DeadlinePasses, NewYear, vars, db
    <2> QED
      BY <2>1, <2>2
  <1>2. SameRows
    <2>1. CASE UNCHANGED res
      BY <2>1
    <2>2. CASE \E x \in Res : DeadlinePasses(x)
      <3> PICK x \in Res : DeadlinePasses(x)
        BY <2>2
      <3>1. res[x] \in Row /\ res' = [res EXCEPT ![x].overdue = TRUE]
        BY DEF DeadlinePasses, Pending, SnapshotInv, TypeOK, NoRow
      <3>2. res'[x] = [res[x] EXCEPT !.overdue = TRUE] /\ res[x] # NoRow
        BY <3>1 DEF SnapshotInv, TypeOK, DeadlinePasses, Pending, NoRow
      <3>3. /\ res'[x].status = res[x].status /\ res'[x].user = res[x].user
            /\ res'[x].year = res[x].year /\ res'[x].direct = res[x].direct
        BY <3>1, <3>2 DEF Row
      <3>4. res'[x] # NoRow
        BY <3>1, <3>3 DEF Row, NoRow, Status, Final
      <3>5. \A r \in Res : r # x => res'[r] = res[r]
        BY <3>1 DEF SnapshotInv, TypeOK
      <3> QED
        BY <3>2, <3>3, <3>4, <3>5
    <2> QED
      BY <2>1, <2>2 DEF Rollback, RoomsChange, NewYear, vars, db
  <1> HIDE DEF SameRows
  <1>3. \A r \in Res : Pending(r) <=> Pending(r)'
    BY <1>2 DEF SameRows, Pending, NoRow
  <1>4. PendingNotDirect'
    BY <1>2, <1>3 DEF SameRows, PendingNotDirect, SnapshotInv, Pending, NoRow
  <1>5. SnapshotsHold'
    <2> SUFFICES ASSUME NEW q \in Proc, txn'[q].open
                 PROVE  WellFormed(txn[q])' /\ (~stale'[q] => UpToDate(txn[q])')
      BY DEF SnapshotsHold
    <2>1. txn'[q] = txn[q] /\ stale'[q] = stale[q]
      BY DEF Rollback, RoomsChange, DeadlinePasses, NewYear, vars, SnapshotInv, TypeOK, NoTxn
    <2>2. WellFormed(txn[q]) /\ (~stale[q] => UpToDate(txn[q]))
      BY <2>1 DEF SnapshotInv, SnapshotsHold
    <2>3. Updates(txn[q])' = Updates(txn[q]) /\ Counted(txn[q])' = Counted(txn[q])
      BY <2>1 DEF Updates, Counted
    <2>4. \A u \in User : ApprovedBy(txn[q], u)' = ApprovedBy(txn[q], u)
      BY <1>2, <2>1, <2>2 DEF ApprovedBy, SameRows, WellFormed, Updates, Keep
    <2>5. WellFormed(txn[q])'
      BY <1>2, <2>1, <2>2, <2>3, <2>4 DEF WellFormed, SameRows, Updates
    <2>6. ~stale'[q] => UpToDate(txn[q])'
      BY <1>1, <1>3, <2>1, <2>2, <2>3 DEF UpToDate, Updates
    <2> QED
      BY <2>5, <2>6
  <1> QED
    BY <1>1, <1>2, <1>4, <1>5 DEF SameRows, SnapshotInv

-----------------------------------------------------------------------------
(* Theorems.                                                               *)

LEMMA InitInv == Init => UsageInv
  <1> SUFFICES ASSUME Init
               PROVE  UsageInv
    OBVIOUS
  <1>1. TypeOK
    BY ConstantsAssumption DEF Init, TypeOK, Year
  <1>2. SnapshotsHold /\ PendingNotDirect
    BY DEF Init, SnapshotsHold, PendingNotDirect, Pending, NoTxn, NoRow
  <1>3. UsageCountsApprovals
    <2> SUFFICES ASSUME NEW u \in User, NEW y \in Year
                 PROVE  usage[u][y] = Cardinality(Approvals(u, y))
      BY DEF UsageCountsApprovals
    <2>1. Approvals(u, y) = {}
      BY DEF Approvals, Init, NoRow
    <2> QED
      BY <2>1, FS_EmptySet DEF Init
  <1> QED
    BY <1>1, <1>2, <1>3 DEF UsageInv, SnapshotInv

\* The handlers only read: a step that opens a transaction changes no table.
LEMMA RequestInv ==
    ASSUME SnapshotInv, NEW p \in Proc, Request(p) \/ ExpirePending
    PROVE  SnapshotInv' /\ UNCHANGED <<res, usage>>
  BY CreateReservationInv, AdminCreateReservationInv, ReviewPlanRequestInv,
     ReviewReservationInv, CancelReservationInv, ExpirePendingInv DEF Request

LEMMA NextInv == SnapshotInv /\ [Next]_vars => SnapshotInv'
  <1> SUFFICES ASSUME SnapshotInv, [Next]_vars
               PROVE  SnapshotInv'
    OBVIOUS
  <1>1. ASSUME NEW p \in Worker, Request(p)
        PROVE  SnapshotInv'
    BY <1>1, RequestInv DEF Proc
  <1>2. CASE ExpirePending
    BY <1>2, ExpirePendingInv
  <1>3. ASSUME NEW p \in Proc, Commit(p)
        PROVE  SnapshotInv'
    BY <1>3, CommitInv
  <1>4. CASE \/ \E p \in Proc : Rollback(p)
             \/ \E c \in Slot : RoomsChange(c)
             \/ \E r \in Res : DeadlinePasses(r)
             \/ NewYear
             \/ UNCHANGED vars
    BY <1>4, OtherStepsInv
  <1> QED
    BY <1>1, <1>2, <1>3, <1>4 DEF Next

\* Every variable keeps its type, and every open transaction stays well formed,
\* on a database with or without first-updater-wins.
THEOREM SnapshotsCorrect == Spec => []SnapshotInv
  <1>1. Init => SnapshotInv
    BY InitInv DEF UsageInv
  <1> QED
    BY <1>1, NextInv, PTL DEF Spec

\* Type correctness of the tables and the open transactions.
THEOREM TypeCorrect == Spec => []TypeOK
  <1>1. SnapshotInv => TypeOK
    BY DEF SnapshotInv
  <1> QED
    BY <1>1, SnapshotsCorrect, PTL

\* Under first-updater-wins a transaction that commits is up to date.
LEMMA CommitUpToDate ==
    ASSUME FirstUpdaterWins, SnapshotInv, NEW p \in Proc, Commit(p)
    PROVE  WellFormed(txn[p]) /\ UpToDate(txn[p])
  BY DEF Commit, Conflict, SnapshotInv, SnapshotsHold

\* Under first-updater-wins a reservation that was approved, rejected,
\* cancelled or expired keeps that status for ever, however many reviewers,
\* owners and runs of the job raced for it.
THEOREM DecisionsAreFinal ==
    ASSUME FirstUpdaterWins
    PROVE  Spec => FinalStatusesAreFinal
  <1> DEFINE Kept == \A r \in Res : res[r].status \in Final => res'[r].status = res[r].status
  <1>1. SnapshotInv /\ [Next]_vars => [Kept]_vars
    <2> SUFFICES ASSUME SnapshotInv, [Next]_vars, NEW r \in Res, res[r].status \in Final
                 PROVE  res'[r].status = res[r].status
      OBVIOUS
    <2>1. ASSUME NEW p \in Worker, Request(p)
          PROVE  UNCHANGED res
      BY <2>1, RequestInv DEF Proc
    <2>2. CASE ExpirePending
      BY <2>2, ExpirePendingInv
    <2>3. ASSUME NEW p \in Proc, Commit(p)
          PROVE  res'[r].status = res[r].status
      <3>1. r \notin Updates(txn[p])
        BY <2>3, CommitUpToDate DEF UpToDate, Pending, Final
      <3> QED
        BY <2>3, <3>1, CommitRows DEF NoRow, Final
    <2>4. CASE \/ \E p \in Proc : Rollback(p)
               \/ \E c \in Slot : RoomsChange(c)
               \/ \E x \in Res : DeadlinePasses(x)
               \/ NewYear
               \/ UNCHANGED vars
      BY <2>4, OtherStepsInv DEF NoRow, Final
    <2> QED
      BY <2>1, <2>2, <2>3, <2>4 DEF Next
  <1> QED
    BY <1>1, SnapshotsCorrect, PTL DEF Spec, FinalStatusesAreFinal

-----------------------------------------------------------------------------
(* The usage counters.                                                     *)

\* The approvals counted for u in y after a commit are those before it and,
\* when y is the year of the commit, those it decides.
LEMMA CommitApprovals ==
    ASSUME FirstUpdaterWins, SnapshotInv, NEW p \in Proc, Commit(p),
           NEW u \in User, NEW y \in Year
    PROVE  Approvals(u, y)' = Approvals(u, y) \cup
                              (IF y = txn[p].year THEN ApprovedBy(txn[p], u) ELSE {})
  <1> DEFINE t == txn[p]
  <1>1. WellFormed(t) /\ UpToDate(t)
    BY CommitUpToDate
  <1> SUFFICES ASSUME NEW r \in Res
               PROVE  r \in Approvals(u, y)' <=>
                        r \in Approvals(u, y) \/ (y = t.year /\ r \in ApprovedBy(t, u))
    BY DEF Approvals, ApprovedBy
  <1>2. CASE res[r] = NoRow
    <2>1. r \notin Approvals(u, y)
      BY <1>2 DEF Approvals, NoRow
    <2>2. r \notin ApprovedBy(t, u)
      BY <1>1, <1>2 DEF ApprovedBy, WellFormed, Updates, Keep
    <2>3. res'[r] = NoRow \/ (t.new # NoRow /\ res'[r] = t.new)
      BY <1>2, CommitRows DEF Row, NoRow, Status, Final
    <2>4. r \notin Approvals(u, y)'
      BY <1>1, <2>3 DEF Approvals, WellFormed, NoRow
    <2> QED
      BY <2>1, <2>2, <2>4
  <1>3. CASE res[r] # NoRow /\ r \notin Updates(t)
    <2>1. res'[r] = res[r]
      BY <1>3, CommitRows
    <2>2. r \notin ApprovedBy(t, u)
      BY <1>3 DEF ApprovedBy, Updates, Keep
    <2> QED
      BY <2>1, <2>2 DEF Approvals
  <1>4. CASE res[r] # NoRow /\ r \in Updates(t)
    <2>1. Pending(r)
      BY <1>1, <1>4 DEF UpToDate
    <2>2. r \notin Approvals(u, y) /\ ~res[r].direct
      BY <2>1 DEF Approvals, Pending, SnapshotInv, PendingNotDirect
    <2>3. /\ res'[r].status = t.decide[r] /\ res'[r].user = res[r].user
          /\ ~res'[r].direct
          /\ t.reviewed => res'[r].year = t.year
      BY <1>4, <2>2, CommitRows
    <2>4. t.decide[r] = "APPROVED" => t.reviewed
      BY <1>1 DEF WellFormed
    <2> QED
      BY <2>2, <2>3, <2>4 DEF Approvals, ApprovedBy
  <1> QED
    BY <1>2, <1>3, <1>4

\* The counter that a commit writes for u and y is increased by the approvals it
\* decides there.
LEMMA CommitUsage ==
    ASSUME FirstUpdaterWins, SnapshotInv, NEW p \in Proc, Commit(p),
           NEW u \in User, NEW y \in Year
    PROVE  usage'[u][y] = usage[u][y] +
              (IF y = txn[p].year THEN Cardinality(ApprovedBy(txn[p], u)) ELSE 0)
  <1> DEFINE t == txn[p]
             k == Cardinality(ApprovedBy(t, u))
  <1>1. /\ t \in Txn /\ t.wins[u] = k /\ ~UsageClash(t)
        /\ usage'[u] = NewUsage(u, t)
        /\ u \in Counted(t) /\ t.seen[u] > 0 => usage[u][t.year] = t.seen[u]
    <2>1. WellFormed(t) /\ UpToDate(t)
      BY CommitUpToDate
    <2>2. t \in Txn
      BY DEF Commit, SnapshotInv, TypeOK, NoTxn
    <2>3. ~UsageClash(t) /\ usage'[u] = NewUsage(u, t)
      BY DEF Commit
    <2> QED
      BY <2>1, <2>2, <2>3 DEF WellFormed, UpToDate
  <1>2. t.wins[u] \in Nat /\ t.seen[u] \in Nat /\ t.year \in Year
    BY <1>1 DEF Txn
  <1>3. usage[u] \in [Year -> Nat]
    BY DEF SnapshotInv, TypeOK
  <1>4. CASE t.wins[u] = 0
    BY <1>1, <1>3, <1>4 DEF NewUsage
  <1>5. CASE t.wins[u] # 0
    <2>1. u \in Counted(t)
      BY <1>2, <1>5 DEF Counted
    <2>2. usage'[u] = [usage[u] EXCEPT ![t.year] = t.seen[u] + t.wins[u]]
      BY <1>1, <1>5 DEF NewUsage
    <2>3. usage[u][t.year] = t.seen[u]
      BY <1>1, <1>2, <1>3, <2>1 DEF UsageClash
    <2> HIDE DEF t, k
    <2> QED
      BY <1>1, <1>2, <1>3, <2>2, <2>3 DEF t, k
  <1> QED
    BY <1>4, <1>5

LEMMA CommitUsageCounts ==
    ASSUME FirstUpdaterWins, UsageInv, NEW p \in Proc, Commit(p)
    PROVE  UsageCountsApprovals'
  <1> SUFFICES ASSUME NEW u \in User, NEW y \in Year
               PROVE  usage'[u][y] = Cardinality(Approvals(u, y)')
    BY DEF UsageCountsApprovals
  <1> DEFINE t == txn[p]
             A == Approvals(u, y)
             B == IF y = t.year THEN ApprovedBy(t, u) ELSE {}
  <1>1. SnapshotInv /\ usage[u][y] = Cardinality(A)
    BY DEF UsageInv, UsageCountsApprovals
  <1>2. Approvals(u, y)' = A \cup B
    BY <1>1, CommitApprovals
  <1>3. usage'[u][y] = Cardinality(A) + (IF y = t.year THEN Cardinality(ApprovedBy(t, u)) ELSE 0)
    BY <1>1, CommitUsage
  <1>4. A \cap B = {}
    <2>1. \A r \in B : Pending(r)
      BY <1>1, CommitUpToDate DEF ApprovedBy, UpToDate, Updates, Keep
    <2> QED
      BY <2>1 DEF Approvals, Pending
  <1>5. A \in SUBSET Res /\ B \in SUBSET Res
    BY DEF Approvals, ApprovedBy
  <1> HIDE DEF A
  <1>6. Cardinality(B) = IF y = t.year THEN Cardinality(ApprovedBy(t, u)) ELSE 0
    BY FS_EmptySet
  <1> HIDE DEF B
  <1>7. IsFiniteSet(A) /\ IsFiniteSet(B)
    BY <1>5, ReservationsFinite
  <1>8. Cardinality(A \cup B) = Cardinality(A) + Cardinality(B) - Cardinality(A \cap B)
    BY <1>7, FS_Union
  <1>9. Cardinality(A \cap B) = 0 /\ Cardinality(A) \in Nat /\ Cardinality(B) \in Nat
    BY <1>4, <1>5, ReservationsFinite, FS_EmptySet
  <1> QED
    BY <1>2, <1>3, <1>6, <1>8, <1>9

LEMMA UsageStep ==
    ASSUME FirstUpdaterWins, UsageInv, [Next]_vars
    PROVE  UsageInv'
  <1>1. SnapshotInv /\ SnapshotInv'
    BY NextInv DEF UsageInv
  <1>2. ASSUME UNCHANGED usage,
               \A r \in Res : /\ (res[r] = NoRow <=> res'[r] = NoRow)
                              /\ res[r] # NoRow => /\ res'[r].status = res[r].status
                                                   /\ res'[r].user = res[r].user
                                                   /\ res'[r].year = res[r].year
                                                   /\ res'[r].direct = res[r].direct
        PROVE  UsageCountsApprovals'
    <2>1. ASSUME NEW u \in User, NEW y \in Year
          PROVE  Approvals(u, y)' = Approvals(u, y)
      <3>1. ASSUME NEW r \in Res
            PROVE  r \in Approvals(u, y)' <=> r \in Approvals(u, y)
        <4>1. CASE res[r] = NoRow
          <5>1. res'[r] = NoRow
            BY <1>2, <4>1
          <5> QED
            BY <4>1, <5>1 DEF Approvals, NoRow
        <4>2. CASE res[r] # NoRow
          <5>1. /\ res'[r].status = res[r].status
                /\ res'[r].user = res[r].user
                /\ res'[r].year = res[r].year
                /\ res'[r].direct = res[r].direct
            BY <1>2, <4>2
          <5> QED
            BY <5>1, Zenon DEF Approvals
        <4> QED
          BY <4>1, <4>2
      <3>2. Approvals(u, y) \subseteq Res /\ Approvals(u, y)' \subseteq Res
        BY DEF Approvals, Res
      <3> QED
        BY <3>1, <3>2
    <2> QED
      BY <1>2, <2>1 DEF UsageCountsApprovals, UsageInv
  <1>3. ASSUME NEW p \in Worker, Request(p)
        PROVE  UsageCountsApprovals'
    BY <1>1, <1>2, <1>3, RequestInv DEF Proc
  <1>4. ASSUME ExpirePending
        PROVE  UsageCountsApprovals'
    <2>1. UNCHANGED <<res, usage>>
      BY <1>1, <1>4, ExpirePendingInv
    <2> QED
      BY <1>2, <2>1
  <1>5. ASSUME NEW p \in Proc, Commit(p)
        PROVE  UsageCountsApprovals'
    BY <1>5, CommitUsageCounts
  <1>6. ASSUME \/ \E p \in Proc : Rollback(p)
               \/ \E c \in Slot : RoomsChange(c)
               \/ \E r \in Res : DeadlinePasses(r)
               \/ NewYear
               \/ UNCHANGED vars
        PROVE  UsageCountsApprovals'
    <2>1. /\ UNCHANGED usage
          /\ \A r \in Res : /\ (res[r] = NoRow <=> res'[r] = NoRow)
                            /\ res[r] # NoRow => /\ res'[r].status = res[r].status
                                                 /\ res'[r].user = res[r].user
                                                 /\ res'[r].year = res[r].year
                                                 /\ res'[r].direct = res[r].direct
      BY <1>1, <1>6, OtherStepsInv
    <2> QED
      BY <1>2, <2>1
  <1>7. UsageCountsApprovals'
    BY <1>3, <1>4, <1>5, <1>6 DEF Next
  <1> QED
    BY <1>1, <1>7 DEF UsageInv

\* Under first-updater-wins the counter of every employee and year is the
\* number of their reservations that a review or the job approved in it: no
\* use is lost to a race, none is counted twice, and none stays counted for a
\* reservation that ended otherwise.
THEOREM UsageCorrect ==
    ASSUME FirstUpdaterWins
    PROVE  Spec => []UsageCountsApprovals
  <1>1. UsageInv => UsageCountsApprovals
    BY DEF UsageInv
  <1>2. UsageInv /\ [Next]_vars => UsageInv'
    BY UsageStep
  <1> QED
    BY InitInv, <1>1, <1>2, PTL DEF Spec

-----------------------------------------------------------------------------
(* How far the availability check can be missed.                           *)

\* The bound for one slot, with the reservations that are about to be inserted.
Bounded(s) ==
    Cardinality(Checked(s)) + Cardinality(Booking(s)) < MaxRooms + Cardinality(Worker)

\* Reservations and transactions are finitely many.
LEMMA BookingFinite ==
    ASSUME NEW s
    PROVE  /\ IsFiniteSet(Checked(s)) /\ Cardinality(Checked(s)) \in Nat
           /\ IsFiniteSet(Booking(s)) /\ Cardinality(Booking(s)) \in Nat
           /\ Cardinality(Worker) \in Nat /\ MaxRooms \in Nat
  <1>1. IsFiniteSet(Worker) /\ MaxRooms \in Nat
    BY ConstantsAssumption
  <1>2. IsFiniteSet(Proc)
    BY <1>1, FS_AddElement DEF Proc
  <1>3. IsFiniteSet(Booking(s))
    BY <1>2, FS_Subset DEF Booking
  <1>4. Checked(s) \in SUBSET Res
    BY DEF Checked
  <1> QED
    BY <1>1, <1>3, <1>4, ReservationsFinite, FS_CardinalityType

\* A step keeps the bound of a stay when no reservation and no transaction is
\* added to it.
LEMMA FewerBooked ==
    ASSUME NEW s, Bounded(s), Checked(s)' \subseteq Checked(s), Booking(s)' \subseteq Booking(s)
    PROVE  Bounded(s)'
  <1>1. /\ Cardinality(Checked(s)') <= Cardinality(Checked(s))
        /\ Cardinality(Booking(s)') <= Cardinality(Booking(s))
    BY BookingFinite, FS_Subset
  <1>2. /\ Cardinality(Checked(s)') \in Nat /\ Cardinality(Booking(s)') \in Nat
    <2>1. /\ IsFiniteSet(Checked(s)') /\ IsFiniteSet(Booking(s)')
      BY BookingFinite, FS_Subset
    <2> QED
      BY <2>1, FS_CardinalityType
  <1> QED
    BY <1>1, <1>2, BookingFinite DEF Bounded

\* A slot has no more checked reservations than reserved ones, and never more
\* rooms than MaxRooms.
LEMMA CheckedFits ==
    ASSUME TypeOK, NEW s \in Slot, HasRoom(s)
    PROVE  Cardinality(Checked(s)) < MaxRooms
  <1> DEFINE All == {r \in Res : res[r].status \in Live /\ res[r].slot = s}
  <1>1. Reserved(s) = Cardinality(All)
    BY DEF Reserved
  <1>2. All \in SUBSET Res /\ Checked(s) \subseteq All
    BY DEF Checked
  <1> HIDE DEF All
  <1>3. /\ Cardinality(Checked(s)) <= Cardinality(All) /\ Cardinality(All) \in Nat
    BY <1>2, ReservationsFinite, FS_Subset
  <1>4. rooms[s] \in Nat /\ rooms[s] <= MaxRooms /\ MaxRooms \in Nat
    <2>1. rooms[s] \in RoomCounts
      BY DEF TypeOK
    <2>2. MaxRooms \in Nat /\ RoomCounts \subseteq 0 .. MaxRooms
      BY ConstantsAssumption
    <2>3. rooms[s] \in 0 .. MaxRooms
      BY <2>1, <2>2
    <2> QED
      BY <2>2, <2>3
  <1> QED
    BY <1>1, <1>3, <1>4, BookingFinite DEF HasRoom

\* A request that will insert a reservation saw a room free for it, unless it
\* approves a plan request.
LEMMA RequestSawRoom ==
    ASSUME TypeOK, NEW p \in Worker, Request(p)
    PROVE  /\ UNCHANGED res
           /\ \A q \in Proc \ {p} : txn'[q] = txn[q]
           /\ txn'[p].new = NoRow \/ txn'[p].new.request \/ HasRoom(txn'[p].new.slot)
  <1> DEFINE Opens(w) == UNCHANGED res /\ txn' = [txn EXCEPT ![p] = w]
  <1>0. \A w : Begin(p, w) => Opens(w)
    BY DEF Begin, db
  <1>1. p \in Proc /\ DOMAIN txn = Proc
    BY DEF Proc, TypeOK
  <1>2. ASSUME NEW w, Begin(p, w), w.new = NoRow \/ w.new.request \/ HasRoom(w.new.slot)
        PROVE  /\ UNCHANGED res
               /\ \A q \in Proc \ {p} : txn'[q] = txn[q]
               /\ txn'[p].new = NoRow \/ txn'[p].new.request \/ HasRoom(txn'[p].new.slot)
    <2>1. Opens(w)
      BY <1>0, <1>2
    <2>2. txn'[p] = w /\ \A q \in Proc \ {p} : txn'[q] = txn[q]
      BY <1>1, <2>1
    <2> QED
      BY <1>2, <2>1, <2>2
  <1> HIDE DEF Opens
  <1> DEFINE Sane(w) == w.new = NoRow \/ w.new.request \/ HasRoom(w.new.slot)
  <1>3. ASSUME NEW u \in User, NEW s \in Slot, NEW plan \in BOOLEAN,
               CreateReservation(p, u, s, plan)
        PROVE  \E w : Begin(p, w) /\ Sane(w)
    <2> DEFINE row(e) == [status |-> "PENDING", user |-> u, slot |-> s, elig |-> e,
                          discount |-> IF e # NoElig THEN 0
                                       ELSE CalcDiscountPercent(UsageCount(u)),
                          year |-> NoYear, overdue |-> FALSE, direct |-> FALSE,
                          request |-> FALSE]
               w(e) == [NoWrites EXCEPT !.new = row(e), !.use = {e} \ {NoElig},
                                        !.note = "NEW_RESERVATION"]
    <2>1. HasRoom(s) /\ \E e : Begin(p, w(e))
      BY <1>3 DEF CreateReservation
    <2>2. \A e : row(e).slot = s
      OBVIOUS
    <2> HIDE DEF row
    <2>3. \A e : w(e).new = row(e)
      BY DEF NoWrites
    <2> HIDE DEF w
    <2> QED
      BY <2>1, <2>2, <2>3
  <1>4. ASSUME NEW u \in User, NEW s \in Slot, NEW st \in AdminStatus,
               AdminCreateReservation(p, u, s, st)
        PROVE  \E w : Begin(p, w) /\ Sane(w)
    <2> DEFINE row == [status |-> st, user |-> u, slot |-> s, elig |-> NoElig,
                       discount |-> 0, year |-> year, overdue |-> TRUE,
                       direct |-> st = "APPROVED", request |-> FALSE]
               w == [NoWrites EXCEPT !.new = row]
    <2>1. HasRoom(s) /\ Begin(p, w)
      BY <1>4 DEF AdminCreateReservation
    <2>2. row.slot = s
      OBVIOUS
    <2> HIDE DEF row
    <2>3. w.new = row
      BY DEF NoWrites
    <2> HIDE DEF w
    <2> QED
      BY <2>1, <2>2, <2>3
  <1>5. ASSUME NEW r \in Res, NEW a, NEW plan, ReviewReservation(p, r, a, plan)
        PROVE  \E w : Begin(p, w) /\ Sane(w)
    <2> DEFINE row == res[r]
               removed == plan /\ row.elig # NoElig
               percent == CalcDiscountPercent(UsageCount(row.user))
               w == [NoWrites EXCEPT
                       !.decide[r] = IF a = "APPROVE" THEN "APPROVED" ELSE "REJECTED",
                       !.discount[r] = IF Recalculates(row, a, removed)
                                           /\ percent # row.discount THEN percent ELSE Same,
                       !.dropElig = Detached(r, removed),
                       !.free = IF removed THEN {row.elig} ELSE {},
                       !.wins[row.user] = IF a = "APPROVE" THEN 1 ELSE 0,
                       !.seen[row.user] = IF a = "APPROVE" THEN UsageCount(row.user) ELSE 0,
                       !.reviewed = TRUE,
                       !.note = a]
    <2>1. Begin(p, w)
      BY <1>5 DEF ReviewReservation
    <2> HIDE DEF row, removed, percent
    <2>2. w.new = NoRow
      BY DEF NoWrites
    <2> HIDE DEF w
    <2> QED
      BY <2>1, <2>2
  <1>6. ASSUME NEW r \in Res, CancelReservation(p, r)
        PROVE  \E w : Begin(p, w) /\ Sane(w)
    <2> DEFINE w == [NoWrites EXCEPT !.decide[r] = "CANCELLED",
                                     !.note = "RESERVATION_CANCELLED"]
    <2>1. w.new = NoRow
      BY DEF NoWrites
    <2>2. Begin(p, w)
      BY <1>6 DEF CancelReservation
    <2> HIDE DEF w
    <2> QED
      BY <2>1, <2>2
  <1>7. ASSUME NEW u \in User, NEW s \in Slot, NEW e, ReviewPlanRequest(p, u, s, e)
        PROVE  \E w : Begin(p, w) /\ Sane(w)
    <2> DEFINE row == [status |-> "APPROVED", user |-> u, slot |-> s, elig |-> e,
                       discount |-> 0, year |-> year, overdue |-> TRUE,
                       direct |-> TRUE, request |-> TRUE]
               w == [NoWrites EXCEPT !.new = row,
                                     !.use = {x \in Elig : x = e /\ ~used[x]}]
    <2>1. Begin(p, w)
      BY <1>7 DEF ReviewPlanRequest
    <2>2. row.request
      OBVIOUS
    <2> HIDE DEF row
    <2>3. w.new = row
      BY DEF NoWrites
    <2> HIDE DEF w
    <2> QED
      BY <2>1, <2>2, <2>3
  <1>8. \E w : Begin(p, w) /\ (w.new = NoRow \/ w.new.request \/ HasRoom(w.new.slot))
    BY <1>3, <1>4, <1>5, <1>6, <1>7 DEF Request
  <1> QED
    BY <1>2, <1>8

LEMMA RequestBounded ==
    ASSUME TypeOK, BookingInv, NEW p \in Worker, Request(p), NEW s \in Slot
    PROVE  Bounded(s)'
  <1>1. UNCHANGED res /\ \A q \in Proc \ {p} : txn'[q] = txn[q]
    BY RequestSawRoom
  <1>2. Checked(s)' = Checked(s)
    BY <1>1 DEF Checked
  <1>3. Bounded(s)
    BY DEF BookingInv, Bounded
  <1>4. CASE p \notin Booking(s)'
    <2>1. Booking(s)' \subseteq Booking(s)
      BY <1>1, <1>4 DEF Booking
    <2> QED
      BY <1>2, <1>3, <2>1, FewerBooked
  <1>5. CASE p \in Booking(s)'
    <2>1. Cardinality(Checked(s)) < MaxRooms
      BY <1>5, RequestSawRoom, CheckedFits DEF Booking
    <2>2. Job \notin Booking(s)'
      <3>1. p # Job /\ Job \in Proc
        BY ConstantsAssumption DEF Proc
      <3> QED
        BY <1>1, <3>1 DEF Booking, BookingInv
    <2>3. Booking(s)' \subseteq Worker
      BY <2>2 DEF Booking, Proc
    <2>4. Cardinality(Booking(s)') <= Cardinality(Worker) /\ Cardinality(Booking(s)') \in Nat
      BY <2>3, ConstantsAssumption, FS_Subset, FS_CardinalityType
    <2> QED
      BY <1>2, <2>1, <2>4, BookingFinite DEF Bounded
  <1> QED
    BY <1>4, <1>5

\* Under first-updater-wins a commit adds one row at most to those that passed the
\* check and hold a room: what it decides was pending, and held its room before.
LEMMA CommitChecked ==
    ASSUME FirstUpdaterWins, SnapshotInv, NEW p \in Proc, Commit(p), NEW s \in Slot
    PROVE  \E n : Checked(s)' \subseteq Checked(s) \cup (IF p \in Booking(s) THEN {n} ELSE {})
  <1> DEFINE t == txn[p]
  <1>1. WellFormed(t) /\ UpToDate(t) /\ t.open
    BY CommitUpToDate DEF Commit
  <1>2. PICK n \in NewIds(t) :
          res' = [x \in Res |-> IF x = n THEN t.new ELSE Updated(x, t)]
    BY DEF Commit
  <1>3. ASSUME NEW r \in Checked(s)', r = n
        PROVE  p \in Booking(s)
    <2>1. r \in Res /\ res'[r] = t.new /\ t.new.status \in Live /\ t.new.slot = s
          /\ ~t.new.request
      BY <1>2, <1>3 DEF Checked
    <2>2. t.new # NoRow
      BY <1>3, <2>1 DEF NewIds, Res
    <2> QED
      BY <1>1, <2>1, <2>2 DEF Booking
  <1>4. ASSUME NEW r \in Checked(s)', r # n
        PROVE  r \in Checked(s)
    <2>1. /\ r \in Res /\ res'[r] = Updated(r, t)
          /\ res'[r].status \in Live /\ res'[r].slot = s /\ ~res'[r].request
      BY <1>2, <1>4 DEF Checked
    <2>2. CASE t.decide[r] = Keep
      BY <2>1, <2>2 DEF Updated, Checked
    <2>3. CASE t.decide[r] # Keep
      <3>1. Pending(r)
        BY <1>1, <2>1, <2>3 DEF UpToDate, Updates
      <3>2. res[r] \in Row
        BY <2>1, <3>1 DEF SnapshotInv, TypeOK, Pending, NoRow
      <3>3. res'[r].slot = res[r].slot /\ res'[r].request = res[r].request
        BY <2>1, <2>3, <3>2 DEF Updated, Row
      <3> QED
        BY <2>1, <3>1, <3>3 DEF Checked, Pending, Live
    <2> QED
      BY <2>2, <2>3
  <1> QED
    BY <1>3, <1>4

LEMMA CommitBounded ==
    ASSUME FirstUpdaterWins, SnapshotInv, BookingInv, NEW p \in Proc, Commit(p), NEW s \in Slot
    PROVE  Bounded(s)'
  <1>1. Bounded(s)
    BY DEF BookingInv, Bounded
  <1>2. Booking(s)' = Booking(s) \ {p}
    <2>1. ~txn'[p].open /\ \A q \in Proc \ {p} : txn'[q] = txn[q]
      BY DEF Commit, SnapshotInv, TypeOK, NoTxn
    <2> QED
      BY <2>1 DEF Booking
  <1>3. PICK n : Checked(s)' \subseteq Checked(s) \cup (IF p \in Booking(s) THEN {n} ELSE {})
    BY CommitChecked
  <1>4. CASE p \notin Booking(s)
    BY <1>1, <1>2, <1>3, <1>4, FewerBooked
  <1>5. CASE p \in Booking(s)
    <2>1. Cardinality(Booking(s)') = Cardinality(Booking(s)) - 1
      BY <1>2, <1>5, BookingFinite, FS_RemoveElement
    <2>2. /\ IsFiniteSet(Checked(s) \cup {n})
          /\ Cardinality(Checked(s) \cup {n}) <= Cardinality(Checked(s)) + 1
      BY BookingFinite, FS_AddElement
    <2>3. /\ Cardinality(Checked(s)') <= Cardinality(Checked(s)) + 1
          /\ Cardinality(Checked(s)') \in Nat
      <3>1. Checked(s)' \subseteq Checked(s) \cup {n}
        BY <1>3, <1>5
      <3>2. /\ IsFiniteSet(Checked(s)')
            /\ Cardinality(Checked(s)') <= Cardinality(Checked(s) \cup {n})
        BY <2>2, <3>1, FS_Subset
      <3>3. Cardinality(Checked(s)') \in Nat /\ Cardinality(Checked(s) \cup {n}) \in Nat
        BY <2>2, <3>2, FS_CardinalityType
      <3> QED
        BY <2>2, <3>2, <3>3, BookingFinite
    <2> QED
      BY <1>1, <2>1, <2>3, BookingFinite DEF Bounded
  <1> QED
    BY <1>4, <1>5

\* All other steps leave the rows that passed the check, and open no transaction that
\* inserts one.
LEMMA QuietBounded ==
    ASSUME TypeOK, BookingInv, NEW s \in Slot,
           \/ ExpirePending
           \/ \E p \in Proc : Rollback(p)
           \/ \E c \in Slot : RoomsChange(c)
           \/ \E r \in Res : DeadlinePasses(r)
           \/ NewYear
           \/ UNCHANGED vars
    PROVE  Bounded(s)'
  <1>1. Bounded(s)
    BY DEF BookingInv, Bounded
  <1>2. ASSUME ExpirePending
        PROVE  UNCHANGED res /\ Booking(s)' \subseteq Booking(s)
    <2>1. PICK order \in Orders, winner \in [Groups -> Overdue] :
             Begin(Job, RunWrites(order, winner))
      BY <1>2, ExpirePendingWrites
    <2>2. RunWrites(order, winner).new = NoRow
      BY DEF RunWrites, NoWrites
    <2>3. PICK w : w = RunWrites(order, winner)
      OBVIOUS
    <2> QED
      BY <2>1, <2>2, <2>3 DEF Begin, db, Booking, TypeOK
  <1>3. ASSUME NEW p \in Proc, Rollback(p)
        PROVE  UNCHANGED res /\ Booking(s)' \subseteq Booking(s)
    BY <1>3 DEF Rollback, db, Booking, TypeOK, NoTxn
  <1>4. CASE NewYear \/ (\E c \in Slot : RoomsChange(c)) \/ UNCHANGED vars
    BY <1>1, <1>4, FewerBooked DEF NewYear, RoomsChange, vars, db, Checked, Booking
  <1>5. ASSUME NEW x \in Res, DeadlinePasses(x)
        PROVE  Checked(s)' \subseteq Checked(s) /\ Booking(s)' \subseteq Booking(s)
    <2>1. res[x] \in Row /\ res' = [res EXCEPT ![x].overdue = TRUE]
      BY <1>5 DEF DeadlinePasses, Pending, TypeOK, NoRow
    <2>2. \A r \in Res \ {x} : res'[r] = res[r]
      BY <2>1 DEF TypeOK
    <2>3. res'[x] = [res[x] EXCEPT !.overdue = TRUE]
      BY <2>1 DEF TypeOK
    <2>4. res'[x].status = res[x].status /\ res'[x].slot = res[x].slot
          /\ res'[x].request = res[x].request
      BY <2>1, <2>3 DEF Row
    <2>5. Checked(s)' \subseteq Checked(s)
      BY <2>2, <2>4 DEF Checked
    <2> QED
      BY <1>5, <2>5 DEF DeadlinePasses, Booking
  <1>6. ASSUME UNCHANGED res
        PROVE  Checked(s)' \subseteq Checked(s)
    BY <1>6 DEF Checked
  <1> QED
    BY <1>1, <1>2, <1>3, <1>4, <1>5, <1>6, FewerBooked

\* The job inserts no reservation.
LEMMA JobInserts ==
    ASSUME TypeOK, BookingInv, [Next]_vars
    PROVE  txn'[Job].open => txn'[Job].new = NoRow
  <1>1. Job \in Proc /\ Job \notin Worker /\ (txn[Job].open => txn[Job].new = NoRow)
    BY ConstantsAssumption DEF Proc, BookingInv
  <1>2. ASSUME NEW p \in Worker, Request(p)
        PROVE  txn'[Job] = txn[Job]
    BY <1>1, <1>2, RequestSawRoom
  <1>3. ASSUME ExpirePending
        PROVE  txn'[Job].new = NoRow
    <2>1. PICK order \in Orders, winner \in [Groups -> Overdue] :
             Begin(Job, RunWrites(order, winner))
      BY <1>3, ExpirePendingWrites
    <2>2. RunWrites(order, winner).new = NoRow
      BY DEF RunWrites, NoWrites
    <2>3. PICK w : w = RunWrites(order, winner)
      OBVIOUS
    <2> QED
      BY <1>1, <2>1, <2>2, <2>3 DEF Begin, TypeOK
  <1>4. ASSUME NEW p \in Proc, Commit(p) \/ Rollback(p)
        PROVE  txn'[Job] = txn[Job] \/ ~txn'[Job].open
    BY <1>1, <1>4 DEF Commit, Rollback, TypeOK, NoTxn
  <1>5. ASSUME \/ \E c \in Slot : RoomsChange(c)
               \/ \E r \in Res : DeadlinePasses(r)
               \/ NewYear
               \/ UNCHANGED vars
        PROVE  txn'[Job] = txn[Job]
    BY <1>5 DEF NewYear, vars, DeadlinePasses, RoomsChange
  <1> QED
    BY <1>1, <1>2, <1>3, <1>4, <1>5 DEF Next

LEMMA BookingStep ==
    ASSUME FirstUpdaterWins, SnapshotInv, BookingInv, [Next]_vars
    PROVE  BookingInv'
  <1>1. TypeOK
    BY DEF SnapshotInv
  <1>2. ASSUME NEW s \in Slot
        PROVE  Bounded(s)'
    BY <1>1, RequestBounded, CommitBounded, QuietBounded DEF Next
  <1> QED
    BY <1>1, <1>2, JobInserts DEF BookingInv, Bounded

LEMMA InitBooking == Init => BookingInv
  <1> SUFFICES ASSUME Init PROVE BookingInv
    OBVIOUS
  <1>1. ASSUME NEW s \in Slot
        PROVE  Bounded(s)
    <2>1. Checked(s) = {}
      BY DEF Init, Checked, NoRow, Live
    <2>2. Booking(s) = {}
      BY DEF Init, Booking, NoTxn
    <2>3. Cardinality(Worker) # 0
      BY ConstantsAssumption, FS_EmptySet
    <2> QED
      BY <2>1, <2>2, <2>3, BookingFinite, FS_EmptySet DEF Bounded
  <1>2. ~txn[Job].open
    BY DEF Init, NoTxn, Proc
  <1> QED
    BY <1>1, <1>2 DEF BookingInv, Bounded

\* The bound on the checked reservations, with those that are about to be inserted,
\* is inductive, whatever plan requests are approved without a check and however
\* the rooms change.
THEOREM BookingCorrect ==
    ASSUME FirstUpdaterWins
    PROVE  Spec => []BookingInv
  <1>1. SnapshotInv /\ BookingInv /\ [Next]_vars => BookingInv'
    BY BookingStep
  <1> QED
    BY InitBooking, <1>1, SnapshotsCorrect, PTL DEF Spec

\* Under first-updater-wins the race of the availability check is bounded: of the
\* reservations that passed it, a slot that never had more than MaxRooms rooms
\* holds at most MaxRooms + n - 1 when the API has n threads.  Nothing is said of
\* the stays of plan requests, which no check bounds.
THEOREM CheckedCorrect ==
    ASSUME FirstUpdaterWins
    PROVE  Spec => []CheckedBounded
  <1>1. BookingInv => CheckedBounded
    <2> SUFFICES ASSUME BookingInv, NEW s \in Slot
                 PROVE  Cardinality(Checked(s)) < MaxRooms + Cardinality(Worker)
      BY DEF CheckedBounded
    <2> QED
      BY BookingFinite DEF BookingInv
  <1> QED
    BY <1>1, BookingCorrect, PTL

=============================================================================
