-------------------------- MODULE EntitlementsProofs --------------------------
(***************************************************************************)
(* What TLAPS proves of Reservations under first-updater-wins beyond the   *)
(* counters: who holds an eligibility, which discounts are granted, what   *)
(* the notifications say, and which reservation the job lets expire.       *)
(***************************************************************************)
EXTENDS ReservationsProofs

-----------------------------------------------------------------------------
(* Opening a transaction.                                                  *)

\* What the tables hold besides the counters.
TablesInv == /\ PlanNotDiscounted /\ EligibilityBookedOnce /\ NotesAreTrue
             /\ TiersGrantedOnce /\ ThirtyIsNotFirst

\* A step that writes no table keeps what is said of the tables.
LEMMA TablesKept ==
    ASSUME TablesInv, UNCHANGED db
    PROVE  TablesInv'
  <1>1. res' = res /\ usage' = usage /\ used' = used /\ notes' = notes
    BY DEF db
  <1>2. PlanNotDiscounted' /\ EligibilityBookedOnce' /\ NotesAreTrue'
    <2>1. \A e : BookedWith(e)' = BookedWith(e)
      BY <1>1 DEF BookedWith
    <2> QED
      BY <1>1, <2>1 DEF TablesInv, PlanNotDiscounted, Pending, EligibilityBookedOnce,
                        NotesAreTrue
  <1>3. \A u, y : Approvals(u, y)' = Approvals(u, y)
    BY <1>1 DEF Approvals
  <1>4. TiersGrantedOnce'
    <2>1. \A u, y, d : OfTier(u, y, d)' = OfTier(u, y, d)
      BY <1>1, <1>3 DEF OfTier
    <2> QED
      BY <2>1 DEF TablesInv, TiersGrantedOnce
  <1>5. ThirtyIsNotFirst'
    BY <1>1, <1>3 DEF TablesInv, ThirtyIsNotFirst
  <1> QED
    BY <1>2, <1>4, <1>5 DEF TablesInv

\* Opening a transaction whose writes are consistent and fresh keeps the others
\* as they are.
LEMMA BeginWrites ==
    ASSUME TypeOK, WritesHold, NEW p \in Proc, NEW w, Begin(p, w),
           Consistent(w), Fresh(w)
    PROVE  UNCHANGED db /\ WritesHold'
  <1>1. UNCHANGED db /\ res' = res /\ usage' = usage /\ used' = used
    BY DEF Begin, db
  <1> SUFFICES ASSUME NEW q \in Proc, txn'[q].open
               PROVE  Consistent(txn[q])' /\ (~stale'[q] => Fresh(txn[q])')
    BY <1>1 DEF WritesHold
  <1>2. PICK o : txn'[q] = o /\ Consistent(o) /\ (~stale'[q] => Fresh(o))
    <2>1. CASE q = p
      BY <2>1 DEF Begin, TypeOK
    <2>2. CASE q # p
      BY <2>2 DEF Begin, TypeOK, WritesHold
    <2> QED
      BY <2>1, <2>2
  <1>3. Consistent(txn[q])'
    BY <1>1, <1>2 DEF Consistent, Updates
  <1>4. ~stale'[q] => Fresh(txn[q])'
    BY <1>1, <1>2 DEF Fresh, ApprovedBy, Granted, WinsAgainst, StayOf
  <1> QED
    BY <1>3, <1>4

\* Writes that decide nothing are consistent and fresh when the row they insert
\* has no discount besides a plan, the eligibility they use up is unused, and it is
\* the one of that row, which only an approved row may refer to without using it.
LEMMA InsertWrites ==
    ASSUME NEW w, w.decide = [r \in Res |-> Keep], w.dropElig = {}, w.free = {},
           w.note \in {"NEW_RESERVATION", "NONE"}, w.new # NoRow,
           w.new.elig # NoElig => w.new.discount = 0,
           w.use \subseteq {w.new.elig} \ {NoElig}, \A e \in w.use : ~used[e],
           ~w.new.direct => {w.new.elig} \ {NoElig} \subseteq w.use
    PROVE  Consistent(w) /\ Fresh(w)
  <1>1. Updates(w) = {}
    BY DEF Updates
  <1>2. \A u : ApprovedBy(w, u) = {}
    BY DEF ApprovedBy, Keep
  <1>3. Consistent(w)
    BY <1>1 DEF Consistent
  <1>4. Fresh(w)
    BY <1>2 DEF Fresh, Keep
  <1> QED
    BY <1>3, <1>4

LEMMA CreateReservationWrites ==
    ASSUME TypeOK, NEW p \in Proc, NEW u \in User, NEW s \in Slot, NEW b \in BOOLEAN,
           CreateReservation(p, u, s, b)
    PROVE  \E w : Begin(p, w) /\ Consistent(w) /\ Fresh(w)
  <1>1. PICK e \in IF b /\ UnusedElig(u) # {} THEN UnusedElig(u) ELSE {NoElig} :
          Begin(p, [NoWrites EXCEPT
            !.new = [status |-> "PENDING", user |-> u, slot |-> s, elig |-> e,
                     discount |-> IF e # NoElig THEN 0
                                  ELSE CalcDiscountPercent(UsageCount(u)),
                     year |-> NoYear, overdue |-> FALSE, direct |-> FALSE,
                     request |-> FALSE],
            !.use = {e} \ {NoElig},
            !.note = "NEW_RESERVATION"])
    BY DEF CreateReservation
  <1> DEFINE row == [status |-> "PENDING", user |-> u, slot |-> s, elig |-> e,
                     discount |-> IF e # NoElig THEN 0
                                  ELSE CalcDiscountPercent(UsageCount(u)),
                     year |-> NoYear, overdue |-> FALSE, direct |-> FALSE,
                     request |-> FALSE]
             w == [NoWrites EXCEPT !.new = row, !.use = {e} \ {NoElig},
                                   !.note = "NEW_RESERVATION"]
  <1>2. e # NoElig => ~used[e]
    BY <1>1 DEF UnusedElig
  <1>3. row # NoRow /\ row.elig = e /\ (e # NoElig => row.discount = 0)
    BY DEF NoRow
  <1> HIDE DEF row
  <1>4. /\ w.decide = [r \in Res |-> Keep] /\ w.dropElig = {} /\ w.free = {}
        /\ w.note = "NEW_RESERVATION" /\ w.new = row /\ w.use = {e} \ {NoElig}
    BY DEF NoWrites
  <1> HIDE DEF w
  <1>5. Consistent(w) /\ Fresh(w)
    BY <1>2, <1>3, <1>4, InsertWrites
  <1> QED
    BY <1>1, <1>5 DEF w, row

LEMMA AdminCreateReservationWrites ==
    ASSUME TypeOK, NEW p \in Proc, NEW u \in User, NEW s \in Slot, NEW st \in AdminStatus,
           AdminCreateReservation(p, u, s, st)
    PROVE  \E w : Begin(p, w) /\ Consistent(w) /\ Fresh(w)
  <1> DEFINE row == [status |-> st, user |-> u, slot |-> s, elig |-> NoElig,
                     discount |-> 0, year |-> year, overdue |-> TRUE,
                     direct |-> st = "APPROVED", request |-> FALSE]
             w == [NoWrites EXCEPT !.new = row]
  <1>1. row # NoRow /\ row.elig = NoElig
    BY DEF NoRow
  <1>2. Begin(p, w)
    BY DEF AdminCreateReservation
  <1> HIDE DEF row
  <1>3. /\ w.decide = [r \in Res |-> Keep] /\ w.dropElig = {} /\ w.free = {}
        /\ w.note = "NONE" /\ w.new = row /\ w.use = {}
    BY DEF NoWrites
  <1> HIDE DEF w
  <1>4. Consistent(w) /\ Fresh(w)
    BY <1>1, <1>3, InsertWrites
  <1> QED
    BY <1>2, <1>4

LEMMA ReviewPlanRequestWrites ==
    ASSUME NEW p \in Proc, NEW u \in User, NEW s \in Slot, NEW e \in Elig \cup {NoElig},
           ReviewPlanRequest(p, u, s, e)
    PROVE  \E w : Begin(p, w) /\ Consistent(w) /\ Fresh(w)
  <1> DEFINE row == [status |-> "APPROVED", user |-> u, slot |-> s, elig |-> e,
                     discount |-> 0, year |-> year, overdue |-> TRUE,
                     direct |-> TRUE, request |-> TRUE]
             use == {x \in Elig : x = e /\ ~used[x]}
             w == [NoWrites EXCEPT !.new = row, !.use = use]
  <1>1. row # NoRow /\ row.elig = e /\ row.discount = 0 /\ row.direct
    BY DEF NoRow
  <1>2. use \subseteq {e} \ {NoElig} /\ \A x \in use : ~used[x]
    BY ConstantsAssumption
  <1>3. Begin(p, w)
    BY DEF ReviewPlanRequest
  <1> HIDE DEF row, use
  <1>4. /\ w.decide = [r \in Res |-> Keep] /\ w.dropElig = {} /\ w.free = {}
        /\ w.note = "NONE" /\ w.new = row /\ w.use = use
    BY DEF NoWrites
  <1> HIDE DEF w
  <1>5. Consistent(w) /\ Fresh(w)
    BY <1>1, <1>2, <1>4, InsertWrites
  <1> QED
    BY <1>3, <1>5

LEMMA CancelReservationWrites ==
    ASSUME TypeOK, NEW p \in Proc, NEW r \in Res, CancelReservation(p, r)
    PROVE  \E w : Begin(p, w) /\ Consistent(w) /\ Fresh(w)
  <1> DEFINE w == [NoWrites EXCEPT !.decide[r] = "CANCELLED",
                                   !.note = "RESERVATION_CANCELLED"]
  <1>1. Begin(p, w)
    BY DEF CancelReservation
  <1>2. /\ w.decide = [x \in Res |-> IF x = r THEN "CANCELLED" ELSE Keep]
        /\ w.new = NoRow /\ w.use = {} /\ w.dropElig = {} /\ w.free = {}
        /\ w.note = "RESERVATION_CANCELLED"
    BY DEF NoWrites
  <1> HIDE DEF w
  <1>3. Consistent(w)
    BY <1>2 DEF Consistent, Updates, Keep
  <1>4. \A u : ApprovedBy(w, u) = {}
    BY <1>2 DEF ApprovedBy, Keep
  <1>5. Fresh(w)
    BY <1>2, <1>4 DEF Fresh, Keep
  <1> QED
    BY <1>1, <1>3, <1>5

\* A review grants the discount of the usage it reads, or none to a stay that
\* keeps its special plan.
LEMMA ReviewReservationWrites ==
    ASSUME TypeOK, PlanNotDiscounted, NEW p \in Proc, NEW r \in Res,
           NEW a \in {"APPROVE", "REJECT"}, NEW b \in BOOLEAN,
           ReviewReservation(p, r, a, b)
    PROVE  \E w : Begin(p, w) /\ Consistent(w) /\ Fresh(w)
  <1> DEFINE row == res[r]
             removed == b /\ row.elig # NoElig
             percent == CalcDiscountPercent(UsageCount(row.user))
             d == IF Recalculates(row, a, removed) /\ percent # row.discount
                  THEN percent ELSE Same
             w == [NoWrites EXCEPT
                     !.decide[r] = IF a = "APPROVE" THEN "APPROVED" ELSE "REJECTED",
                     !.discount[r] = d,
                     !.dropElig = Detached(r, removed),
                     !.free = IF removed THEN {row.elig} ELSE {},
                     !.wins[row.user] = IF a = "APPROVE" THEN 1 ELSE 0,
                     !.seen[row.user] = IF a = "APPROVE" THEN UsageCount(row.user) ELSE 0,
                     !.reviewed = TRUE,
                     !.note = a]
  <1>1. Pending(r) /\ Begin(p, w)
    BY DEF ReviewReservation
  <1>2. row \in Row
    BY <1>1 DEF TypeOK, Pending, NoRow
  <1>3. row.user \in User /\ UsageCount(row.user) \in Nat
    BY <1>2 DEF TypeOK, Row, UsageCount
  <1>4. percent \in Discount
    BY <1>3, DiscountType
  <1>5. Granted(r, w) \in {0, percent} \/ a # "APPROVE"
    <2>1. w.discount[r] = d
      BY DEF NoWrites
    <2>2. percent # Same
      BY <1>4 DEF Discount, Same
    <2>3. ~Recalculates(row, a, removed) /\ a = "APPROVE" => row.discount = 0
      BY <1>1 DEF Recalculates, PlanNotDiscounted
    <2> HIDE DEF percent, removed, w
    <2> QED
      BY <2>1, <2>2, <2>3 DEF Granted
  <1>6. /\ w.decide = [x \in Res |-> IF x # r THEN Keep
                          ELSE IF a = "APPROVE" THEN "APPROVED" ELSE "REJECTED"]
        /\ w.new = NoRow /\ w.use = {}
        /\ w.dropElig = IF removed THEN {r} ELSE {}
        /\ w.free = IF removed THEN {row.elig} ELSE {}
        /\ w.note = a
        /\ a = "APPROVE" => w.seen[row.user] = UsageCount(row.user)
    BY <1>3 DEF NoWrites, Detached
  <1> HIDE DEF w, d
  <1>7. Consistent(w)
    BY <1>6 DEF Consistent, Updates, Keep
  <1>8. \A u : ApprovedBy(w, u) = IF a = "APPROVE" /\ u = row.user THEN {r} ELSE {}
    BY <1>6 DEF ApprovedBy, Keep
  <1>9. Fresh(w)
    <2>1. \A l \in Res : w.decide[l] # "EXPIRED"
      BY <1>6 DEF Keep
    <2>2. \A u \in User : \A x \in ApprovedBy(w, u) :
            x = r /\ Granted(x, w) \in {0, CalcDiscountPercent(w.seen[u])}
      BY <1>5, <1>6, <1>8
    <2> QED
      BY <1>6, <2>1, <2>2 DEF Fresh
  <1> QED
    BY <1>1, <1>7, <1>9

-----------------------------------------------------------------------------
(* A run of the job.                                                       *)

\* The groups a run decides before group g that employee u wins.
WonBefore(u, g, order, winner) ==
    {h \in Groups : order[h] < order[g] /\ res[winner[h]].user = u}

\* The reservations of employee u that a run approves.
WonBy(u, winner) == {r \in {winner[g] : g \in Groups} : res[r].user = u}

\* A group has one winner, so an employee wins no more groups than the run
\* approves reservations of theirs.
LEMMA WonBeforeCount ==
    ASSUME TypeOK, NEW order \in Orders, NEW winner \in [Groups -> Overdue],
           IsOutcome(order, winner), NEW u, NEW g
    PROVE  /\ Cardinality(WonBefore(u, g, order, winner)) \in Nat
           /\ Cardinality(WonBy(u, winner)) \in Nat
           /\ Cardinality(WonBefore(u, g, order, winner)) <= Cardinality(WonBy(u, winner))
           /\ WonBefore(u, g, order, winner) # {} =>
                Cardinality(WonBefore(u, g, order, winner)) # 0
           /\ WonBy(u, winner) # {} => Cardinality(WonBy(u, winner)) # 0
  <1> DEFINE B == WonBefore(u, g, order, winner)
             W == WonBy(u, winner)
             f == [h \in B |-> winner[h]]
  <1>1. B \subseteq Groups /\ W \in SUBSET Res
    BY DEF WonBefore, WonBy, Overdue
  <1>2. IsFiniteSet(B) /\ IsFiniteSet(W)
    BY <1>1, GroupsFinite, FS_Subset, ReservationsFinite
  <1>3. f \in Injection(B, W)
    <2>1. \A h \in B : winner[h] \in W
      BY <1>1 DEF WonBefore, WonBy
    <2>2. \A h, k \in B : winner[h] = winner[k] => h = k
      BY <1>1 DEF IsOutcome
    <2> QED
      BY <2>1, <2>2 DEF Injection, IsInjective
  <1>4. Cardinality(B) <= Cardinality(W)
    BY <1>2, <1>3, FS_Injection
  <1> HIDE DEF B, W
  <1>5. Cardinality(B) \in Nat /\ Cardinality(W) \in Nat
    BY <1>2, FS_CardinalityType
  <1>6. (B # {} => Cardinality(B) # 0) /\ (W # {} => Cardinality(W) # 0)
    BY <1>2, FS_EmptySet
  <1> QED
    BY <1>4, <1>5, <1>6 DEF B, W

\* The fields of the writes of a run.
LEMMA RunWritesFields ==
    ASSUME NEW order, NEW winner, NEW w, w = RunWrites(order, winner)
    PROVE  /\ \A r \in Res :
                 w.decide[r] = IF r \in {winner[g] : g \in Groups} THEN "APPROVED"
                               ELSE IF r \in Overdue THEN "EXPIRED" ELSE Keep
           /\ \A r \in {winner[g] : g \in Groups} \cap Res :
                 LET percent == CalcDiscountPercent(
                                    CountInRun(res[r].user, StayOf(r), order, winner))
                 IN  w.discount[r] = IF res[r].elig = NoElig /\ percent # res[r].discount
                                     THEN percent ELSE Same
           /\ \A u \in User :
                 /\ w.wins[u] = Cardinality(WonBy(u, winner))
                 /\ w.seen[u] = IF Cardinality(WonBy(u, winner)) = 0 THEN 0 ELSE UsageCount(u)
           /\ w.year = year /\ w.new = NoRow /\ w.note = "NONE"
           /\ w.use = {} /\ w.free = {} /\ w.dropElig = {}
  BY DEF RunWrites, NoWrites, WonBy

\* The discounts of a run: the one of the usage that was read for the first
\* reservation an employee wins, none for the others and for the stays with a
\* special plan.
LEMMA RunDiscounts ==
    ASSUME TypeOK, PlanNotDiscounted,
           NEW order \in Orders, NEW winner \in [Groups -> Overdue], IsOutcome(order, winner),
           NEW u \in User, NEW r \in WonBy(u, winner)
    PROVE  LET w == RunWrites(order, winner)
           IN  /\ w.seen[u] = UsageCount(u)
               /\ Granted(r, w) \in {0, CalcDiscountPercent(UsageCount(u))}
               /\ Granted(r, w) # 0 /\ UsageCount(u) > 0 =>
                     WonBefore(u, StayOf(r), order, winner) = {}
  <1> DEFINE w == RunWrites(order, winner)
             c == UsageCount(u)
             k == Cardinality(WonBefore(u, StayOf(r), order, winner))
             percent == CalcDiscountPercent(CountInRun(u, StayOf(r), order, winner))
  <1>1. /\ r \in {winner[g] : g \in Groups} /\ res[r].user = u
        /\ r \in Res /\ Pending(r)
    BY DEF WonBy, Overdue
  <1>2. c \in Nat
    BY DEF TypeOK, UsageCount
  <1>3. /\ k \in Nat
        /\ WonBefore(u, StayOf(r), order, winner) # {} => k # 0
        /\ Cardinality(WonBy(u, winner)) # 0
    BY WonBeforeCount
  <1>4. w.seen[u] = c
    BY <1>3, RunWritesFields
  <1>5. w.discount[r] = IF res[r].elig = NoElig /\ percent # res[r].discount
                        THEN percent ELSE Same
    BY <1>1, RunWritesFields
  <1>6. CountInRun(u, StayOf(r), order, winner) = c + (IF c = 0 THEN 0 ELSE k)
    BY DEF CountInRun, WonBefore
  <1>7. res[r].elig # NoElig => res[r].discount = 0
    BY <1>1 DEF PlanNotDiscounted
  <1>8. percent \in Discount
    BY <1>2, <1>3, <1>6, DiscountType
  <1>9. Granted(r, w) = IF res[r].elig = NoElig THEN percent ELSE 0
    <2> HIDE DEF w, percent
    <2> QED
      BY <1>5, <1>7, <1>8 DEF Granted, Discount, Same
  <1>10. /\ percent \in {0, CalcDiscountPercent(c)}
         /\ percent # 0 /\ c > 0 => k = 0
    <2> HIDE DEF k, c
    <2> QED
      BY <1>2, <1>3, <1>6 DEF CalcDiscountPercent
  <1> HIDE DEF w, percent, k, c
  <1> QED
    BY <1>3, <1>4, <1>9, <1>10 DEF w, c

\* Two reservations of one employee that a run approves with a discount are the
\* same one, unless the employee had no use before.
LEMMA RunDiscountOnce ==
    ASSUME TypeOK, PlanNotDiscounted,
           NEW order \in Orders, NEW winner \in [Groups -> Overdue], IsOutcome(order, winner),
           NEW u \in User, UsageCount(u) > 0,
           NEW r \in WonBy(u, winner), NEW x \in WonBy(u, winner),
           Granted(r, RunWrites(order, winner)) # 0,
           Granted(x, RunWrites(order, winner)) # 0
    PROVE  r = x
  <1>1. PICK g \in Groups : r = winner[g]
    BY DEF WonBy
  <1>2. PICK h \in Groups : x = winner[h]
    BY DEF WonBy
  <1>3. StayOf(r) = g /\ StayOf(x) = h /\ res[r].user = u /\ res[x].user = u
    BY <1>1, <1>2 DEF IsOutcome, WonBy
  <1>4. /\ WonBefore(u, g, order, winner) = {}
        /\ WonBefore(u, h, order, winner) = {}
    BY <1>3, RunDiscounts
  <1>5. ~(order[g] < order[h]) /\ ~(order[h] < order[g])
    BY <1>1, <1>2, <1>3, <1>4 DEF WonBefore
  <1>6. order[g] \in Int /\ order[h] \in Int
    <2>1. order \in [Groups -> 1 .. Cardinality(Groups)]
      BY DEF Orders
    <2>2. order[g] \in 1 .. Cardinality(Groups) /\ order[h] \in 1 .. Cardinality(Groups)
      BY <2>1
    <2> QED
      BY <2>2
  <1>7. order[g] = order[h]
    BY <1>5, <1>6
  <1>8. g = h
    BY <1>7 DEF Orders
  <1> QED
    BY <1>1, <1>2, <1>8

\* Every reservation that a run lets expire has lost to the winner of its group.
LEMMA RunIsFair ==
    ASSUME TypeOK, NEW order \in Orders, NEW winner \in [Groups -> Overdue],
           IsOutcome(order, winner), NEW l \in Res,
           RunWrites(order, winner).decide[l] = "EXPIRED"
    PROVE  \E w \in Res : WinsAgainst(w, l, RunWrites(order, winner))
  <1> DEFINE t == RunWrites(order, winner)
             g == StayOf(l)
             w == winner[g]
             uw == res[w].user
             ul == res[l].user
             kw == Cardinality(WonBefore(uw, g, order, winner))
             kl == Cardinality(WonBefore(ul, g, order, winner))
  <1>1. l \in Overdue /\ l \notin {winner[h] : h \in Groups}
    BY RunWritesFields DEF Keep
  <1>2. g \in Groups /\ w \in Overdue /\ w # l /\ w \in Res
    BY <1>1 DEF Groups, Overdue
  <1>3. StayOf(w) = g /\ Beats(w, l, g, order, winner)
    BY <1>1, <1>2 DEF IsOutcome
  <1>4. res[w] \in Row /\ res[l] \in Row
    BY <1>1, <1>2 DEF Overdue, Pending, TypeOK, NoRow
  <1>5. uw \in User /\ ul \in User
    BY <1>4 DEF Row
  <1>6. UsageCount(uw) \in Nat /\ UsageCount(ul) \in Nat
    BY <1>5 DEF TypeOK, UsageCount
  <1>7. kw \in Nat /\ kl \in Nat /\ kl <= Cardinality(WonBy(ul, winner))
        /\ Cardinality(WonBy(ul, winner)) \in Nat
        /\ Cardinality(WonBy(uw, winner)) # 0
    <2>1. w \in WonBy(uw, winner)
      BY <1>2 DEF WonBy
    <2> QED
      BY <2>1, WonBeforeCount
  <1>8. /\ t.decide[w] = "APPROVED" /\ t.year = year
        /\ t.seen[uw] = UsageCount(uw)
        /\ t.wins[ul] = Cardinality(WonBy(ul, winner))
    <2>1. w \in {winner[h] : h \in Groups}
      BY <1>2
    <2> HIDE DEF w, uw, ul, t
    <2>2. t = RunWrites(order, winner)
      BY DEF t
    <2> QED
      BY <1>2, <1>5, <1>7, <2>1, <2>2, RunWritesFields
  <1>9. /\ CountInRun(uw, g, order, winner) = UsageCount(uw) +
              (IF UsageCount(uw) = 0 THEN 0 ELSE kw)
        /\ CountInRun(ul, g, order, winner) = UsageCount(ul) +
              (IF UsageCount(ul) = 0 THEN 0 ELSE kl)
    BY DEF CountInRun, WonBefore
  <1>10. \/ CountInRun(uw, g, order, winner) < CountInRun(ul, g, order, winner)
         \/ CountInRun(uw, g, order, winner) = CountInRun(ul, g, order, winner) /\ w <= l
    BY <1>3 DEF Beats
  <1>11. w \in Int /\ l \in Int
    BY <1>2 DEF Res
  <1>12. \/ UsageCount(uw) < UsageCount(ul) + Cardinality(WonBy(ul, winner))
         \/ UsageCount(uw) = UsageCount(ul) + Cardinality(WonBy(ul, winner)) /\ w < l
    <2> HIDE DEF w, uw, ul, kw, kl, g
    <2> QED
      BY <1>2, <1>6, <1>7, <1>9, <1>10, <1>11
  <1> HIDE DEF t
  <1>13. WinsAgainst(w, l, t)
    BY <1>3, <1>8, <1>12 DEF WinsAgainst, UsageCount
  <1> QED
    BY <1>2, <1>13 DEF t

LEMMA ExpirePendingFresh ==
    ASSUME TypeOK, PlanNotDiscounted, ExpirePending
    PROVE  \E w : Begin(Job, w) /\ Consistent(w) /\ Fresh(w)
  <1>1. PICK order \in Orders, winner \in [Groups -> Overdue] :
          IsOutcome(order, winner) /\ Begin(Job, RunWrites(order, winner))
    BY ExpirePendingWrites
  <1> DEFINE w == RunWrites(order, winner)
  <1>2. Consistent(w)
    BY RunWritesFields DEF Consistent
  <1>3. \A u \in User : ApprovedBy(w, u) = WonBy(u, winner)
    BY RunWritesFields DEF ApprovedBy, WonBy, Overdue, Keep
  <1>4. w.use = {} /\ w.free = {} /\ w.dropElig = {}
    BY RunWritesFields
  <1>5. \A u \in User : \A r \in ApprovedBy(w, u) :
          /\ Granted(r, w) \in {0, CalcDiscountPercent(w.seen[u])}
          /\ \A x \in ApprovedBy(w, u) :
               w.seen[u] > 0 /\ Granted(r, w) # 0 /\ Granted(x, w) # 0 => r = x
    BY <1>1, <1>3, RunDiscounts, RunDiscountOnce
  <1>6. \A l \in Res : w.decide[l] = "EXPIRED" => \E x \in Res : WinsAgainst(x, l, w)
    BY <1>1, RunIsFair
  <1> HIDE DEF w
  <1>7. Fresh(w)
    BY <1>4, <1>5, <1>6 DEF Fresh
  <1> QED
    BY <1>1, <1>2, <1>7 DEF w

-----------------------------------------------------------------------------
(* Steps that write no table, and deadlines that pass.                     *)

\* Row r differs from what it was in its deadline at most.
SameRow(r) ==
    /\ res'[r] = NoRow <=> res[r] = NoRow
    /\ res[r] # NoRow =>
         /\ res'[r].status = res[r].status /\ res'[r].user = res[r].user
         /\ res'[r].slot = res[r].slot /\ res'[r].elig = res[r].elig
         /\ res'[r].discount = res[r].discount /\ res'[r].year = res[r].year
         /\ res'[r].direct = res[r].direct

LEMMA OtherStepsRows ==
    ASSUME TypeOK,
           \/ \E p \in Proc : Rollback(p)
           \/ \E c \in Slot : RoomsChange(c)
           \/ \E r \in Res : DeadlinePasses(r)
           \/ NewYear
           \/ UNCHANGED vars
    PROVE  /\ \A r \in Res : SameRow(r)
           /\ UNCHANGED <<usage, used, notes>>
           /\ \A q \in Proc : txn'[q].open => txn'[q] = txn[q] /\ stale'[q] = stale[q]
  <1>1. CASE UNCHANGED <<res, usage, used, notes, txn, stale>>
    BY <1>1 DEF SameRow
  <1>2. ASSUME NEW p \in Proc, Rollback(p)
        PROVE  /\ UNCHANGED <<res, usage, used, notes>>
               /\ \A q \in Proc : txn'[q].open => txn'[q] = txn[q] /\ stale'[q] = stale[q]
    BY <1>2 DEF Rollback, db, TypeOK, NoTxn
  <1>3. ASSUME NEW x \in Res, DeadlinePasses(x)
        PROVE  \A r \in Res : SameRow(r)
    <2>1. res[x] \in Row /\ res' = [res EXCEPT ![x] = [res[x] EXCEPT !.overdue = TRUE]]
      BY <1>3 DEF DeadlinePasses, Pending, TypeOK, NoRow
    <2>2. res'[x] = [res[x] EXCEPT !.overdue = TRUE] /\ \A r \in Res : r # x => res'[r] = res[r]
      BY <2>1 DEF TypeOK
    <2>3. [res[x] EXCEPT !.overdue = TRUE] \in Row
      BY <2>1 DEF Row
    <2>4. \A row \in Row : row # NoRow
      BY DEF Row, NoRow, Status, Final
    <2>5. /\ res'[x].status = res[x].status /\ res'[x].user = res[x].user
          /\ res'[x].slot = res[x].slot /\ res'[x].elig = res[x].elig
          /\ res'[x].discount = res[x].discount /\ res'[x].year = res[x].year
          /\ res'[x].direct = res[x].direct
      BY <2>1, <2>2 DEF Row
    <2>6. res[x] # NoRow /\ res'[x] # NoRow
      BY <2>1, <2>2, <2>3, <2>4
    <2>7. SameRow(x)
      BY <2>5, <2>6 DEF SameRow
    <2> QED
      BY <2>2, <2>7 DEF SameRow
  <1>4. CASE \E p \in Proc : Rollback(p)
    BY <1>2, <1>4 DEF SameRow
  <1>5. CASE \E r \in Res : DeadlinePasses(r)
    BY <1>3, <1>5 DEF DeadlinePasses
  <1> QED
    BY <1>1, <1>4, <1>5 DEF NewYear, RoomsChange, vars, db

LEMMA OtherStepsTables ==
    ASSUME TablesInv, \A r \in Res : SameRow(r), UNCHANGED <<usage, used, notes>>
    PROVE  TablesInv'
  <1>1. \A u, y : Approvals(u, y)' = Approvals(u, y)
    <2> TAKE u, y
    <2>1. \A r \in Res : r \in Approvals(u, y)' <=> r \in Approvals(u, y)
      BY DEF Approvals, SameRow, NoRow
    <2>2. Approvals(u, y)' \subseteq Res /\ Approvals(u, y) \subseteq Res
      BY DEF Approvals, Res
    <2> QED
      BY <2>1, <2>2
  <1>2. \A u, y : \A r \in Approvals(u, y) : res'[r].discount = res[r].discount
    BY DEF Approvals, SameRow, NoRow
  <1>3. TiersGrantedOnce'
    <2>1. \A u, y, d : OfTier(u, y, d)' = OfTier(u, y, d)
      BY <1>1, <1>2 DEF OfTier
    <2> QED
      BY <2>1 DEF TablesInv, TiersGrantedOnce
  <1>4. ThirtyIsNotFirst'
    BY <1>1, <1>2 DEF TablesInv, ThirtyIsNotFirst
  <1>5. PlanNotDiscounted'
    BY DEF TablesInv, PlanNotDiscounted, Pending, SameRow, NoRow
  <1>6. NotesAreTrue'
    <2>1. \A r \in Res : res'[r].status = res[r].status
      BY DEF SameRow
    <2>2. NotesAreTrue /\ notes' = notes
      BY DEF TablesInv
    <2> SUFFICES ASSUME NEW r \in Res
                 PROVE  /\ <<r, "APPROVE">> \in notes' => res'[r].status = "APPROVED"
                        /\ <<r, "REJECT">> \in notes' => res'[r].status = "REJECTED"
                        /\ <<r, "RESERVATION_CANCELLED">> \in notes' =>
                              res'[r].status = "CANCELLED"
      BY DEF NotesAreTrue
    <2>3. /\ <<r, "APPROVE">> \in notes => res[r].status = "APPROVED"
          /\ <<r, "REJECT">> \in notes => res[r].status = "REJECTED"
          /\ <<r, "RESERVATION_CANCELLED">> \in notes => res[r].status = "CANCELLED"
      BY <2>2 DEF NotesAreTrue
    <2> QED
      BY <2>1, <2>2, <2>3
  <1>7. EligibilityBookedOnce'
    <2>1. \A e : BookedWith(e)' = BookedWith(e)
      <3> TAKE e
      <3>1. \A r \in Res : r \in BookedWith(e)' <=> r \in BookedWith(e)
        BY DEF BookedWith, SameRow
      <3>2. BookedWith(e)' \subseteq Res /\ BookedWith(e) \subseteq Res
        BY DEF BookedWith, Res
      <3> QED
        BY <3>1, <3>2
    <2>2. \A e, r : r \in Res /\ res[r] # NoRow /\ res[r].elig = e =>
                       res'[r] # NoRow /\ res'[r].elig = e
      BY DEF SameRow
    <2> SUFFICES ASSUME NEW e \in Elig
                 PROVE  /\ Cardinality(BookedWith(e)') <= 1
                        /\ BookedWith(e)' # {} => used'[e]
                        /\ used'[e] => \E r \in Res : res'[r] # NoRow /\ res'[r].elig = e
      BY DEF EligibilityBookedOnce, Res
    <2>3. /\ Cardinality(BookedWith(e)) <= 1
          /\ BookedWith(e) # {} => used[e]
          /\ used[e] => \E r \in Res : res[r] # NoRow /\ res[r].elig = e
      BY DEF TablesInv, EligibilityBookedOnce
    <2> QED
      BY <2>1, <2>2, <2>3
  <1> QED
    BY <1>3, <1>4, <1>5, <1>6, <1>7 DEF TablesInv

\* The rows a transaction decides.
LEMMA DecidedRows ==
    ASSUME NEW t
    PROVE  /\ \A r \in Res : t.decide[r] \in {"APPROVED", "EXPIRED"} => r \in Updates(t)
           /\ \A u : \A r \in ApprovedBy(t, u) : r \in Updates(t) /\ res[r].user = u
  BY DEF Updates, ApprovedBy, Keep

-----------------------------------------------------------------------------
(* The commit.                                                             *)

\* Under first-updater-wins a transaction that commits is fresh as well.
LEMMA CommitFresh ==
    ASSUME FirstUpdaterWins, SnapshotInv, WritesHold, NEW p \in Proc, Commit(p)
    PROVE  /\ txn[p] \in Txn
           /\ WellFormed(txn[p]) /\ UpToDate(txn[p])
           /\ Consistent(txn[p]) /\ Fresh(txn[p])
  <1>1. txn[p] \in Txn
    BY DEF Commit, SnapshotInv, TypeOK, NoTxn
  <1>2. Consistent(txn[p]) /\ Fresh(txn[p])
    BY DEF Commit, Conflict, WritesHold
  <1> QED
    BY <1>1, <1>2, CommitUpToDate

\* The columns that a commit writes in a row it decides.
LEMMA CommitColumns ==
    ASSUME SnapshotInv, NEW p \in Proc, Commit(p), NEW r \in Updates(txn[p])
    PROVE  /\ res'[r].discount = Granted(r, txn[p])
           /\ res'[r].elig = IF r \in txn[p].dropElig THEN NoElig ELSE res[r].elig
           /\ res'[r].slot = res[r].slot /\ res'[r].direct = res[r].direct
  <1> DEFINE t == txn[p]
  <1>1. t \in Txn /\ WellFormed(t) /\ r \in Res
    BY DEF SnapshotInv, TypeOK, SnapshotsHold, Commit, NoTxn, Updates
  <1>2. PICK n \in NewIds(t) :
          res' = [x \in Res |-> IF x = n THEN t.new ELSE Updated(x, t)]
    BY DEF Commit
  <1>3. r # n /\ res[r] \in Row
    BY <1>1 DEF NewIds, NextIds, Res, WellFormed, SnapshotInv, TypeOK
  <1>4. res'[r] = [res[r] EXCEPT !.status = t.decide[r],
                        !.discount = IF t.discount[r] = Same THEN @ ELSE t.discount[r],
                        !.elig = IF r \in t.dropElig THEN NoElig ELSE @,
                        !.year = IF t.reviewed THEN t.year ELSE @]
    BY <1>1, <1>2, <1>3 DEF Updated, Updates
  <1> QED
    BY <1>3, <1>4 DEF Row, Granted

\* A commit inserts at most one row, into an id that was not issued, and writes
\* its notifications about the rows it inserts or decides.
LEMMA CommitInserts ==
    ASSUME SnapshotInv, NEW p \in Proc, Commit(p)
    PROVE  \E n \in Res \cup {0} :
             /\ n = 0 <=> txn[p].new = NoRow
             /\ n \in Res => res[n] = NoRow /\ res'[n] = txn[p].new
             /\ \A r \in Res : r # n /\ r \notin Updates(txn[p]) => res'[r] = res[r]
             /\ notes' = notes \cup {<<r, txn[p].note>> : r \in {x \in Res :
                            txn[p].note # "NONE" /\ (x = n \/ x \in Updates(txn[p]))}}
  <1> DEFINE t == txn[p]
  <1>1. PICK n \in NewIds(t) :
          /\ res' = [r \in Res |-> IF r = n THEN t.new ELSE Updated(r, t)]
          /\ notes' = notes \cup {<<r, t.note>> : r \in {x \in Res :
                                    t.note # "NONE" /\ (x = n \/ x \in Updates(t))}}
    BY DEF Commit
  <1>2. n \in Res \cup {0} /\ (n = 0 <=> t.new = NoRow)
    BY DEF NewIds, NextIds, Res
  <1>3. n \in Res => res[n] = NoRow /\ res'[n] = t.new
    BY <1>1, <1>2 DEF NewIds, NextIds, Res
  <1>4. \A r \in Res : r # n /\ r \notin Updates(t) => res'[r] = res[r]
    BY <1>1 DEF Updated, Updates
  <1> QED
    BY <1>1, <1>2, <1>3, <1>4

\* A commit never takes back a use.
LEMMA CommitUsageGrows ==
    ASSUME FirstUpdaterWins, SnapshotInv, NEW p \in Proc, Commit(p),
           NEW u \in User, NEW y \in Year
    PROVE  usage'[u][y] \in Nat /\ usage[u][y] \in Nat /\ usage'[u][y] >= usage[u][y]
  <1>1. ApprovedBy(txn[p], u) \in SUBSET Res
    BY DEF ApprovedBy
  <1>2. Cardinality(ApprovedBy(txn[p], u)) \in Nat
    BY <1>1, ReservationsFinite
  <1>3. usage[u][y] \in Nat
    BY DEF SnapshotInv, TypeOK
  <1>4. usage'[u][y] = usage[u][y] +
          (IF y = txn[p].year THEN Cardinality(ApprovedBy(txn[p], u)) ELSE 0)
    BY CommitUsage
  <1> QED
    BY <1>2, <1>3, <1>4

\* The other transactions stay fresh unless the commit makes them stale.
LEMMA CommitWritesHold ==
    ASSUME FirstUpdaterWins, SnapshotInv, WritesHold, NEW p \in Proc, Commit(p)
    PROVE  WritesHold'
  <1> DEFINE t == txn[p]
  <1> SUFFICES ASSUME NEW q \in Proc, txn'[q].open
               PROVE  Consistent(txn[q])' /\ (~stale'[q] => Fresh(txn[q])')
    BY DEF WritesHold
  <1> DEFINE o == txn[q]
  <1>1. q # p /\ txn'[q] = o /\ o.open
    BY DEF Commit, SnapshotInv, TypeOK, NoTxn
  <1>2. o \in Txn /\ WellFormed(o) /\ Consistent(o)
    BY <1>1 DEF SnapshotInv, TypeOK, SnapshotsHold, WritesHold, NoTxn
  <1>3. Consistent(txn[q])'
    BY <1>1, <1>2 DEF Consistent, Updates
  <1>4. ASSUME ~stale'[q]
        PROVE  Fresh(txn[q])'
    <2>1. ~stale[q] /\ ~Overlap(t, o)
      BY <1>1, <1>4 DEF Commit
    <2>2. UpToDate(o) /\ Fresh(o)
      BY <1>1, <2>1 DEF SnapshotInv, SnapshotsHold, WritesHold
    <2>3. \A r \in Updates(o) : r \in Res /\ res'[r] = res[r]
      <3> SUFFICES ASSUME NEW r \in Updates(o)
                   PROVE  r \in Res /\ res'[r] = res[r]
        OBVIOUS
      <3>1. r \in Res /\ res[r] # NoRow /\ r \notin Updates(t)
        BY <1>2, <2>1 DEF WellFormed, Updates, Overlap
      <3> QED
        BY <3>1, CommitRows
    <2>4. \A e \in o.use : ~used'[e]
      <3> SUFFICES ASSUME NEW e \in o.use
                   PROVE  ~used'[e]
        OBVIOUS
      <3>1. e \in Elig /\ ~used[e] /\ e \notin t.use
        BY <1>2, <2>1, <2>2 DEF Txn, Fresh, Overlap
      <3> QED
        BY <3>1 DEF Commit
    <2>5. \A r \in o.dropElig : res'[r] = res[r] /\ res[r].elig # NoElig
      BY <1>2, <2>2, <2>3 DEF Fresh, Consistent
    <2>6. o.free = {res'[r].elig : r \in o.dropElig}
      BY <2>2, <2>5 DEF Fresh
    <2>7. \A u \in User : /\ ApprovedBy(o, u)' = ApprovedBy(o, u)
                          /\ \A r \in ApprovedBy(o, u) : Granted(r, o)' = Granted(r, o)
      BY <1>1, <2>3 DEF ApprovedBy, Granted, Updates, Keep
    <2>8. \A l \in Res : o.decide[l] = "EXPIRED" => \E w \in Res :
             /\ o.decide[w] = "APPROVED" /\ StayOf(w)' = StayOf(l)'
             /\ LET before == o.seen[res'[w].user]
                    after  == usage'[res'[l].user][o.year] + o.wins[res'[l].user]
                IN  before < after \/ (before = after /\ w < l)
      <3> SUFFICES ASSUME NEW l \in Res, o.decide[l] = "EXPIRED"
                   PROVE  \E w \in Res :
                     /\ o.decide[w] = "APPROVED" /\ StayOf(w)' = StayOf(l)'
                     /\ LET before == o.seen[res'[w].user]
                            after  == usage'[res'[l].user][o.year] + o.wins[res'[l].user]
                        IN  before < after \/ (before = after /\ w < l)
        OBVIOUS
      <3>1. PICK w \in Res : WinsAgainst(w, l, o)
        BY <2>2 DEF Fresh
      <3>2. w \in Updates(o) /\ l \in Updates(o)
        BY <3>1, DecidedRows DEF WinsAgainst
      <3>3. res'[w] = res[w] /\ res'[l] = res[l] /\ res[w] \in Row /\ res[l] \in Row
            /\ StayOf(w)' = StayOf(w) /\ StayOf(l)' = StayOf(l)
        BY <1>2, <2>3, <3>2 DEF WellFormed, SnapshotInv, TypeOK, StayOf
      <3>4. res[w].user \in User /\ res[l].user \in User
        BY <3>3 DEF Row
      <3> DEFINE before == o.seen[res[w].user]
                 was == usage[res[l].user][o.year]
                 now == usage'[res[l].user][o.year]
                 more == o.wins[res[l].user]
      <3>5. before \in Nat /\ more \in Nat /\ o.year \in Year
        BY <1>2, <3>4 DEF Txn
      <3>6. was \in Nat /\ now \in Nat /\ now >= was
        BY <3>4, <3>5, CommitUsageGrows
      <3>7. before < was + more \/ (before = was + more /\ w < l)
        BY <3>1 DEF WinsAgainst
      <3>8. before < now + more \/ (before = now + more /\ w < l)
        <4> HIDE DEF before, was, now, more
        <4> QED
          BY <3>5, <3>6, <3>7
      <3> QED
        BY <3>1, <3>3, <3>8 DEF WinsAgainst
    <2>9. \A u \in User : \A r \in ApprovedBy(txn[q], u)' :
             /\ Granted(r, txn[q])' \in {0, CalcDiscountPercent(txn'[q].seen[u])}
             /\ \A x \in ApprovedBy(txn[q], u)' :
                  txn'[q].seen[u] > 0 /\ Granted(r, txn[q])' # 0 /\ Granted(x, txn[q])' # 0
                    => r = x
      BY <1>1, <2>2, <2>7 DEF Fresh
    <2>10. \A l \in Res : txn'[q].decide[l] = "EXPIRED" =>
             \E w \in Res : WinsAgainst(w, l, txn[q])'
      BY <1>1, <2>8 DEF WinsAgainst
    <2>11. /\ \A e \in txn'[q].use : ~used'[e]
           /\ \A r \in txn'[q].dropElig : res'[r].elig # NoElig
           /\ txn'[q].free = {res'[r].elig : r \in txn'[q].dropElig}
      BY <1>1, <2>4, <2>5, <2>6
    <2> QED
      BY <2>9, <2>10, <2>11 DEF Fresh, Res
  <1> QED
    BY <1>3, <1>4

LEMMA CommitPlans ==
    ASSUME FirstUpdaterWins, SnapshotInv, WritesHold, PlanNotDiscounted,
           NEW p \in Proc, Commit(p)
    PROVE  PlanNotDiscounted'
  <1> DEFINE t == txn[p]
  <1> SUFFICES ASSUME NEW r \in Res, res'[r].status = "PENDING", res'[r].elig # NoElig
               PROVE  res'[r].discount = 0
    BY DEF PlanNotDiscounted, Pending
  <1>1. Consistent(t)
    BY CommitFresh
  <1>2. CASE res'[r] = res[r]
    BY <1>2 DEF PlanNotDiscounted, Pending
  <1>3. CASE t.new # NoRow /\ res'[r] = t.new
    BY <1>1, <1>3 DEF Consistent
  <1> QED
    BY <1>2, <1>3, CommitRows DEF Final, NoRow

\* A decided row is not decided again, so what was said of it stays true; what
\* is said now is what the commit decides.
LEMMA CommitNotes ==
    ASSUME FirstUpdaterWins, SnapshotInv, WritesHold, NotesAreTrue,
           NEW p \in Proc, Commit(p)
    PROVE  NotesAreTrue'
  <1> DEFINE t == txn[p]
             Says(r, k, s) == <<r, k>> \in notes => res[r].status = s
             Kinds == {<<"APPROVE", "APPROVED">>, <<"REJECT", "REJECTED">>,
                       <<"RESERVATION_CANCELLED", "CANCELLED">>}
  <1>1. UpToDate(t) /\ Consistent(t)
    BY CommitFresh
  <1>2. PICK n \in Res \cup {0} :
          /\ n = 0 <=> t.new = NoRow
          /\ n \in Res => res[n] = NoRow /\ res'[n] = t.new
          /\ \A r \in Res : r # n /\ r \notin Updates(t) => res'[r] = res[r]
          /\ notes' = notes \cup {<<r, t.note>> : r \in {x \in Res :
                         t.note # "NONE" /\ (x = n \/ x \in Updates(t))}}
    BY CommitInserts
  <1>3. ASSUME NEW r \in Res, NEW k, NEW s \in Final,
               <<k, s>> \in Kinds, Says(r, k, s), <<r, k>> \in notes'
        PROVE  res'[r].status = s
    <2>1. CASE <<r, k>> \in notes
      <3>1. res[r].status = s /\ ~Pending(r) /\ res[r] # NoRow
        BY <1>3, <2>1 DEF Pending, Final, NoRow
      <3>2. r # n /\ r \notin Updates(t)
        BY <1>1, <1>2, <3>1 DEF UpToDate
      <3> QED
        BY <1>2, <3>1, <3>2
    <2>2. CASE <<r, k>> \notin notes
      <3>1. k = t.note /\ (r = n \/ r \in Updates(t))
        BY <1>2, <1>3, <2>2
      <3>2. r # n
        <4>1. 0 \notin Res /\ k \notin {"NEW_RESERVATION", "NONE"}
          BY <1>3 DEF Res
        <4> QED
          BY <1>1, <1>2, <3>1, <4>1 DEF Consistent
      <3>3. t.decide[r] = s
        BY <1>1, <1>3, <3>1, <3>2 DEF Consistent
      <3> QED
        BY <3>1, <3>2, <3>3, CommitRows
    <2> QED
      BY <2>1, <2>2
  <1> SUFFICES ASSUME NEW r \in Res
               PROVE  /\ <<r, "APPROVE">> \in notes' => res'[r].status = "APPROVED"
                      /\ <<r, "REJECT">> \in notes' => res'[r].status = "REJECTED"
                      /\ <<r, "RESERVATION_CANCELLED">> \in notes' =>
                            res'[r].status = "CANCELLED"
    BY DEF NotesAreTrue
  <1>4. Says(r, "APPROVE", "APPROVED") /\ Says(r, "REJECT", "REJECTED")
        /\ Says(r, "RESERVATION_CANCELLED", "CANCELLED")
    BY DEF NotesAreTrue
  <1>5. {"APPROVED", "REJECTED", "CANCELLED"} \subseteq Final
    BY DEF Final
  <1> HIDE DEF Says
  <1> QED
    BY <1>3, <1>4, <1>5

\* A set of reservations has one member at most when its cardinality says so.
LEMMA AtMostOne ==
    ASSUME NEW S \in SUBSET Res
    PROVE  Cardinality(S) <= 1 <=> \A r, x \in S : r = x
  <1>1. IsFiniteSet(S) /\ Cardinality(S) \in Nat
    BY ReservationsFinite
  <1>2. ASSUME Cardinality(S) <= 1
        PROVE  \A r, x \in S : r = x
    <2>1. Cardinality(S) = 0 \/ Cardinality(S) = 1
      BY <1>1, <1>2
    <2> QED
      BY <1>1, <2>1, FS_EmptySet, FS_Singleton
  <1>3. ASSUME \A r, x \in S : r = x
        PROVE  Cardinality(S) <= 1
    <2>1. CASE S = {}
      <3>1. Cardinality(S) = 0
        BY <2>1, FS_EmptySet
      <3> QED
        BY <3>1
    <2>2. CASE S # {}
      <3>1. PICK r : S = {r}
        BY <1>3, <2>2
      <3>2. Cardinality(S) = 1
        BY <3>1, FS_Singleton
      <3> QED
        BY <3>2
    <2> QED
      BY <2>1, <2>2
  <1> QED
    BY <1>2, <1>3

\* A commit books an unused eligibility with the row it inserts, unless the row is
\* for a plan request, and takes those it frees from the one row that is booked
\* with them.
LEMMA CommitEligibilities ==
    ASSUME FirstUpdaterWins, SnapshotInv, WritesHold, EligibilityBookedOnce,
           NEW p \in Proc, Commit(p)
    PROVE  EligibilityBookedOnce'
  <1> DEFINE t == txn[p]
  <1>1. UpToDate(t) /\ Consistent(t) /\ Fresh(t) /\ WellFormed(t)
    BY CommitFresh
  <1>2. PICK n \in Res \cup {0} :
          /\ n = 0 <=> t.new = NoRow
          /\ n \in Res => res[n] = NoRow /\ res'[n] = t.new
          /\ \A r \in Res : r # n /\ r \notin Updates(t) => res'[r] = res[r]
    BY CommitInserts
  <1> SUFFICES ASSUME NEW e \in Elig
               PROVE  /\ Cardinality(BookedWith(e)') <= 1
                      /\ BookedWith(e)' # {} => used'[e]
                      /\ used'[e] => \E r \in Res : res'[r] # NoRow /\ res'[r].elig = e
    BY DEF EligibilityBookedOnce, Res
  <1> DEFINE B == BookedWith(e)
             Referred(r) == res[r] # NoRow /\ res[r].elig = e
             ReferredNext(r) == res'[r] # NoRow /\ res'[r].elig = e
  <1>3. /\ \A r, x \in B : r = x
        /\ B # {} => used[e]
        /\ used[e] => \E r \in Res : Referred(r)
    <2>1. B \in SUBSET Res
      BY DEF BookedWith
    <2> HIDE DEF B
    <2>2. Cardinality(B) <= 1 => \A r, x \in B : r = x
      BY <2>1, AtMostOne
    <2> QED
      BY <2>2 DEF EligibilityBookedOnce, B
  <1>4. used'[e] <=> e \in t.use \/ (used[e] /\ e \notin t.free)
    BY DEF Commit
  <1>5. e # NoElig /\ 0 \notin Res
    BY ConstantsAssumption DEF Res
  <1>6. ASSUME NEW r \in Res, r # n
        PROVE  /\ ReferredNext(r) <=> Referred(r) /\ r \notin t.dropElig
               /\ r \in BookedWith(e)' <=> r \in B /\ r \notin t.dropElig
    <2>1. CASE r \in Updates(t)
      <3>1. res[r] # NoRow
        BY <1>1, <2>1 DEF WellFormed
      <3>2. res'[r] # NoRow
        BY <2>1, CommitRows DEF Row, NoRow, Status, Final
      <3>3. /\ res'[r].elig = IF r \in t.dropElig THEN NoElig ELSE res[r].elig
            /\ res'[r].direct = res[r].direct
        BY <2>1, CommitColumns
      <3> QED
        BY <1>5, <3>1, <3>2, <3>3 DEF BookedWith
    <2>2. CASE r \notin Updates(t)
      <3>1. res'[r] = res[r] /\ r \notin t.dropElig
        BY <1>1, <1>2, <1>6, <2>2 DEF Consistent
      <3> QED
        BY <3>1 DEF BookedWith
    <2> QED
      BY <2>1, <2>2
  <1>7. BookedWith(e)' \in SUBSET Res
    BY DEF BookedWith, Res
  <1>8. ASSUME \A r, x \in BookedWith(e)' : r = x
        PROVE  Cardinality(BookedWith(e)') <= 1
    <2> DEFINE S == BookedWith(e)'
    <2> HIDE DEF S
    <2>1. S \in SUBSET Res /\ \A r, x \in S : r = x
      BY <1>7, <1>8 DEF S
    <2>2. Cardinality(S) <= 1
      BY <2>1, AtMostOne
    <2> QED
      BY <2>2 DEF S
  <1> SUFFICES /\ \A r, x \in BookedWith(e)' : r = x
               /\ BookedWith(e)' # {} => used'[e]
               /\ used'[e] => \E r \in Res : ReferredNext(r)
    BY <1>8
  <1>9. CASE n \in Res
    <2>1. /\ t.new # NoRow /\ t.dropElig = {} /\ t.use \subseteq {t.new.elig} \ {NoElig}
          /\ ~t.new.direct => {t.new.elig} \ {NoElig} \subseteq t.use
      BY <1>1, <1>2, <1>5, <1>9 DEF Consistent
    <2>2. t.free = {}
      BY <1>1, <2>1 DEF Fresh
    <2>3. n \notin B /\ (n \in BookedWith(e)' <=> ~t.new.direct /\ t.new.elig = e)
      BY <1>2, <1>9, <2>1 DEF BookedWith
    <2>4. n \in BookedWith(e)' => e \in t.use
      BY <1>5, <2>1, <2>3
    <2>5. e \in t.use => B = {} /\ ReferredNext(n)
      BY <1>1, <1>2, <1>3, <1>9, <2>1 DEF Fresh
    <2>6. \A r \in Res : Referred(r) => ReferredNext(r)
      BY <1>2, <1>6, <1>9, <2>1
    <2>7. BookedWith(e)' \subseteq B \cup {n}
      BY <1>6, <1>7
    <2> HIDE DEF B, Referred, ReferredNext
    <2> QED
      BY <1>3, <1>4, <1>9, <2>2, <2>4, <2>5, <2>6, <2>7
  <1>10. CASE n \notin Res
    <2>1. t.use = {} /\ \A r \in Res : r # n
      BY <1>1, <1>2, <1>10 DEF Consistent
    <2>2. BookedWith(e)' = B \ t.dropElig
      <3>1. B \subseteq Res
        BY DEF BookedWith
      <3> QED
        BY <1>6, <1>7, <2>1, <3>1
    <2>3. CASE e \in t.free
      <3>1. PICK r \in t.dropElig : e = res[r].elig
        BY <1>1, <2>3 DEF Fresh
      <3>2. r \in Res /\ Pending(r) /\ res[r] # NoRow
        BY <1>1, <3>1 DEF Consistent, UpToDate, WellFormed, Updates
      <3>3. ~res[r].direct
        BY <3>2 DEF SnapshotInv, PendingNotDirect
      <3>4. r \in B
        BY <3>1, <3>2, <3>3 DEF BookedWith
      <3>5. BookedWith(e)' = {}
        BY <1>3, <2>2, <3>1, <3>4
      <3> QED
        BY <1>4, <2>1, <2>3, <3>5
    <2>4. CASE e \notin t.free
      <3>1. \A r \in t.dropElig : res[r].elig # e
        BY <1>1, <2>4 DEF Fresh
      <3>2. \A r \in Res : Referred(r) => ReferredNext(r)
        BY <1>6, <2>1, <3>1
      <3> HIDE DEF B, Referred, ReferredNext
      <3> QED
        BY <1>3, <1>4, <2>1, <2>2, <2>4, <3>2
    <2> QED
      BY <2>3, <2>4
  <1> QED
    BY <1>9, <1>10

\* The uses that a commit counts on are those counted so far.
LEMMA CommitSeen ==
    ASSUME FirstUpdaterWins, SnapshotInv, NEW p \in Proc, Commit(p),
           NEW u \in User, NEW r \in ApprovedBy(txn[p], u)
    PROVE  /\ u \in Counted(txn[p])
           /\ txn[p].wins[u] = Cardinality(ApprovedBy(txn[p], u))
           /\ txn[p].wins[u] > 0
           /\ txn[p].seen[u] = usage[u][txn[p].year]
  <1> DEFINE t == txn[p]
             c == usage[u][t.year]
             B == ApprovedBy(t, u)
  <1>1. t \in Txn /\ WellFormed(t) /\ UpToDate(t) /\ ~UsageClash(t)
    <2>1. t \in Txn
      BY DEF Commit, SnapshotInv, TypeOK, NoTxn
    <2>2. ~UsageClash(t)
      BY DEF Commit
    <2> QED
      BY <2>1, <2>2, CommitUpToDate
  <1>2. t.year \in Year /\ t.seen[u] \in Nat /\ c \in Nat
    BY <1>1 DEF Txn, SnapshotInv, TypeOK
  <1>3. B \in SUBSET Res
    BY DEF ApprovedBy
  <1>4. IsFiniteSet(B) /\ B # {} /\ Cardinality(B) \in Nat
    BY <1>3, ReservationsFinite
  <1>5. Cardinality(B) # 0 /\ t.wins[u] = Cardinality(B)
    BY <1>1, <1>4, FS_EmptySet DEF WellFormed
  <1>6. u \in Counted(t)
    BY <1>4, <1>5 DEF Counted
  <1>7. t.seen[u] > 0 => c = t.seen[u]
    BY <1>1, <1>6 DEF UpToDate
  <1>8. t.seen[u] = 0 => ~(c > 0)
    BY <1>1, <1>6 DEF UsageClash
  <1> HIDE DEF c, B, t
  <1> QED
    BY <1>2, <1>4, <1>5, <1>6, <1>7, <1>8 DEF c, B, t

\* What a commit grants employee u: the discount of the uses counted so far, to
\* at most one of the reservations it approves.
LEMMA CommitGrants ==
    ASSUME FirstUpdaterWins, UsageInv, WritesHold, NEW p \in Proc, Commit(p),
           NEW u \in User, NEW r \in ApprovedBy(txn[p], u)
    PROVE  LET c == usage[u][txn[p].year]
           IN  /\ c \in Nat
               /\ usage'[u][txn[p].year] \in Nat /\ usage'[u][txn[p].year] > c
               /\ res'[r].discount \in {0, CalcDiscountPercent(c)}
               /\ \A x \in ApprovedBy(txn[p], u) :
                     c = 0 \/ (res'[r].discount # 0 /\ res'[x].discount # 0) => r = x
  <1> DEFINE t == txn[p]
             c == usage[u][t.year]
             B == ApprovedBy(t, u)
  <1>1. SnapshotInv
    BY DEF UsageInv
  <1>2. t \in Txn /\ WellFormed(t) /\ UpToDate(t) /\ Fresh(t) /\ ~UsageClash(t)
    BY <1>1, CommitFresh DEF Commit
  <1>3. t.year \in Year /\ t.seen[u] \in Nat /\ t.wins[u] \in Nat /\ c \in Nat
    BY <1>1, <1>2 DEF Txn, SnapshotInv, TypeOK
  <1>4. B \in SUBSET Res
    BY DEF ApprovedBy
  <1>5. /\ u \in Counted(t) /\ t.wins[u] = Cardinality(B) /\ Cardinality(B) > 0
        /\ t.seen[u] = c
    BY <1>1, CommitSeen
  <1>6. c = 0 => Cardinality(B) <= 1
    <2>1. t.seen[u] = 0 => ~(t.wins[u] > 1)
      BY <1>2, <1>5 DEF UsageClash
    <2>2. Cardinality(B) \in Nat
      BY <1>4, ReservationsFinite
    <2> HIDE DEF c, B, t
    <2> QED
      BY <1>5, <2>1, <2>2
  <1>7. \A x \in B : res'[x].discount = Granted(x, t)
    BY <1>1, DecidedRows, CommitColumns
  <1>8. usage'[u][t.year] = c + Cardinality(B)
    BY <1>1, <1>3, CommitUsage
  <1>9. /\ Granted(r, t) \in {0, CalcDiscountPercent(c)}
        /\ \A x \in B : c > 0 /\ Granted(r, t) # 0 /\ Granted(x, t) # 0 => r = x
    BY <1>2, <1>5 DEF Fresh
  <1>10. c = 0 => \A x \in B : r = x
    BY <1>4, <1>6, AtMostOne
  <1> HIDE DEF c, B, t
  <1>11. \A x \in B : c = 0 \/ (res'[r].discount # 0 /\ res'[x].discount # 0) => r = x
    BY <1>3, <1>7, <1>9, <1>10 DEF B, t
  <1>12. Cardinality(B) \in Nat
    BY <1>4, ReservationsFinite
  <1>13. usage'[u][t.year] \in Nat /\ usage'[u][t.year] > c
    BY <1>3, <1>5, <1>8, <1>12
  <1> QED
    BY <1>3, <1>7, <1>9, <1>11, <1>13 DEF c, B, t

LEMMA CommitTiers ==
    ASSUME FirstUpdaterWins, UsageInv, WritesHold, TiersGrantedOnce, ThirtyIsNotFirst,
           NEW p \in Proc, Commit(p)
    PROVE  TiersGrantedOnce' /\ ThirtyIsNotFirst'
  <1> DEFINE t == txn[p]
  <1>1. SnapshotInv
    BY DEF UsageInv
  <1> SUFFICES ASSUME NEW u \in User, NEW y \in Year
               PROVE  /\ \A d \in {30, 50} : Cardinality(OfTier(u, y, d)') <= 1
                      /\ \A r \in Approvals(u, y)' :
                           res'[r].discount = 30 => usage'[u][y] >= 2
    BY DEF TiersGrantedOnce, ThirtyIsNotFirst
  <1> DEFINE A == Approvals(u, y)
             B == IF y = t.year THEN ApprovedBy(t, u) ELSE {}
             c == usage[u][y]
  <1>2. Approvals(u, y)' = A \cup B
    BY <1>1, CommitApprovals
  <1>3. \A r \in A : res'[r].discount = res[r].discount
    <2> SUFFICES ASSUME NEW r \in A
                 PROVE  res'[r].discount = res[r].discount
      OBVIOUS
    <2>1. r \in Res /\ res[r].status = "APPROVED" /\ res[r] # NoRow
      BY DEF Approvals, NoRow
    <2>2. r \notin Updates(t)
      BY <1>1, <2>1, CommitUpToDate DEF UpToDate, Pending
    <2> QED
      BY <1>1, <2>1, <2>2, CommitRows
  <1>4. c \in Nat /\ c = Cardinality(A) /\ usage'[u][y] \in Nat /\ usage'[u][y] >= c
    BY <1>1, CommitUsageGrows DEF UsageInv, UsageCountsApprovals
  <1>5. A # {} => c > 0
    <2>1. A \in SUBSET Res
      BY DEF Approvals
    <2>2. IsFiniteSet(A)
      BY <2>1, ReservationsFinite
    <2>3. A # {} => Cardinality(A) # 0
      BY <2>2, FS_EmptySet
    <2> HIDE DEF c, A
    <2> QED
      BY <1>4, <2>3
  <1>6. \A r \in B : /\ usage'[u][y] > c /\ res'[r].discount \in {0, CalcDiscountPercent(c)}
                     /\ \A x \in B : c = 0 \/ (res'[r].discount # 0 /\ res'[x].discount # 0)
                           => r = x
    BY CommitGrants
  <1>7. \A r, x \in A : \A d \in {30, 50} :
          res[r].discount = d /\ res[x].discount = d => r = x
    <2> SUFFICES ASSUME NEW d \in {30, 50}
                 PROVE  \A r, x \in A : res[r].discount = d /\ res[x].discount = d => r = x
      OBVIOUS
    <2>1. Cardinality(OfTier(u, y, d)) <= 1
      BY DEF TiersGrantedOnce
    <2>2. OfTier(u, y, d) \in SUBSET Res
      BY DEF OfTier, Approvals
    <2>3. \A r, x \in OfTier(u, y, d) : r = x
      BY <2>1, <2>2, AtMostOne
    <2> QED
      BY <2>3 DEF OfTier
  <1>8. \A r \in A : res[r].discount = 30 => c >= 2
    BY DEF ThirtyIsNotFirst
  <1>9. A \cup B \subseteq Res
    BY DEF Approvals, ApprovedBy
  <1> HIDE DEF A, B, c
  <1>10. CalcDiscountPercent(c) = IF c = 0 THEN 50 ELSE IF c = 1 THEN 30 ELSE 0
    BY DEF CalcDiscountPercent
  <1>11. ASSUME NEW d \in {30, 50}, NEW r \in A, NEW x \in B,
                res'[r].discount = d, res'[x].discount = d
         PROVE  FALSE
    BY <1>3, <1>4, <1>5, <1>6, <1>8, <1>10, <1>11
  <1>12. ASSUME NEW d \in {30, 50}
         PROVE  Cardinality(OfTier(u, y, d)') <= 1
    <2> DEFINE S == {r \in A \cup B : res'[r].discount = d}
    <2>1. S \in SUBSET Res
      BY <1>9
    <2>2. \A r, x \in S : r = x
      <3> SUFFICES ASSUME NEW r \in S, NEW x \in S
                   PROVE  r = x
        OBVIOUS
      <3>1. res'[r].discount = d /\ res'[x].discount = d /\ d # 0
        OBVIOUS
      <3>2. CASE r \in A /\ x \in A
        BY <1>3, <1>7, <3>1, <3>2
      <3>3. CASE r \in B /\ x \in B
        BY <1>6, <3>1, <3>3
      <3> QED
        BY <1>11, <3>1, <3>2, <3>3
    <2>3. Cardinality(S) <= 1
      <3> HIDE DEF S
      <3> QED
        BY <2>1, <2>2, AtMostOne
    <2>4. OfTier(u, y, d)' = S
      BY <1>2 DEF OfTier
    <2> HIDE DEF S
    <2> QED
      BY <2>3, <2>4
  <1>13. ASSUME NEW r \in A \cup B, res'[r].discount = 30
         PROVE  usage'[u][y] >= 2
    <2>1. CASE r \in A
      BY <1>3, <1>4, <1>8, <1>13, <2>1
    <2>2. CASE r \in B
      BY <1>4, <1>6, <1>10, <1>13, <2>2
    <2> QED
      BY <2>1, <2>2
  <1> QED
    BY <1>2, <1>12, <1>13

-----------------------------------------------------------------------------
(* Theorems.                                                               *)

LEMMA InitTables == Init => TablesInv /\ WritesHold
  <1> SUFFICES ASSUME Init
               PROVE  TablesInv /\ WritesHold
    OBVIOUS
  <1>1. \A r \in Res : res[r] = NoRow
    BY DEF Init
  <1>2. WritesHold
    BY DEF Init, WritesHold, NoTxn
  <1>3. \A u, y : Approvals(u, y) = {}
    BY <1>1 DEF Approvals, NoRow
  <1>4. PlanNotDiscounted /\ NotesAreTrue
    BY <1>1 DEF Init, PlanNotDiscounted, Pending, NotesAreTrue, NoRow
  <1>5. EligibilityBookedOnce
    <2> SUFFICES ASSUME NEW e \in Elig
                 PROVE  /\ BookedWith(e) = {} /\ ~used[e]
                        /\ Cardinality(BookedWith(e)) <= 1
      BY DEF EligibilityBookedOnce
    <2>1. BookedWith(e) = {} /\ ~used[e]
      BY <1>1 DEF Init, BookedWith
    <2> QED
      BY <2>1, FS_EmptySet
  <1>6. TiersGrantedOnce
    <2> SUFFICES ASSUME NEW u \in User, NEW y \in Year, NEW d \in {30, 50}
                 PROVE  Cardinality(OfTier(u, y, d)) <= 1
      BY DEF TiersGrantedOnce
    <2>1. OfTier(u, y, d) = {}
      BY <1>3 DEF OfTier
    <2> QED
      BY <2>1, FS_EmptySet
  <1>7. ThirtyIsNotFirst
    BY <1>3 DEF ThirtyIsNotFirst
  <1> QED
    BY <1>2, <1>4, <1>5, <1>6, <1>7 DEF TablesInv

\* A step that opens a transaction writes no table, and the writes it collects
\* are consistent and fresh.
LEMMA OpeningTables ==
    ASSUME UsageInv, WritesHold, TablesInv,
           (\E p \in Worker : Request(p)) \/ ExpirePending
    PROVE  TablesInv' /\ WritesHold' /\ UNCHANGED db
  <1>1. TypeOK /\ PlanNotDiscounted /\ Worker \subseteq Proc /\ Job \in Proc
    BY DEF UsageInv, SnapshotInv, TablesInv, Proc
  <1>2. ASSUME NEW p \in Worker, Request(p)
        PROVE  \E w : Begin(p, w) /\ Consistent(w) /\ Fresh(w)
    BY <1>1, <1>2, CreateReservationWrites, AdminCreateReservationWrites,
       ReviewPlanRequestWrites, ReviewReservationWrites, CancelReservationWrites
       DEF Request
  <1>3. ASSUME ExpirePending
        PROVE  \E w : Begin(Job, w) /\ Consistent(w) /\ Fresh(w)
    BY <1>1, <1>3, ExpirePendingFresh
  <1>4. WritesHold' /\ UNCHANGED db
    BY <1>1, <1>2, <1>3, BeginWrites
  <1> QED
    BY <1>4, TablesKept

LEMMA CommitTables ==
    ASSUME FirstUpdaterWins, UsageInv, WritesHold, TablesInv, NEW p \in Proc, Commit(p)
    PROVE  TablesInv' /\ WritesHold'
  <1>1. SnapshotInv
    BY DEF UsageInv
  <1> QED
    BY <1>1, CommitWritesHold, CommitPlans, CommitNotes, CommitEligibilities, CommitTiers
       DEF TablesInv

LEMMA OtherStepsWrites ==
    ASSUME UsageInv, WritesHold, TablesInv,
           \/ \E p \in Proc : Rollback(p)
           \/ \E c \in Slot : RoomsChange(c)
           \/ \E r \in Res : DeadlinePasses(r)
           \/ NewYear
           \/ UNCHANGED vars
    PROVE  TablesInv' /\ WritesHold'
  <1>1. SnapshotInv /\ TypeOK
    BY DEF UsageInv, SnapshotInv
  <1>2. /\ \A r \in Res : SameRow(r)
        /\ usage' = usage /\ used' = used /\ notes' = notes
        /\ \A q \in Proc : txn'[q].open => txn'[q] = txn[q] /\ stale'[q] = stale[q]
    BY <1>1, OtherStepsRows
  <1>3. TablesInv'
    BY <1>2, OtherStepsTables
  <1>4. WritesHold'
    <2> SUFFICES ASSUME NEW q \in Proc, txn'[q].open
                 PROVE  Consistent(txn[q])' /\ (~stale'[q] => Fresh(txn[q])')
      BY DEF WritesHold
    <2> DEFINE o == txn[q]
    <2>1. txn'[q] = o /\ stale'[q] = stale[q] /\ WellFormed(o) /\ Consistent(o)
      BY <1>1, <1>2 DEF WritesHold, SnapshotInv, SnapshotsHold
    <2>2. Consistent(txn[q])'
      BY <2>1 DEF Consistent, Updates
    <2>3. ASSUME ~stale'[q]
          PROVE  Fresh(txn[q])'
      <3>1. Fresh(o)
        BY <1>2, <2>1, <2>3 DEF WritesHold
      <3>2. \A r \in Updates(o) :
              /\ r \in Res /\ res'[r].user = res[r].user /\ res'[r].elig = res[r].elig
              /\ res'[r].discount = res[r].discount /\ res'[r].slot = res[r].slot
        BY <1>2, <2>1 DEF SameRow, WellFormed, Updates
      <3>3. \A r \in o.dropElig : r \in Updates(o)
        BY <2>1 DEF Consistent
      <3>4. /\ \A e \in txn'[q].use : ~used'[e]
            /\ \A r \in txn'[q].dropElig : res'[r].elig # NoElig
            /\ txn'[q].free = {res'[r].elig : r \in txn'[q].dropElig}
        BY <1>2, <2>1, <3>1, <3>2, <3>3 DEF Fresh
      <3>5. \A u \in User : /\ ApprovedBy(txn[q], u)' = ApprovedBy(o, u)
                            /\ \A r \in ApprovedBy(o, u) : Granted(r, txn[q])' = Granted(r, o)
        BY <2>1, <3>2 DEF ApprovedBy, Granted, Updates, Keep
      <3>6. \A u \in User : \A r \in ApprovedBy(txn[q], u)' :
              /\ Granted(r, txn[q])' \in {0, CalcDiscountPercent(txn'[q].seen[u])}
              /\ \A x \in ApprovedBy(txn[q], u)' :
                   txn'[q].seen[u] > 0 /\ Granted(r, txn[q])' # 0 /\ Granted(x, txn[q])' # 0
                     => r = x
        BY <2>1, <3>1, <3>5 DEF Fresh
      <3>7. \A l \in Res : txn'[q].decide[l] = "EXPIRED" =>
              \E w \in Res : WinsAgainst(w, l, txn[q])'
        <4> SUFFICES ASSUME NEW l \in Res, o.decide[l] = "EXPIRED"
                     PROVE  \E w \in Res : WinsAgainst(w, l, txn[q])'
          BY <2>1
        <4>1. PICK w \in Res : WinsAgainst(w, l, o)
          BY <3>1 DEF Fresh
        <4>2. w \in Updates(o) /\ l \in Updates(o)
          BY <4>1, DecidedRows DEF WinsAgainst
        <4>3. WinsAgainst(w, l, txn[q])'
          BY <1>2, <2>1, <3>2, <4>1, <4>2 DEF WinsAgainst, StayOf
        <4> QED
          BY <4>3
      <3> QED
        BY <3>4, <3>6, <3>7 DEF Fresh, Res
    <2> QED
      BY <2>2, <2>3
  <1> QED
    BY <1>3, <1>4

LEMMA IInvParts == IInv <=> UsageInv /\ WritesHold /\ TablesInv
  BY DEF IInv, TablesInv

LEMMA IInvStep ==
    ASSUME FirstUpdaterWins, IInv, [Next]_vars
    PROVE  IInv'
  <1>1. UsageInv /\ WritesHold /\ TablesInv
    BY IInvParts
  <1>2. UsageInv'
    BY <1>1, UsageStep
  <1>3. ASSUME (\E p \in Worker : Request(p)) \/ ExpirePending
        PROVE  TablesInv' /\ WritesHold'
    BY <1>1, <1>3, OpeningTables
  <1>4. ASSUME NEW p \in Proc, Commit(p)
        PROVE  TablesInv' /\ WritesHold'
    BY <1>1, <1>4, CommitTables
  <1>5. ASSUME \/ \E p \in Proc : Rollback(p)
               \/ \E c \in Slot : RoomsChange(c)
               \/ \E r \in Res : DeadlinePasses(r)
               \/ NewYear
               \/ UNCHANGED vars
        PROVE  TablesInv' /\ WritesHold'
    BY <1>1, <1>5, OtherStepsWrites
  <1>6. TablesInv' /\ WritesHold'
    BY <1>3, <1>4, <1>5 DEF Next
  <1> QED
    BY <1>2, <1>6 DEF IInv, TablesInv

\* Under first-updater-wins everything the model claims of a state holds at
\* once: types, snapshots, counters, eligibilities, discounts, notifications.
THEOREM InvariantCorrect ==
    ASSUME FirstUpdaterWins
    PROVE  Spec => []IInv
  <1>1. Init => IInv
    BY InitInv, InitTables, IInvParts
  <1>2. IInv /\ [Next]_vars => IInv'
    BY IInvStep
  <1> QED
    BY <1>1, <1>2, PTL DEF Spec

\* Under first-updater-wins a special-plan eligibility is booked by one reservation
\* at most, and marked used while it is, whoever reserves with it, loses it to
\* remove_plan or reserves with it again, and whatever plan requests that were made
\* with it are approved in the meantime.  (The stays of those may share it.)
THEOREM EligibilityCorrect ==
    ASSUME FirstUpdaterWins
    PROVE  Spec => []EligibilityBookedOnce
  <1>1. IInv => EligibilityBookedOnce
    BY DEF IInv
  <1> QED
    BY <1>1, InvariantCorrect, PTL

\* Under first-updater-wins no employee gets the 50% or the 30% discount for two
\* approved stays of a year, in one run of the job or in several transactions.
THEOREM TiersCorrect ==
    ASSUME FirstUpdaterWins
    PROVE  Spec => []TiersGrantedOnce
  <1>1. IInv => TiersGrantedOnce
    BY DEF IInv
  <1> QED
    BY <1>1, InvariantCorrect, PTL

\* Under first-updater-wins a notification of an approval, a rejection or a
\* cancellation is never contradicted by the reservation it is about.
THEOREM NotesCorrect ==
    ASSUME FirstUpdaterWins
    PROVE  Spec => []NotesAreTrue
  <1>1. IInv => NotesAreTrue
    BY DEF IInv
  <1> QED
    BY <1>1, InvariantCorrect, PTL

\* The commit that lets l expire approves the reservation that won against it.
LEMMA CommitIsFair ==
    ASSUME FirstUpdaterWins, IInv, NEW p \in Proc, Commit(p),
           NEW l \in Res, Becomes(l, "EXPIRED")
    PROVE  \E w \in Res :
             /\ Becomes(w, "APPROVED") /\ StayOf(w) = StayOf(l)
             /\ LET y == res'[w].year
                    before == usage[res[w].user][y]
                    after == usage'[res[l].user][y]
                IN  before < after \/ (before = after /\ w < l)
  <1> DEFINE t == txn[p]
  <1>1. SnapshotInv /\ WritesHold
    BY DEF IInv, UsageInv
  <1>2. t \in Txn /\ WellFormed(t) /\ UpToDate(t) /\ Fresh(t)
    BY <1>1, CommitFresh
  <1>3. res[l] # NoRow /\ t.decide[l] = "EXPIRED"
    BY <1>1, CommitRows DEF Becomes, Pending, NoRow
  <1>4. PICK w \in Res : WinsAgainst(w, l, t)
    BY <1>2, <1>3 DEF Fresh
  <1>5. t.decide[w] = "APPROVED" /\ w \in Updates(t) /\ l \in Updates(t)
    BY <1>3, <1>4, DecidedRows DEF WinsAgainst
  <1>6. t.reviewed /\ Pending(w) /\ res[w] # NoRow
    BY <1>2, <1>5 DEF WellFormed, UpToDate
  <1>7. res'[w].status = "APPROVED" /\ res'[w].year = t.year
    BY <1>1, <1>5, <1>6, CommitRows
  <1>8. res[w].user \in User /\ res[l].user \in User /\ t.year \in Year
    BY <1>1, <1>2, <1>3, <1>6 DEF SnapshotInv, TypeOK, Row, Txn
  <1>9. t.seen[res[w].user] = usage[res[w].user][t.year]
    <2>1. w \in ApprovedBy(t, res[w].user)
      BY <1>5 DEF ApprovedBy
    <2> QED
      BY <1>1, <1>8, <2>1, CommitSeen
  <1>10. usage'[res[l].user][t.year] = usage[res[l].user][t.year] + t.wins[res[l].user]
    BY <1>1, <1>2, <1>8, CommitUsage DEF WellFormed
  <1> HIDE DEF t
  <1>11. LET before == usage[res[w].user][t.year]
             after == usage'[res[l].user][t.year]
         IN  before < after \/ (before = after /\ w < l)
    BY <1>4, <1>9, <1>10 DEF WinsAgainst
  <1> QED
    BY <1>4, <1>6, <1>7, <1>11 DEF Becomes, WinsAgainst

\* Under first-updater-wins a reservation only expires when the job approves, in
\* the same commit, an older or less often used claim to the same stay, judged by
\* the counters as they are when it commits.
THEOREM ExpiryFair ==
    ASSUME FirstUpdaterWins
    PROVE  Spec => ExpiryIsFair
  <1> DEFINE Wins(l, w) ==
               /\ Becomes(w, "APPROVED") /\ StayOf(w) = StayOf(l)
               /\ LET y == res'[w].year
                      before == usage[res[w].user][y]
                      after == usage'[res[l].user][y]
                  IN  before < after \/ (before = after /\ w < l)
             Fair == \A l \in Res : Becomes(l, "EXPIRED") => \E w \in Res : Wins(l, w)
  <1>1. IInv /\ [Next]_vars => [Fair]_vars
    <2> SUFFICES ASSUME IInv, [Next]_vars, NEW l \in Res, Becomes(l, "EXPIRED")
                 PROVE  \E w \in Res : Wins(l, w)
      OBVIOUS
    <2>1. UsageInv /\ WritesHold /\ TablesInv /\ SnapshotInv /\ TypeOK
      BY IInvParts DEF UsageInv, SnapshotInv
    <2>2. res[l].status = "PENDING" /\ res'[l].status = "EXPIRED"
      BY DEF Becomes, Pending
    <2>3. ASSUME (\E p \in Worker : Request(p)) \/ ExpirePending
          PROVE  FALSE
      BY <2>1, <2>2, <2>3, OpeningTables DEF db
    <2>4. ASSUME \/ \E p \in Proc : Rollback(p)
                 \/ \E c \in Slot : RoomsChange(c)
                 \/ \E r \in Res : DeadlinePasses(r)
                 \/ NewYear
                 \/ UNCHANGED vars
          PROVE  FALSE
      <3>1. SameRow(l)
        BY <2>1, <2>4, OtherStepsRows
      <3> QED
        BY <2>2, <3>1 DEF SameRow
    <2>5. PICK p \in Proc : Commit(p)
      BY <2>3, <2>4 DEF Next
    <2> QED
      BY <2>5, CommitIsFair
  <1> QED
    BY <1>1, InvariantCorrect, PTL DEF Spec, ExpiryIsFair

=============================================================================
