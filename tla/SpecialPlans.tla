---------------------------- MODULE SpecialPlans ----------------------------
(***************************************************************************)
(* The special plans of one employee: a marriage or a birth grants an      *)
(* eligibility, which a reservation with use_special_plan uses up, or a    *)
(* plan request that an administrator turns into a stay.                   *)
(*                                                                         *)
(* The tables are sequences of rows, in the order of their ids.  As in     *)
(* Reservations a request is one transaction: its handler is an action     *)
(* that reads the snapshot and leaves the rows it changed and the rows it  *)
(* inserts in txn.  The database refuses the update of a row that changed  *)
(* since the snapshot (innodb_snapshot_isolation); Reservations shows what *)
(* happens without it.  Rooms, discounts and usage counters belong to the  *)
(* other modules: a request they refuse changes nothing here.              *)
(***************************************************************************)
EXTENDS Integers, Sequences, FiniteSets, Functions

CONSTANTS
    Proc,      \* request threads and the cron job
    MaxRows,   \* bound on the rows there are when a transaction opens
    PlanState  \* the states that the plan of every type takes

PlanType == {"NEW_MARRIAGE", "NEW_CHILD"}
Table == {"profile", "children", "elig", "stays", "requests"}

AnyState == {"CLOSED", "UPCOMING", "OPEN"}

ASSUME BoundAssumption ==
    /\ IsFiniteSet(Proc)
    /\ MaxRows \in Nat
    /\ PlanState \in [PlanType -> SUBSET AnyState]

VARIABLES
    db,     \* the committed rows of every table
    plan,   \* org_special_plans: of every type, whether the plan of the
            \* employee's organisation is open, will open, or is inactive or over
    txn,    \* the open transaction of every process
    stale   \* TRUE when another commit changed a row it is about to update

vars == <<db, plan, txn, stale>>

NoElig == 0  \* NULL in user_plan_eligibility_id

\* The rows of every table.  Of a reservation, request is a history column: the
\* plan request that was approved with it, 0 when the employee made it.
Rows ==
    [profile  |-> [married : BOOLEAN, number : Nat],
     children |-> {"CHILD"},
     elig     |-> [type : PlanType, used : BOOLEAN],
     stays    |-> [status : {"PENDING", "APPROVED", "REJECTED", "CANCELLED", "EXPIRED"},
                   elig : Nat, request : Nat],
     requests |-> [type : PlanType, status : {"PENDING", "APPROVED", "REJECTED"},
                   elig : Nat]]

Ids(t) == 1 .. Len(db[t])
NoRows == [t \in Table |-> <<>>]
NoTxn == [open |-> FALSE]

Init ==
    /\ db = [NoRows EXCEPT !["profile"] = <<[married |-> FALSE, number |-> 0]>>]
    /\ plan \in {f \in [PlanType -> AnyState] : \A type \in PlanType : f[type] \in PlanState[type]}
    /\ txn = [p \in Proc |-> NoTxn]
    /\ stale = [p \in Proc |-> FALSE]

\* The bound: a transaction is opened while the rows it inserts still fit.
Size(rows) == Len(rows["children"]) + Len(rows["elig"]) + Len(rows["stays"]) + Len(rows["requests"])
Fits(ins) == Size(db) + Size(ins) <= MaxRows

\* The objects of a session by table and id: one row, and those of two sets.
One(t, i, row) == [k \in {<<t, i>>} |-> row]
Both(f, g) == [k \in DOMAIN f \cup DOMAIN g |-> IF k \in DOMAIN f THEN f[k] ELSE g[k]]

\* Opens the transaction of an idle process.  rows are the objects its session
\* holds at the flush, by table and id; only those that differ from the
\* database are updated.  ins are the rows it adds.
Begin(p, rows, ins) ==
    /\ ~txn[p].open /\ Fits(ins)
    /\ LET dirty == {k \in DOMAIN rows : rows[k] # db[k[1]][k[2]]}
       IN  txn' = [txn EXCEPT ![p] = [open |-> TRUE, upd |-> Restrict(rows, dirty),
                                      ins |-> ins]]
    /\ stale' = [stale EXCEPT ![p] = FALSE]
    /\ UNCHANGED <<db, plan>>

\* The rows to insert when ins consists of a row of table t.
Add(t, row) == [NoRows EXCEPT ![t] = <<row>>]

-----------------------------------------------------------------------------
(* Life events (users/service.py).                                         *)

\* grant_user_plan_eligibility: needs an active plan that is not over yet, open
\* or still to open (eligible_from is not looked at).
Granted(type) ==
    IF plan[type] = "CLOSED" THEN <<>> ELSE <<[type |-> type, used |-> FALSE]>>

Profile == db["profile"][1]

\* Mutated form of NewlyMarried: the old status is not looked at.
NewlyMarriedAlways(married) == married

\* was_single and the status is now MARRIED
NewlyMarried(married) == married /\ ~Profile.married

\* update_user: the administrator writes the marital status of the profile.
UpdateUser(p, married) ==
    Begin(p, One("profile", 1, [Profile EXCEPT !.married = married]),
          [NoRows EXCEPT !["elig"] =
              IF NewlyMarried(married) THEN Granted("NEW_MARRIAGE") ELSE <<>>])

\* Mutated form of OneMore: the number of children is not kept.
OneMoreNever(row) == row

\* Mutated form of OneMore: the sign is wrong.
OneLess(row) == [row EXCEPT !.number = @ - 1]

\* number_of_children += 1, computed from the value the session read.
OneMore(row) == [row EXCEPT !.number = @ + 1]

\* add_child: the child, the number of children, and the grant.
AddChild(p) ==
    Begin(p, One("profile", 1, OneMore(Profile)),
          [NoRows EXCEPT !["children"] = <<"CHILD">>, !["elig"] = Granted("NEW_CHILD")])

-----------------------------------------------------------------------------
(* Using an eligibility (accommodation/service.py).                        *)

\* Mutated form of Usable: is_used is not looked at.
UsableAgain(types) ==
    LET open == {e \in Ids("elig") : /\ db["elig"][e].type \in types
                                     /\ plan[db["elig"][e].type] = "OPEN"}
    IN  IF open = {} THEN NoElig ELSE CHOOSE e \in open : \A f \in open : e <= f

\* The first unused eligibility under an open plan of one of the types; ids are
\* issued in the order of created_at.
Usable(types) ==
    LET unused == {e \in Ids("elig") : /\ ~db["elig"][e].used
                                       /\ db["elig"][e].type \in types
                                       /\ plan[db["elig"][e].type] = "OPEN"}
    IN  IF unused = {} THEN NoElig ELSE CHOOSE e \in unused : \A f \in unused : e <= f

\* The eligibility row with its new flag, as an object of the session; nothing
\* when there is no eligibility.
MarkElig(e, used) ==
    IF e = NoElig THEN <<>> ELSE One("elig", e, [db["elig"][e] EXCEPT !.used = used])

Pending(t, i) == db[t][i].status = "PENDING"

\* create_reservation with the plans that include the chosen place (none when
\* use_special_plan is off).
CreateReservation(p, types) ==
    LET e == Usable(types)
    IN  Begin(p, MarkElig(e, TRUE),
              Add("stays", [status |-> "PENDING", elig |-> e, request |-> 0]))

\* Mutated form of Released: remove_plan forgets the flag of the eligibility.
ReleasedNever(e) == <<>>

\* remove_plan: the eligibility can be used again.
Released(e) == MarkElig(e, FALSE)

\* review_reservation, with remove_plan.
ReviewReservation(p, s, status, removePlan) ==
    LET row == db["stays"][s]
        removed == removePlan /\ row.elig # NoElig
    IN  /\ Pending("stays", s)
        /\ Begin(p, Both(One("stays", s, [row EXCEPT !.status = status,
                                                     !.elig = IF removed THEN NoElig ELSE @]),
                          IF removed THEN Released(row.elig) ELSE <<>>),
                 NoRows)

\* cancel_reservation: an eligibility it used up stays used.
CancelReservation(p, s) ==
    /\ Pending("stays", s)
    /\ Begin(p, One("stays", s, [db["stays"][s] EXCEPT !.status = "CANCELLED"]), NoRows)

\* A run of expire_pending_reservations: of the overdue stays some win their
\* group (Reservations says which), and the others expire.
ExpirePending(p, overdue, winners) ==
    /\ \A s \in overdue : Pending("stays", s)
    /\ Begin(p, [k \in {"stays"} \X overdue |->
                    [db["stays"][k[2]] EXCEPT
                        !.status = IF k[2] \in winners THEN "APPROVED" ELSE "EXPIRED"]],
             NoRows)

\* The plan requests of a type that are in a status.
Requests(type, status) ==
    {r \in Ids("requests") : db["requests"][r].type = type /\ db["requests"][r].status = status}

\* Mutated form of MayRequest: only an approved request of the type refuses another.
MayRequestAgain(type) == Requests(type, "APPROVED") = {}

\* No request of the type is pending.
MayRequest(type) == Requests(type, "PENDING") = {}

\* create_plan_request: refused while a request of that type is pending.  It
\* names the eligibility it would use, if there is one, and leaves it unused.
CreatePlanRequest(p, type) ==
    /\ MayRequest(type)
    /\ Begin(p, <<>>, Add("requests", [type |-> type, status |-> "PENDING",
                                       elig |-> Usable({type})]))

\* Mutated form of Reviewable: a rejected request only is closed.
ReviewableAgain(r) == db["requests"][r].status # "REJECTED"

\* if req.status != "PENDING": raise
Reviewable(r) == Pending("requests", r)

\* review_plan_request: an approval inserts an approved stay with the
\* eligibility that the request named, and marks it used whatever its flag is.
ReviewPlanRequest(p, r, status) ==
    LET row == db["requests"][r]
        decided == One("requests", r, [row EXCEPT !.status = status])
    IN  /\ Reviewable(r)
        /\ IF status = "APPROVED"
           THEN Begin(p, Both(decided, MarkElig(row.elig, TRUE)),
                      Add("stays", [status |-> "APPROVED", elig |-> row.elig, request |-> r]))
           ELSE Begin(p, decided, NoRows)

-----------------------------------------------------------------------------
(* The end of a transaction, and the plans.                                *)

\* db.commit(): rows are updated and added, unless one changed meanwhile.
Commit(p) ==
    LET t == txn[p]
    IN  /\ t.open /\ ~stale[p]
        /\ db' = [n \in Table |->
                    [i \in Ids(n) |-> IF <<n, i>> \in DOMAIN t.upd THEN t.upd[<<n, i>>]
                                      ELSE db[n][i]] \o t.ins[n]]
        /\ txn' = [txn EXCEPT ![p] = NoTxn]
        /\ stale' = [q \in Proc |-> /\ q # p /\ txn[q].open
                                    /\ stale[q] \/ DOMAIN t.upd \cap DOMAIN txn[q].upd # {}]
        /\ UNCHANGED plan

\* The session is closed without a commit.
Rollback(p) ==
    /\ txn[p].open
    /\ txn' = [txn EXCEPT ![p] = NoTxn]
    /\ stale' = [stale EXCEPT ![p] = FALSE]
    /\ UNCHANGED <<db, plan>>

\* create_org_special_plan, update_org_special_plan, or the passing of time.
PlanChanges(type, state) ==
    /\ plan[type] # state
    /\ plan' = [plan EXCEPT ![type] = state]
    /\ UNCHANGED <<db, txn, stale>>

Request(p) ==
    \/ \E married \in BOOLEAN : UpdateUser(p, married)
    \/ AddChild(p)
    \/ \E types \in SUBSET PlanType : CreateReservation(p, types)
    \/ \E s \in Ids("stays"), status \in {"APPROVED", "REJECTED"}, plans \in BOOLEAN :
            ReviewReservation(p, s, status, plans)
    \/ \E s \in Ids("stays") : CancelReservation(p, s)
    \/ \E overdue \in SUBSET Ids("stays") : \E winners \in SUBSET overdue \ {{}} :
            ExpirePending(p, overdue, winners)
    \/ \E type \in PlanType : CreatePlanRequest(p, type)
    \/ \E r \in Ids("requests"), status \in {"APPROVED", "REJECTED"} :
            ReviewPlanRequest(p, r, status)

Next ==
    \/ \E p \in Proc : Request(p) \/ Commit(p) \/ Rollback(p)
    \/ \E type \in PlanType : \E state \in PlanState[type] : PlanChanges(type, state)

Spec == Init /\ [][Next]_vars

-----------------------------------------------------------------------------
(* Properties.                                                             *)

\* The rows of table n that transaction t updates.
Writes(t, n) == {i \in Ids(n) : <<n, i>> \in DOMAIN t.upd}

TxnTyped(t) ==
    /\ DOMAIN t.upd \subseteq UNION {{n} \X Ids(n) : n \in Table}
    /\ \A n \in Table : /\ t.ins[n] \in Seq(Rows[n])
                        /\ \A i \in Writes(t, n) : t.upd[<<n, i>>] \in Rows[n]

\* Rows of the right tables: what is committed, and what an open transaction
\* updates and adds.
TypeOK ==
    /\ plan \in [PlanType -> AnyState]
    /\ DOMAIN txn = Proc /\ stale \in [Proc -> BOOLEAN]
    /\ \A n \in Table : db[n] \in Seq(Rows[n])
    /\ Len(db["profile"]) = 1
    /\ \A s \in Ids("stays") : /\ db["stays"][s].elig \in Ids("elig") \cup {NoElig}
                               /\ db["stays"][s].request \in Ids("requests") \cup {0}
    /\ \A p \in Proc : txn[p].open => TxnTyped(txn[p])

\* The denormalised number of children is the number of child rows, although
\* every add_child computes it from a value it read before it committed.
ChildrenCounted == Profile.number = Len(db["children"])

EligOf(type, rows) == {e \in DOMAIN rows : rows[e].type = type}

\* The types of which transaction t adds an eligibility.
Granting(t) == {t.ins["elig"][i].type : i \in DOMAIN t.ins["elig"]}

\* An eligibility comes with a life event and with nothing else, one with each:
\* the commit that grants one for a marriage turns the employee from single to
\* married, even when two administrators record the marriage at once, and the
\* commit that grants one for a child adds a child.  The request that will grant
\* it opened while the plan was active and not over.  That is all of the window the
\* code looks at: the plan may be UPCOMING, where docs/business-logic-en.md:259
\* says that today must be within the window.
GrantsFollowEvents ==
    [][/\ \A type \in PlanType :
            LET more == Cardinality(EligOf(type, db'["elig"])) - Cardinality(EligOf(type, db["elig"]))
            IN  more # 0 =>
                   /\ more = 1
                   /\ type = "NEW_MARRIAGE" => ~Profile.married /\ db'["profile"][1].married
                   /\ type = "NEW_CHILD" => Len(db'["children"]) = Len(db["children"]) + 1
       /\ \A p \in Proc : ~txn[p].open /\ txn'[p].open =>
            \A type \in Granting(txn'[p]) : plan[type] \in {"UPCOMING", "OPEN"}]_vars

\* The stays that refer to eligibility e.
Referring(e) == {s \in Ids("stays") : db["stays"][s].elig = e}

\* No eligibility is lost: one that is marked used is referred to by a stay, so
\* that an employee whose plan was removed can use it again.
UsedIsReferred == \A e \in Ids("elig") : db["elig"][e].used => Referring(e) # {}

\* A plan request has one stay when it was approved, with the eligibility it
\* named, and none otherwise, however many administrators review it at once.
RequestsAreServed ==
    \A r \in Ids("requests") :
        LET row == db["requests"][r]
            served == {s \in Ids("stays") : db["stays"][s].request = r}
        IN  /\ Cardinality(served) = IF row.status = "APPROVED" THEN 1 ELSE 0
            /\ \A s \in served : db["stays"][s] = [status |-> "APPROVED", elig |-> row.elig,
                                                   request |-> r]

\* Of the stays that refer to e those that the employee booked; the others were
\* inserted for a plan request.
Booked(e) == {s \in Referring(e) : db["stays"][s].request = 0}

\* An eligibility is never booked twice, however often remove_plan frees it and the
\* employee uses it again: only the approval of a plan request can bring two stays
\* to one eligibility.
BookedOnce == \A e \in Ids("elig") : Cardinality(Booked(e)) <= 1

\* The open transactions that will insert a plan request of a type.
Asking(type) == {p \in Proc : /\ txn[p].open
                              /\ \E i \in DOMAIN txn[p].ins["requests"] :
                                    txn[p].ins["requests"][i].type = type}

\* Pending requests of one type come from processes that asked at once and from
\* nothing else: with those that are about to be inserted there are never more of
\* them than processes, and no second one if there is one process.
PendingRequestsBounded ==
    \A type \in PlanType :
        Cardinality(Requests(type, "PENDING")) + Cardinality(Asking(type)) <= Cardinality(Proc)

\* A stay under a special plan uses up an eligibility that was unused: no two
\* stays refer to the same one.
OneStayPerEligibility == \A e \in Ids("elig") : Cardinality(Referring(e)) <= 1

-----------------------------------------------------------------------------
(* The inductive invariant of SpecialPlansProofs.                          *)

\* The rows that transaction t adds refer to rows that exist.
AddsExist(t) ==
    /\ t.ins["profile"] = <<>>
    /\ \A i \in DOMAIN t.ins["stays"] :
         /\ t.ins["stays"][i].elig \in Ids("elig") \cup {NoElig}
         /\ t.ins["stays"][i].request \in Ids("requests") \cup {0}
    /\ \A i \in DOMAIN t.ins["requests"] :
         t.ins["requests"][i].elig \in Ids("elig") \cup {NoElig}

\* So do the plan requests, and what an open transaction adds.
RowsExist ==
    /\ \A r \in Ids("requests") : db["requests"][r].elig \in Ids("elig") \cup {NoElig}
    /\ \A p \in Proc : txn[p].open => AddsExist(txn[p])

\* An eligibility that the employee booked a stay with is marked, and no other
\* booked stay refers to it: removing the plan of one cannot free the eligibility
\* under another.
BookedHolds ==
    \A s \in Ids("stays") :
        LET row == db["stays"][s]
        IN  row.request = 0 /\ row.elig # NoElig =>
                /\ db["elig"][row.elig].used
                /\ \A r \in Booked(row.elig) : r = s

\* A transaction that no commit overtook writes the number of children there
\* will be,
CountFollows(t) ==
    IF 1 \in Writes(t, "profile")
    THEN t.upd[<<"profile", 1>>].number = Profile.number + Len(t.ins["children"])
    ELSE t.ins["children"] = <<>>

\* grants at most one eligibility, for the event that it records,
GrantFollows(t) ==
    /\ Len(t.ins["elig"]) <= 1
    /\ \A i \in DOMAIN t.ins["elig"] :
         LET type == t.ins["elig"][i].type
         IN  /\ ~t.ins["elig"][i].used
             /\ type = "NEW_MARRIAGE" => /\ 1 \in Writes(t, "profile")
                                         /\ ~Profile.married
                                         /\ t.upd[<<"profile", 1>>].married
             /\ type = "NEW_CHILD" => Len(t.ins["children"]) = 1

\* ends stays that are still pending, and frees the eligibility it takes away,
StaysFollow(t) ==
    \A s \in Writes(t, "stays") :
        LET old == db["stays"][s]
            new == t.upd[<<"stays", s>>]
        IN  /\ old.status = "PENDING" /\ new.status # "PENDING"
            /\ new.request = old.request
            /\ \/ new.elig = old.elig
               \/ /\ new.elig = NoElig
                  /\ old.elig \in Writes(t, "elig")
                  /\ ~t.upd[<<"elig", old.elig>>].used

\* marks an eligibility for the stay it adds, and frees one of a stay it ends,
EligFollows(t) ==
    \A e \in Writes(t, "elig") :
        LET old == db["elig"][e]
            new == t.upd[<<"elig", e>>]
        IN  /\ new.type = old.type
            /\ new.used => /\ ~old.used
                            /\ \E i \in DOMAIN t.ins["stays"] : t.ins["stays"][i].elig = e
            /\ ~new.used => \E s \in Writes(t, "stays") :
                              /\ db["stays"][s].elig = e
                              /\ t.upd[<<"stays", s>>].elig = NoElig

\* decides a plan request that is still pending,
RequestsFollow(t) ==
    \A r \in Writes(t, "requests") :
        LET old == db["requests"][r]
            new == t.upd[<<"requests", r>>]
        IN  /\ old.status = "PENDING"
            /\ new.elig = old.elig
            /\ new.status \in {"APPROVED", "REJECTED"}
            /\ new.status = "APPROVED" => Len(t.ins["stays"]) = 1 /\ t.ins["stays"][1].request = r

\* and adds at most one stay: a pending one whose eligibility it marks, or the
\* one of a plan request that it approves; and at most one request, which is pending.
AddsFollow(t) ==
    /\ Len(t.ins["stays"]) <= 1
    /\ \A i \in DOMAIN t.ins["stays"] :
         LET row == t.ins["stays"][i]
             r == row.request
         IN  /\ r = 0 => /\ row.status = "PENDING"
                         /\ row.elig # NoElig => /\ row.elig \in Writes(t, "elig")
                                                 /\ t.upd[<<"elig", row.elig>>].used
             /\ r # 0 => /\ r \in Writes(t, "requests")
                         /\ t.upd[<<"requests", r>>].status = "APPROVED"
                         /\ row.status = "APPROVED"
                         /\ row.elig = db["requests"][r].elig
    /\ Len(t.ins["requests"]) <= 1
    /\ \A i \in DOMAIN t.ins["requests"] : t.ins["requests"][i].status = "PENDING"

Consistent(t) ==
    /\ CountFollows(t) /\ GrantFollows(t) /\ StaysFollow(t)
    /\ EligFollows(t) /\ RequestsFollow(t) /\ AddsFollow(t)

WritesHold == \A p \in Proc : txn[p].open /\ ~stale[p] => Consistent(txn[p])

\* What the proofs need beside the invariants above: a marked eligibility is
\* freed by the one stay that holds it, and a transaction that can still commit
\* decides what is undecided.
Strengthening == RowsExist /\ BookedHolds /\ WritesHold

IInv == TypeOK /\ ChildrenCounted /\ UsedIsReferred /\ RequestsAreServed /\ Strengthening

=============================================================================
