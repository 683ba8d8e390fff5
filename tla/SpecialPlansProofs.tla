------------------------- MODULE SpecialPlansProofs -------------------------
(***************************************************************************)
(* For any number of processes and rows: every table keeps its rows, the   *)
(* number of children is right, grants come with life events, no           *)
(* eligibility is lost or booked twice, every plan request is served once, *)
(* and no more of a type are pending than there are processes.             *)
(***************************************************************************)
EXTENDS SpecialPlans, SequenceTheorems, FiniteSetTheorems, TLAPS

-----------------------------------------------------------------------------
(* Opening a transaction.                                                  *)

\* Transaction o of a session that held rows and added ins: it updates the rows
\* that differ from the tables.
Flushed(o, rows, ins) ==
    /\ o.open /\ o.ins = ins
    /\ DOMAIN o.upd \subseteq DOMAIN rows
    /\ \A n, i : <<n, i>> \in DOMAIN o.upd <=>
                    <<n, i>> \in DOMAIN rows /\ rows[<<n, i>>] # db[n][i]
    /\ \A n, i : <<n, i>> \in DOMAIN o.upd => o.upd[<<n, i>>] = rows[<<n, i>>]

LEMMA BeginOpens ==
    ASSUME TypeOK, NEW p \in Proc, NEW rows, NEW ins, Begin(p, rows, ins)
    PROVE  /\ Flushed(txn'[p], rows, ins)
           /\ \A q \in Proc \ {p} : txn'[q] = txn[q] /\ stale'[q] = stale[q]
           /\ DOMAIN txn' = Proc /\ stale' \in [Proc -> BOOLEAN]
           /\ UNCHANGED <<db, plan>>
  <1> DEFINE dirty == {k \in DOMAIN rows : rows[k] # db[k[1]][k[2]]}
             o == [open |-> TRUE, upd |-> Restrict(rows, dirty), ins |-> ins]
  <1>1. txn' = [txn EXCEPT ![p] = o] /\ stale' = [stale EXCEPT ![p] = FALSE]
        /\ UNCHANGED <<db, plan>>
    BY DEF Begin
  <1>2. DOMAIN o.upd = dirty /\ \A k \in dirty : o.upd[k] = rows[k]
    BY DEF Restrict
  <1>3. \A n, i : <<n, i>> \in dirty <=> <<n, i>> \in DOMAIN rows /\ rows[<<n, i>>] # db[n][i]
    OBVIOUS
  <1>4. o.open /\ o.ins = ins
    OBVIOUS
  <1>5. txn'[p] = o
    BY <1>1 DEF TypeOK
  <1>6. dirty \subseteq DOMAIN rows
    OBVIOUS
  <1> HIDE DEF o, dirty
  <1>7. Flushed(txn'[p], rows, ins)
    BY <1>2, <1>3, <1>4, <1>5, <1>6 DEF Flushed
  <1> QED
    BY <1>1, <1>7 DEF TypeOK

\* A transaction still follows the tables when the rows it writes are kept.
LEMMA KeptConsistent ==
    ASSUME NEW q \in Proc, NEW t, t = txn'[q], Consistent(t),
           \A n \in Table : Writes(txn[q], n)' = Writes(t, n),
           \A n \in Table : \A i \in Writes(t, n) : db'[n][i] = db[n][i]
    PROVE  Consistent(txn[q])'
  <1>1. /\ Writes(txn[q], "profile")' = Writes(t, "profile")
        /\ Writes(txn[q], "elig")' = Writes(t, "elig")
        /\ Writes(txn[q], "stays")' = Writes(t, "stays")
        /\ Writes(txn[q], "requests")' = Writes(t, "requests")
    BY DEF Table
  <1>2. /\ \A i \in Writes(t, "profile") : db'["profile"][i] = db["profile"][i]
        /\ \A i \in Writes(t, "elig") : db'["elig"][i] = db["elig"][i]
        /\ \A i \in Writes(t, "stays") : db'["stays"][i] = db["stays"][i]
        /\ \A i \in Writes(t, "requests") : db'["requests"][i] = db["requests"][i]
    BY DEF Table
  <1>3. CountFollows(txn[q])' /\ GrantFollows(txn[q])'
    BY <1>1, <1>2 DEF Consistent, CountFollows, GrantFollows, Profile
  <1>4. StaysFollow(txn[q])'
    <2> SUFFICES ASSUME NEW s \in Writes(txn[q], "stays")'
                 PROVE  LET old == db'["stays"][s]
                            new == txn'[q].upd[<<"stays", s>>]
                        IN  /\ old.status = "PENDING" /\ new.status # "PENDING"
                            /\ new.request = old.request
                            /\ \/ new.elig = old.elig
                               \/ /\ new.elig = NoElig
                                  /\ old.elig \in Writes(txn[q], "elig")'
                                  /\ ~txn'[q].upd[<<"elig", old.elig>>].used
      BY DEF StaysFollow
    <2>1. s \in Writes(t, "stays") /\ db'["stays"][s] = db["stays"][s]
      BY <1>1, <1>2
    <2>2. LET old == db["stays"][s]
              new == t.upd[<<"stays", s>>]
          IN  /\ old.status = "PENDING" /\ new.status # "PENDING"
              /\ new.request = old.request
              /\ \/ new.elig = old.elig
                 \/ /\ new.elig = NoElig
                    /\ old.elig \in Writes(t, "elig")
                    /\ ~t.upd[<<"elig", old.elig>>].used
      BY <2>1 DEF Consistent, StaysFollow
    <2> QED
      BY <1>1, <2>1, <2>2
  <1>5. EligFollows(txn[q])'
    <2>1. ASSUME NEW e \in Writes(t, "elig")
          PROVE  /\ t.upd[<<"elig", e>>].type = db["elig"][e].type
                 /\ t.upd[<<"elig", e>>].used =>
                      /\ ~db["elig"][e].used
                      /\ \E i \in DOMAIN t.ins["stays"] : t.ins["stays"][i].elig = e
                 /\ ~t.upd[<<"elig", e>>].used =>
                      \E s \in Writes(t, "stays") : /\ db["stays"][s].elig = e
                                                    /\ t.upd[<<"stays", s>>].elig = NoElig
      BY DEF Consistent, EligFollows
    <2> SUFFICES ASSUME NEW e \in Writes(txn[q], "elig")'
                 PROVE  /\ txn'[q].upd[<<"elig", e>>].type = db'["elig"][e].type
                        /\ txn'[q].upd[<<"elig", e>>].used =>
                             /\ ~db'["elig"][e].used
                             /\ \E i \in DOMAIN txn'[q].ins["stays"] :
                                  txn'[q].ins["stays"][i].elig = e
                        /\ ~txn'[q].upd[<<"elig", e>>].used =>
                             \E s \in Writes(txn[q], "stays")' :
                                  /\ db'["stays"][s].elig = e
                                  /\ txn'[q].upd[<<"stays", s>>].elig = NoElig
      BY DEF EligFollows
    <2>2. e \in Writes(t, "elig") /\ db'["elig"][e] = db["elig"][e]
      BY <1>1, <1>2
    <2>3. ASSUME NEW s \in Writes(t, "stays"), db["stays"][s].elig = e
          PROVE  s \in Writes(txn[q], "stays")' /\ db'["stays"][s].elig = e
      BY <1>1, <1>2, <2>3
    <2> QED
      BY <2>1, <2>2, <2>3
  <1>6. RequestsFollow(txn[q])'
    <2> SUFFICES ASSUME NEW r \in Writes(txn[q], "requests")'
                 PROVE  LET old == db'["requests"][r]
                            new == txn'[q].upd[<<"requests", r>>]
                        IN  /\ old.status = "PENDING"
                            /\ new.elig = old.elig
                            /\ new.status \in {"APPROVED", "REJECTED"}
                            /\ new.status = "APPROVED" =>
                                 /\ Len(txn'[q].ins["stays"]) = 1
                                 /\ txn'[q].ins["stays"][1].request = r
      BY DEF RequestsFollow
    <2>1. r \in Writes(t, "requests") /\ db'["requests"][r] = db["requests"][r]
      BY <1>1, <1>2
    <2>2. LET old == db["requests"][r]
              new == t.upd[<<"requests", r>>]
          IN  /\ old.status = "PENDING"
              /\ new.elig = old.elig
              /\ new.status \in {"APPROVED", "REJECTED"}
              /\ new.status = "APPROVED" => /\ Len(t.ins["stays"]) = 1
                                            /\ t.ins["stays"][1].request = r
      BY <2>1 DEF Consistent, RequestsFollow
    <2> QED
      BY <2>1, <2>2
  <1>7. AddsFollow(txn[q])'
    <2>1. /\ Len(txn'[q].ins["stays"]) <= 1 /\ Len(txn'[q].ins["requests"]) <= 1
          /\ \A i \in DOMAIN txn'[q].ins["requests"] :
               txn'[q].ins["requests"][i].status = "PENDING"
      BY DEF Consistent, AddsFollow
    <2>2. ASSUME NEW i \in DOMAIN t.ins["stays"], NEW row, row = t.ins["stays"][i]
          PROVE  /\ row.request = 0 =>
                      /\ row.status = "PENDING"
                      /\ row.elig # NoElig => /\ row.elig \in Writes(txn[q], "elig")'
                                              /\ t.upd[<<"elig", row.elig>>].used
                 /\ row.request # 0 =>
                      /\ row.request \in Writes(txn[q], "requests")'
                      /\ t.upd[<<"requests", row.request>>].status = "APPROVED"
                      /\ row.status = "APPROVED"
                      /\ row.elig = db'["requests"][row.request].elig
      <3>1. CASE row.request = 0
        BY <1>1, <2>2, <3>1 DEF Consistent, AddsFollow
      <3>2. CASE row.request # 0
        <4>1. /\ row.request \in Writes(t, "requests")
              /\ t.upd[<<"requests", row.request>>].status = "APPROVED"
              /\ row.status = "APPROVED"
              /\ row.elig = db["requests"][row.request].elig
          BY <2>2, <3>2 DEF Consistent, AddsFollow
        <4> QED
          BY <1>1, <1>2, <3>2, <4>1
      <3> QED
        BY <3>1, <3>2
    <2> QED
      BY <2>1, <2>2 DEF AddsFollow
  <1> QED
    BY <1>3, <1>4, <1>5, <1>6, <1>7 DEF Consistent

\* The stays that were approved with plan request r.
Served(r) == {s \in Ids("stays") : db["stays"][s].request = r}

\* A stay that is still pending was booked: the stay of a plan request is approved
\* from the start.
LEMMA PendingIsBooked ==
    ASSUME TypeOK, RequestsAreServed, NEW s \in Ids("stays"), db["stays"][s].status = "PENDING"
    PROVE  db["stays"][s].request = 0
  <1> SUFFICES ASSUME NEW k, k = db["stays"][s].request, k # 0 PROVE FALSE
    OBVIOUS
  <1>1. k \in Ids("requests")
    BY DEF TypeOK
  <1>2. db["stays"][s] = [status |-> "APPROVED", elig |-> db["requests"][k].elig, request |-> k]
    BY <1>1 DEF RequestsAreServed
  <1> QED
    BY <1>2

\* A step that changes no table keeps what is said of the tables.
LEMMA SameTables ==
    ASSUME IInv, db' = db
    PROVE  ChildrenCounted' /\ UsedIsReferred' /\ RequestsAreServed' /\ BookedHolds'
  <1>1. /\ Ids("stays")' = Ids("stays") /\ Ids("requests")' = Ids("requests")
        /\ Ids("elig")' = Ids("elig")
        /\ \A r : Served(r)' = Served(r) /\ Referring(r)' = Referring(r)
    BY DEF Ids, Served, Referring
  <1>2. ChildrenCounted'
    BY DEF IInv, ChildrenCounted, Profile
  <1>3. UsedIsReferred'
    <2>1. \A e \in Ids("elig") : db["elig"][e].used => Referring(e) # {}
      BY DEF IInv, UsedIsReferred
    <2> QED
      BY <1>1, <2>1 DEF UsedIsReferred
  <1>4. RequestsAreServed'
    <2>1. \A r \in Ids("requests") :
            /\ Cardinality(Served(r)) = IF db["requests"][r].status = "APPROVED" THEN 1 ELSE 0
            /\ \A s \in Served(r) :
                  db["stays"][s] = [status |-> "APPROVED", elig |-> db["requests"][r].elig,
                                    request |-> r]
      BY DEF IInv, RequestsAreServed, Served
    <2>2. \A r \in Ids("requests")' :
            /\ Cardinality(Served(r)') = IF db'["requests"][r].status = "APPROVED" THEN 1 ELSE 0
            /\ \A s \in Served(r)' :
                  db'["stays"][s] = [status |-> "APPROVED", elig |-> db'["requests"][r].elig,
                                     request |-> r]
      BY <1>1, <2>1
    <2> QED
      BY <2>2 DEF RequestsAreServed, Served
  <1>5. BookedHolds'
    <2>1. \A e : Booked(e)' = Booked(e)
      BY <1>1 DEF Booked
    <2>2. ASSUME NEW s \in Ids("stays"), db["stays"][s].request = 0,
                 db["stays"][s].elig # NoElig
          PROVE  /\ db["elig"][db["stays"][s].elig].used
                 /\ \A r \in Booked(db["stays"][s].elig) : r = s
      BY <2>2 DEF IInv, Strengthening, BookedHolds
    <2> SUFFICES ASSUME NEW s \in Ids("stays"), db["stays"][s].request = 0,
                        db["stays"][s].elig # NoElig
                 PROVE  /\ db["elig"][db["stays"][s].elig].used
                        /\ \A r \in Booked(db["stays"][s].elig)' : r = s
      BY <1>1 DEF BookedHolds
    <2> QED
      BY <2>1, <2>2
  <1> QED
    BY <1>2, <1>3, <1>4, <1>5

\* Nor does it take away the rows that the tables and the transactions name.
LEMMA SameRowsExist ==
    ASSUME IInv, db' = db, \A q \in Proc : txn'[q].open => AddsExist(txn'[q])
    PROVE  RowsExist'
  <1>1. Ids("stays")' = Ids("stays") /\ Ids("requests")' = Ids("requests")
        /\ Ids("elig")' = Ids("elig")
    BY DEF Ids
  <1>2. \A r \in Ids("requests") : db["requests"][r].elig \in Ids("elig") \cup {NoElig}
    BY DEF IInv, Strengthening, RowsExist
  <1>3. ASSUME NEW q \in Proc, txn'[q].open
        PROVE  AddsExist(txn[q])'
    <2> PICK t : t = txn'[q]
      OBVIOUS
    <2>1. AddsExist(t)
      BY <1>3
    <2> QED
      BY <1>1, <2>1 DEF AddsExist
  <1> QED
    BY <1>1, <1>2, <1>3 DEF RowsExist

\* A transaction that follows the tables before it follows them after it.
LEMMA SameConsistent ==
    ASSUME db' = db, NEW q \in Proc, NEW t, t = txn'[q], Consistent(t)
    PROVE  Consistent(txn[q])'
  <1>1. \A n \in Table : Writes(txn[q], n)' = Writes(t, n)
    BY DEF Writes, Ids
  <1>2. \A n \in Table : \A i \in Writes(t, n) : db'[n][i] = db[n][i]
    OBVIOUS
  <1> QED
    BY <1>1, <1>2, KeptConsistent

\* A step that only opens a transaction keeps the invariant when the new
\* transaction is typed and follows the tables.
LEMMA OpenInv ==
    ASSUME IInv, NEW p \in Proc, NEW o, o = txn'[p],
           TxnTyped(o), AddsExist(o), Consistent(o),
           \A q \in Proc \ {p} : txn'[q] = txn[q] /\ stale'[q] = stale[q],
           DOMAIN txn' = Proc, stale' \in [Proc -> BOOLEAN],
           UNCHANGED <<db, plan>>
    PROVE  IInv'
  <1>1. \A q \in Proc : txn'[q].open => TxnTyped(txn[q])'
    BY DEF IInv, TypeOK, TxnTyped, Writes, Ids
  <1>2. TypeOK'
    BY <1>1 DEF IInv, TypeOK, Ids
  <1>3. ChildrenCounted' /\ UsedIsReferred' /\ RequestsAreServed' /\ BookedHolds'
    BY SameTables
  <1>4. RowsExist'
    <2>1. \A q \in Proc : txn'[q].open => AddsExist(txn'[q])
      BY DEF IInv, Strengthening, RowsExist
    <2> QED
      BY <2>1, SameRowsExist
  <1>5. ASSUME NEW q \in Proc, txn'[q].open, ~stale'[q]
        PROVE  Consistent(txn[q])'
    <2> PICK t : t = txn'[q]
      OBVIOUS
    <2>1. Consistent(t)
      BY <1>5 DEF IInv, Strengthening, WritesHold
    <2> QED
      BY <2>1, SameConsistent
  <1>6. WritesHold'
    BY <1>5 DEF WritesHold
  <1> QED
    BY <1>2, <1>3, <1>4, <1>6 DEF IInv, Strengthening

LEMMA OpenStep ==
    ASSUME IInv, NEW p \in Proc, NEW rows, NEW ins, Begin(p, rows, ins),
           DOMAIN rows \subseteq UNION {{n} \X Ids(n) : n \in Table},
           \A n \in Table : ins[n] \in Seq(Rows[n]),
           \A n \in Table : \A i \in Ids(n) :
               <<n, i>> \in DOMAIN rows => rows[<<n, i>>] \in Rows[n],
           \A o : Flushed(o, rows, ins) => AddsExist(o) /\ Consistent(o)
    PROVE  IInv'
  <1>1. PICK o : o = txn'[p]
    OBVIOUS
  <1>2. Flushed(o, rows, ins)
    BY <1>1, BeginOpens DEF IInv
  <1>3. TxnTyped(o)
    <2>1. DOMAIN o.upd \subseteq UNION {{n} \X Ids(n) : n \in Table}
      BY <1>2 DEF Flushed
    <2>2. \A n \in Table : o.ins[n] \in Seq(Rows[n])
      BY <1>2 DEF Flushed
    <2>3. ASSUME NEW n \in Table, NEW i \in Writes(o, n)
          PROVE  o.upd[<<n, i>>] \in Rows[n]
      BY <1>2, <2>3 DEF Flushed, Writes
    <2> QED
      BY <2>1, <2>2, <2>3 DEF TxnTyped
  <1> QED
    BY <1>1, <1>2, <1>3, BeginOpens, OpenInv DEF IInv

-----------------------------------------------------------------------------
(* What the operators of the handlers return.                              *)

LEMMA OneRow ==
    ASSUME NEW n, NEW i, NEW row
    PROVE  /\ DOMAIN One(n, i, row) = {<<n, i>>}
           /\ One(n, i, row)[<<n, i>>] = row
  BY DEF One

\* A set of natural numbers has a least element.
LEMMA Least ==
    ASSUME NEW S, S \subseteq Nat, S # {}
    PROVE  \E x \in S : \A y \in S : x <= y
  <1> DEFINE R == {ss \in Nat \X Nat : ss[1] < ss[2]}
  <1>1. IsWellFoundedOn(R, Nat)
    BY NatLessThanWellFounded DEF OpToRel
  <1>2. PICK x \in S : \A y \in S : ~ (<<y, x>> \in R)
    <2> HIDE DEF R
    <2> QED
      BY <1>1, WFMin
  <1>3. ASSUME NEW y \in S PROVE x <= y
    <2>1. ~ (<<y, x>> \in R) /\ x \in Nat /\ y \in Nat
      BY <1>2
    <2> QED
      BY <2>1
  <1> QED
    BY <1>3

\* Usable returns an unused eligibility of one of the types, or none.
LEMMA UsableIsUnused ==
    ASSUME TypeOK, NEW types
    PROVE  \/ Usable(types) = NoElig
           \/ /\ Usable(types) \in Ids("elig")
              /\ ~db["elig"][Usable(types)].used
              /\ db["elig"][Usable(types)].type \in types
  <1> DEFINE unused == {e \in Ids("elig") : /\ ~db["elig"][e].used
                                            /\ db["elig"][e].type \in types
                                            /\ plan[db["elig"][e].type] = "OPEN"}
  <1>1. unused \subseteq Nat
    BY DEF Ids
  <1>2. CASE unused = {}
    BY <1>2 DEF Usable
  <1>3. CASE unused # {}
    <2>1. \E e \in unused : \A f \in unused : e <= f
      <3> HIDE DEF unused
      <3> QED
        BY <1>1, <1>3, Least
    <2>2. Usable(types) = CHOOSE e \in unused : \A f \in unused : e <= f
      BY <1>3 DEF Usable
    <2>3. Usable(types) \in unused
      <3> HIDE DEF unused
      <3> QED
        BY <2>1, <2>2
    <2> QED
      BY <2>3
  <1> QED
    BY <1>2, <1>3

LEMMA MarkEligRows ==
    ASSUME TypeOK, NEW e \in Ids("elig") \cup {NoElig}, NEW used \in BOOLEAN
    PROVE  /\ e = NoElig => DOMAIN MarkElig(e, used) = {}
           /\ e # NoElig => /\ DOMAIN MarkElig(e, used) = {<<"elig", e>>}
                            /\ MarkElig(e, used)[<<"elig", e>>] \in Rows["elig"]
                            /\ MarkElig(e, used)[<<"elig", e>>].used <=> used
                            /\ MarkElig(e, used)[<<"elig", e>>].type = db["elig"][e].type
                            /\ MarkElig(e, used)[<<"elig", e>>] = db["elig"][e] <=>
                                   (db["elig"][e].used <=> used)
  <1>1. CASE e = NoElig
    BY <1>1 DEF MarkElig
  <1>2. CASE e # NoElig
    <2> DEFINE row == [db["elig"][e] EXCEPT !.used = used]
    <2>1. db["elig"][e] \in [type : PlanType, used : BOOLEAN]
      BY <1>2, ElementOfSeq DEF TypeOK, Rows, Table, Ids
    <2>2. MarkElig(e, used) = One("elig", e, row)
      BY <1>2 DEF MarkElig
    <2>3. row = db["elig"][e] <=> (db["elig"][e].used <=> used)
      BY <2>1
    <2>4. row \in Rows["elig"] /\ (row.used <=> used) /\ row.type = db["elig"][e].type
      BY <2>1 DEF Rows
    <2> HIDE DEF row
    <2>5. DOMAIN MarkElig(e, used) = {<<"elig", e>>} /\ MarkElig(e, used)[<<"elig", e>>] = row
      BY <2>2, OneRow
    <2> QED
      BY <1>2, <2>3, <2>4, <2>5
  <1> QED
    BY <1>1, <1>2

-----------------------------------------------------------------------------
(* The requests.                                                           *)

LEMMA FlushedWrites ==
    ASSUME NEW o, NEW rows, NEW ins, Flushed(o, rows, ins), NEW n, NEW i
    PROVE  i \in Writes(o, n) <=>
               i \in Ids(n) /\ <<n, i>> \in DOMAIN rows /\ rows[<<n, i>>] # db[n][i]
  BY DEF Flushed, Writes

LEMMA FlushedWhere ==
    ASSUME NEW o, NEW rows, NEW ins, Flushed(o, rows, ins), NEW n, NEW i \in Writes(o, n)
    PROVE  <<n, i>> \in DOMAIN rows
  BY DEF Flushed, Writes

LEMMA NoRowsAdded ==
    /\ \A n \in Table : NoRows[n] = <<>>
    /\ \A n \in Table : NoRows[n] \in Seq(Rows[n])
  BY DEF NoRows

LEMMA OneSeq ==
    ASSUME NEW S, NEW x \in S
    PROVE  <<x>> \in Seq(S)
  OBVIOUS

LEMMA OneLong ==
    ASSUME NEW x
    PROVE  Len(<<x>>) = 1 /\ DOMAIN <<x>> = {1} /\ <<x>>[1] = x
  OBVIOUS

LEMMA NoneLong == Len(<<>>) = 0 /\ DOMAIN <<>> = {}
  OBVIOUS

\* The columns of the tables.
LEMMA RowTypes ==
    /\ Rows["profile"] = [married : BOOLEAN, number : Nat]
    /\ Rows["children"] = {"CHILD"}
    /\ Rows["elig"] = [type : PlanType, used : BOOLEAN]
    /\ Rows["stays"] = [status : {"PENDING", "APPROVED", "REJECTED", "CANCELLED", "EXPIRED"},
                        elig : Nat, request : Nat]
    /\ Rows["requests"] = [type : PlanType, status : {"PENDING", "APPROVED", "REJECTED"},
                           elig : Nat]
  BY DEF Rows

LEMMA AddedRows ==
    ASSUME NEW n \in Table, NEW row \in Rows[n]
    PROVE  /\ Add(n, row)[n] = <<row>>
           /\ \A m \in Table \ {n} : Add(n, row)[m] = <<>>
           /\ \A m \in Table : Add(n, row)[m] \in Seq(Rows[m])
  <1>1. <<row>> \in Seq(Rows[n])
    BY OneSeq
  <1>2. Add(n, row)[n] = <<row>> /\ \A m \in Table \ {n} : Add(n, row)[m] = <<>>
    BY DEF Add, NoRows
  <1>3. \A S : <<>> \in Seq(S)
    OBVIOUS
  <1> QED
    BY <1>1, <1>2, <1>3

LEMMA ProfileTyped ==
    ASSUME TypeOK
    PROVE  /\ Profile \in [married : BOOLEAN, number : Nat]
           /\ Ids("profile") = {1}
  <1>1. db["profile"] \in Seq([married : BOOLEAN, number : Nat]) /\ Len(db["profile"]) = 1
    BY RowTypes DEF TypeOK, Table
  <1>2. \A S : \A q \in Seq(S) : Len(q) = 1 => q[1] \in S
    BY ElementOfSeq
  <1>3. Profile \in [married : BOOLEAN, number : Nat]
    BY <1>1, <1>2 DEF Profile
  <1>4. Ids("profile") = {1}
    BY <1>1 DEF Ids
  <1> QED
    BY <1>3, <1>4

\* A transaction that adds the grant of one life event at most.
LEMMA OneGrant ==
    ASSUME NEW o, NEW type \in PlanType,
           \/ o.ins["elig"] = <<>>
           \/ /\ o.ins["elig"] = <<[type |-> type, used |-> FALSE]>>
              /\ type = "NEW_MARRIAGE" => /\ 1 \in Writes(o, "profile")
                                          /\ ~Profile.married
                                          /\ o.upd[<<"profile", 1>>].married
              /\ type = "NEW_CHILD" => Len(o.ins["children"]) = 1
    PROVE  GrantFollows(o)
  <1>1. CASE o.ins["elig"] = <<>>
    BY <1>1 DEF GrantFollows
  <1>2. CASE o.ins["elig"] # <<>>
    <2> DEFINE new == [type |-> type, used |-> FALSE]
    <2>1. o.ins["elig"] = <<new>> /\ new.type = type /\ ~new.used
      BY <1>2
    <2> HIDE DEF new
    <2>2. Len(o.ins["elig"]) = 1 /\ DOMAIN o.ins["elig"] = {1} /\ o.ins["elig"][1] = new
      BY <2>1, OneLong
    <2> QED
      BY <1>2, <2>1, <2>2 DEF GrantFollows
  <1> QED
    BY <1>1, <1>2

LEMMA UpdateUserInv ==
    ASSUME IInv, NEW p \in Proc, NEW married \in BOOLEAN, UpdateUser(p, married)
    PROVE  IInv'
  <1> DEFINE row == [Profile EXCEPT !.married = married]
             rows == One("profile", 1, row)
             grant == IF NewlyMarried(married) THEN Granted("NEW_MARRIAGE") ELSE <<>>
             ins == [NoRows EXCEPT !["elig"] = grant]
  <1>1. Begin(p, rows, ins)
    BY DEF UpdateUser
  <1>2. row \in Rows["profile"] /\ row.married = married /\ row.number = Profile.number
        /\ (married /\ ~Profile.married => row # Profile)
    BY ProfileTyped, RowTypes DEF IInv
  <1>3. DOMAIN rows = {<<"profile", 1>>} /\ rows[<<"profile", 1>>] = row
    BY OneRow
  <1>4. \/ grant = <<>>
        \/ /\ grant = <<[type |-> "NEW_MARRIAGE", used |-> FALSE]>>
           /\ married /\ ~Profile.married
    BY DEF NewlyMarried, Granted
  <1>5. /\ ins["elig"] = grant /\ ins["profile"] = <<>> /\ ins["children"] = <<>>
        /\ ins["stays"] = <<>> /\ ins["requests"] = <<>>
        /\ \A n \in Table : ins[n] \in Seq(Rows[n])
    <2>1. grant \in Seq(Rows["elig"])
      <3>1. [type |-> "NEW_MARRIAGE", used |-> FALSE] \in Rows["elig"]
        BY RowTypes DEF PlanType
      <3>2. <<>> \in Seq(Rows["elig"])
        OBVIOUS
      <3> QED
        BY <1>4, <3>1, <3>2, OneSeq
    <2> HIDE DEF grant
    <2> QED
      BY <2>1, NoRowsAdded DEF NoRows, Table
  <1> HIDE DEF row, rows, grant, ins
  <1>6. ASSUME NEW o, Flushed(o, rows, ins)
        PROVE  AddsExist(o) /\ Consistent(o)
    <2>1. o.ins = ins
      BY <1>6 DEF Flushed
    <2>2. Writes(o, "stays") = {} /\ Writes(o, "elig") = {} /\ Writes(o, "requests") = {}
      BY <1>3, <1>6, FlushedWrites
    <2>3. 1 \in Writes(o, "profile") => o.upd[<<"profile", 1>>] = row
      BY <1>3, <1>6 DEF Flushed, Writes
    <2>4. 1 \in Writes(o, "profile") <=> row # Profile
      BY <1>3, <1>6, FlushedWrites, ProfileTyped DEF IInv, Profile
    <2>5. AddsExist(o)
      BY <1>5, <2>1 DEF AddsExist
    <2>6. CountFollows(o)
      BY <1>2, <1>5, <2>1, <2>3, ProfileTyped DEF CountFollows, IInv
    <2>7. GrantFollows(o)
      <3>1. CASE grant = <<>>
        BY <1>5, <2>1, <3>1, OneGrant DEF PlanType
      <3>2. CASE grant # <<>>
        BY <1>2, <1>4, <1>5, <2>1, <2>3, <2>4, <3>2, OneGrant DEF PlanType
      <3> QED
        BY <3>1, <3>2
    <2>8. StaysFollow(o) /\ EligFollows(o) /\ RequestsFollow(o)
      BY <2>2 DEF StaysFollow, EligFollows, RequestsFollow
    <2>9. AddsFollow(o)
      BY <1>5, <2>1, NoneLong DEF AddsFollow
    <2> QED
      BY <2>5, <2>6, <2>7, <2>8, <2>9 DEF Consistent
  <1>7. DOMAIN rows \subseteq UNION {{n} \X Ids(n) : n \in Table}
    BY <1>3, ProfileTyped DEF IInv, Table
  <1>8. \A n \in Table : \A i \in Ids(n) : <<n, i>> \in DOMAIN rows => rows[<<n, i>>] \in Rows[n]
    BY <1>2, <1>3
  <1> QED
    BY <1>1, <1>5, <1>6, <1>7, <1>8, OpenStep

LEMMA AddChildInv ==
    ASSUME IInv, NEW p \in Proc, AddChild(p)
    PROVE  IInv'
  <1> DEFINE row == OneMore(Profile)
             rows == One("profile", 1, row)
             grant == Granted("NEW_CHILD")
             ins == [NoRows EXCEPT !["children"] = <<"CHILD">>, !["elig"] = grant]
  <1>1. Begin(p, rows, ins)
    BY DEF AddChild
  <1>2. row \in Rows["profile"] /\ row.number = Profile.number + 1 /\ row # Profile
    BY ProfileTyped, RowTypes DEF IInv, OneMore
  <1>3. DOMAIN rows = {<<"profile", 1>>} /\ rows[<<"profile", 1>>] = row
    BY OneRow
  <1>4. grant = <<>> \/ grant = <<[type |-> "NEW_CHILD", used |-> FALSE]>>
    BY DEF Granted
  <1>5. /\ ins["elig"] = grant /\ ins["profile"] = <<>> /\ ins["children"] = <<"CHILD">>
        /\ ins["stays"] = <<>> /\ ins["requests"] = <<>>
        /\ \A n \in Table : ins[n] \in Seq(Rows[n])
    <2>1. grant \in Seq(Rows["elig"])
      <3>1. [type |-> "NEW_CHILD", used |-> FALSE] \in Rows["elig"]
        BY RowTypes DEF PlanType
      <3>2. <<>> \in Seq(Rows["elig"])
        OBVIOUS
      <3>3. <<[type |-> "NEW_CHILD", used |-> FALSE]>> \in Seq(Rows["elig"])
        BY <3>1, OneSeq
      <3> QED
        BY <1>4, <3>2, <3>3
    <2>2. <<"CHILD">> \in Seq(Rows["children"])
      BY RowTypes, OneSeq
    <2> HIDE DEF grant
    <2> QED
      BY <2>1, <2>2, NoRowsAdded DEF NoRows, Table
  <1> HIDE DEF row, rows, grant, ins
  <1>6. ASSUME NEW o, Flushed(o, rows, ins)
        PROVE  AddsExist(o) /\ Consistent(o)
    <2>1. o.ins = ins
      BY <1>6 DEF Flushed
    <2>2. Writes(o, "stays") = {} /\ Writes(o, "elig") = {} /\ Writes(o, "requests") = {}
      BY <1>3, <1>6, FlushedWrites
    <2>3. 1 \in Writes(o, "profile") /\ o.upd[<<"profile", 1>>] = row
      <3>1. 1 \in Writes(o, "profile")
        BY <1>2, <1>3, <1>6, FlushedWrites, ProfileTyped DEF IInv, Profile
      <3> QED
        BY <1>3, <1>6, <3>1 DEF Flushed, Writes
    <2>4. AddsExist(o)
      BY <1>5, <2>1 DEF AddsExist
    <2>5. CountFollows(o)
      BY <1>2, <1>5, <2>1, <2>3, OneLong DEF CountFollows
    <2>6. GrantFollows(o)
      <3>1. Len(o.ins["children"]) = 1
        BY <1>5, <2>1, OneLong
      <3> QED
        BY <1>4, <1>5, <2>1, <3>1, OneGrant DEF PlanType
    <2>7. StaysFollow(o) /\ EligFollows(o) /\ RequestsFollow(o)
      BY <2>2 DEF StaysFollow, EligFollows, RequestsFollow
    <2>8. AddsFollow(o)
      BY <1>5, <2>1, NoneLong DEF AddsFollow
    <2> QED
      BY <2>4, <2>5, <2>6, <2>7, <2>8 DEF Consistent
  <1>7. DOMAIN rows \subseteq UNION {{n} \X Ids(n) : n \in Table}
    BY <1>3, ProfileTyped DEF IInv, Table
  <1>8. \A n \in Table : \A i \in Ids(n) : <<n, i>> \in DOMAIN rows => rows[<<n, i>>] \in Rows[n]
    BY <1>2, <1>3
  <1> QED
    BY <1>1, <1>5, <1>6, <1>7, <1>8, OpenStep

\* A transaction that writes neither the profile nor a child nor a grant.
LEMMA NoEvent ==
    ASSUME NEW o, o.ins["children"] = <<>>, o.ins["elig"] = <<>>, 1 \notin Writes(o, "profile")
    PROVE  CountFollows(o) /\ GrantFollows(o)
  BY DEF CountFollows, GrantFollows

\* A transaction that adds one stay, asked for by the employee or by a request
\* it approves.
LEMMA OneStay ==
    ASSUME NEW o, NEW stay, o.ins["stays"] = <<stay>>, o.ins["requests"] = <<>>,
           stay.request = 0 => /\ stay.status = "PENDING"
                               /\ stay.elig # NoElig => /\ stay.elig \in Writes(o, "elig")
                                                        /\ o.upd[<<"elig", stay.elig>>].used,
           stay.request # 0 => /\ stay.request \in Writes(o, "requests")
                               /\ o.upd[<<"requests", stay.request>>].status = "APPROVED"
                               /\ stay.status = "APPROVED"
                               /\ stay.elig = db["requests"][stay.request].elig
    PROVE  AddsFollow(o)
  <1>1. /\ Len(o.ins["stays"]) = 1 /\ DOMAIN o.ins["stays"] = {1} /\ o.ins["stays"][1] = stay
        /\ Len(o.ins["requests"]) = 0 /\ DOMAIN o.ins["requests"] = {}
    BY OneLong, NoneLong
  <1> QED
    BY <1>1 DEF AddsFollow

LEMMA CreateReservationInv ==
    ASSUME IInv, NEW p \in Proc, NEW types, CreateReservation(p, types)
    PROVE  IInv'
  <1> DEFINE e == Usable(types)
             rows == MarkElig(e, TRUE)
             stay == [status |-> "PENDING", elig |-> e, request |-> 0]
             ins == Add("stays", stay)
  <1>1. Begin(p, rows, ins)
    BY DEF CreateReservation
  <1>2. e = NoElig \/ (e \in Ids("elig") /\ ~db["elig"][e].used)
    BY UsableIsUnused DEF IInv
  <1>3. /\ e = NoElig => DOMAIN rows = {}
        /\ e # NoElig => /\ DOMAIN rows = {<<"elig", e>>} /\ rows[<<"elig", e>>].used
                         /\ rows[<<"elig", e>>] \in Rows["elig"]
                         /\ rows[<<"elig", e>>].type = db["elig"][e].type
                         /\ rows[<<"elig", e>>] # db["elig"][e]
    <2> HIDE DEF e
    <2>1. e \in Ids("elig") \cup {NoElig}
      BY <1>2
    <2>2. CASE e = NoElig
      BY <2>1, <2>2, MarkEligRows DEF IInv
    <2>3. CASE e # NoElig
      BY <1>2, <2>1, <2>3, MarkEligRows DEF IInv
    <2> QED
      BY <2>2, <2>3
  <1>4. stay \in Rows["stays"] /\ stay.status = "PENDING" /\ stay.elig = e /\ stay.request = 0
    BY <1>2, RowTypes DEF NoElig, Ids
  <1> HIDE DEF stay
  <1>5. /\ ins["stays"] = <<stay>> /\ ins["profile"] = <<>> /\ ins["children"] = <<>>
        /\ ins["elig"] = <<>> /\ ins["requests"] = <<>>
        /\ \A n \in Table : ins[n] \in Seq(Rows[n])
    BY <1>4, AddedRows DEF Table
  <1> HIDE DEF e, rows, ins
  <1>6. ASSUME NEW o, Flushed(o, rows, ins)
        PROVE  AddsExist(o) /\ Consistent(o)
    <2>1. o.ins = ins
      BY <1>6 DEF Flushed
    <2>2. /\ Writes(o, "profile") = {} /\ Writes(o, "stays") = {} /\ Writes(o, "requests") = {}
          /\ e = NoElig => Writes(o, "elig") = {}
          /\ e # NoElig => Writes(o, "elig") = {e}
      <3>1. CASE e = NoElig
        BY <1>3, <1>6, <3>1, FlushedWrites
      <3>2. CASE e # NoElig
        <4>1. e \in Writes(o, "elig")
          BY <1>2, <1>3, <1>6, <3>2, FlushedWrites
        <4>2. ASSUME NEW n, NEW i \in Writes(o, n) PROVE n = "elig" /\ i = e
          BY <1>3, <1>6, <3>2, <4>2, FlushedWrites
        <4> QED
          BY <3>2, <4>1, <4>2
      <3> QED
        BY <3>1, <3>2
    <2>3. e # NoElig => o.upd[<<"elig", e>>] = rows[<<"elig", e>>]
      BY <1>6, <2>2 DEF Flushed, Writes
    <2>4. AddsExist(o)
      BY <1>2, <1>4, <1>5, <2>1, OneLong DEF AddsExist
    <2>5. CountFollows(o) /\ GrantFollows(o)
      BY <1>5, <2>1, <2>2, NoEvent
    <2>6. StaysFollow(o) /\ RequestsFollow(o)
      BY <2>2 DEF StaysFollow, RequestsFollow
    <2>7. EligFollows(o)
      <3>1. 1 \in DOMAIN o.ins["stays"] /\ o.ins["stays"][1].elig = e
        BY <1>4, <1>5, <2>1, OneLong
      <3> QED
        BY <1>2, <1>3, <2>2, <2>3, <3>1 DEF EligFollows
    <2>8. AddsFollow(o)
      <3>1. e # NoElig => e \in Writes(o, "elig") /\ o.upd[<<"elig", e>>].used
        BY <1>3, <2>2, <2>3
      <3> QED
        BY <1>4, <1>5, <2>1, <3>1, OneStay
    <2> QED
      BY <2>4, <2>5, <2>6, <2>7, <2>8 DEF Consistent
  <1>7. DOMAIN rows \subseteq UNION {{n} \X Ids(n) : n \in Table}
    BY <1>2, <1>3 DEF Table
  <1>8. \A n \in Table : \A i \in Ids(n) : <<n, i>> \in DOMAIN rows => rows[<<n, i>>] \in Rows[n]
    BY <1>3
  <1> QED
    BY <1>1, <1>5, <1>6, <1>7, <1>8, OpenStep

LEMMA StayTyped ==
    ASSUME TypeOK, NEW s \in Ids("stays")
    PROVE  /\ db["stays"][s] \in Rows["stays"]
           /\ db["stays"][s].elig \in Ids("elig") \cup {NoElig}
           /\ db["stays"][s].request \in Ids("requests") \cup {0}
  BY ElementOfSeq DEF TypeOK, Table, Ids

LEMMA RequestTyped ==
    ASSUME TypeOK, RowsExist, NEW r \in Ids("requests")
    PROVE  /\ db["requests"][r] \in Rows["requests"]
           /\ db["requests"][r].elig \in Ids("elig") \cup {NoElig}
  BY ElementOfSeq DEF TypeOK, RowsExist, Table, Ids

\* A transaction that adds nothing has no more to follow than the stays it
\* ends and the eligibilities it frees.
LEMMA AddsNothing ==
    ASSUME NEW o, o.ins = NoRows, Writes(o, "profile") = {}, Writes(o, "requests") = {},
           StaysFollow(o), EligFollows(o)
    PROVE  AddsExist(o) /\ Consistent(o)
  <1>1. /\ o.ins["profile"] = <<>> /\ o.ins["children"] = <<>> /\ o.ins["elig"] = <<>>
        /\ o.ins["stays"] = <<>> /\ o.ins["requests"] = <<>>
    BY NoRowsAdded DEF Table
  <1>2. AddsExist(o) /\ AddsFollow(o)
    BY <1>1, NoneLong DEF AddsExist, AddsFollow
  <1>3. CountFollows(o) /\ GrantFollows(o)
    BY <1>1, NoEvent
  <1>4. RequestsFollow(o)
    BY DEF RequestsFollow
  <1> QED
    BY <1>2, <1>3, <1>4 DEF Consistent

LEMMA ReviewReservationInv ==
    ASSUME IInv, NEW p \in Proc, NEW s \in Ids("stays"), NEW status \in {"APPROVED", "REJECTED"},
           NEW removePlan \in BOOLEAN, ReviewReservation(p, s, status, removePlan)
    PROVE  IInv'
  <1> DEFINE row == db["stays"][s]
             e == row.elig
             removed == removePlan /\ e # NoElig
             new == [row EXCEPT !.status = status, !.elig = IF removed THEN NoElig ELSE @]
             extra == IF removed THEN Released(e) ELSE <<>>
             rows == Both(One("stays", s, new), extra)
  <1>1. Begin(p, rows, NoRows) /\ row.status = "PENDING"
    BY DEF ReviewReservation, Pending
  <1>2. row \in Rows["stays"] /\ e \in Ids("elig") \cup {NoElig}
    BY StayTyped DEF IInv
  <1>3. /\ new \in Rows["stays"] /\ new.status = status /\ new.request = row.request
        /\ removed => new.elig = NoElig
        /\ ~removed => new.elig = e
        /\ new # row
    <2>1. row \in [status : {"PENDING", "APPROVED", "REJECTED", "CANCELLED", "EXPIRED"},
                   elig : Nat, request : Nat]
      BY <1>2, RowTypes
    <2>2. CASE removed
      <3>1. new = [row EXCEPT !.status = status, !.elig = NoElig]
        BY <2>2
      <3> HIDE DEF new, row, removed
      <3> QED
        BY <1>1, <2>1, <2>2, <3>1, RowTypes DEF NoElig
    <2>3. CASE ~removed
      <3>1. new = [row EXCEPT !.status = status, !.elig = e]
        BY <2>3
      <3> HIDE DEF new, row, removed
      <3> QED
        BY <1>1, <2>1, <2>3, <3>1, RowTypes
    <2> QED
      BY <2>2, <2>3
  <1>4. removed => db["elig"][e].used
    <2>1. row.request = 0
      BY <1>1, PendingIsBooked DEF IInv
    <2> QED
      BY <2>1 DEF IInv, Strengthening, BookedHolds
  <1>5. /\ ~removed => DOMAIN extra = {}
        /\ removed => /\ DOMAIN extra = {<<"elig", e>>} /\ ~extra[<<"elig", e>>].used
                      /\ extra[<<"elig", e>>] \in Rows["elig"]
                      /\ extra[<<"elig", e>>].type = db["elig"][e].type
                      /\ extra[<<"elig", e>>] # db["elig"][e]
    <2>1. CASE ~removed
      BY <2>1, NoneLong
    <2>2. CASE removed
      <3>1. extra = MarkElig(e, FALSE) /\ e # NoElig
        BY <2>2 DEF Released
      <3> HIDE DEF extra, e
      <3> QED
        BY <1>2, <1>4, <2>2, <3>1, MarkEligRows DEF IInv
    <2> QED
      BY <2>1, <2>2
  <1> HIDE DEF extra, new, row
  <1>6. /\ <<"stays", s>> \in DOMAIN rows /\ rows[<<"stays", s>>] = new
        /\ removed => <<"elig", e>> \in DOMAIN rows /\ rows[<<"elig", e>>] = extra[<<"elig", e>>]
        /\ DOMAIN rows = {<<"stays", s>>} \cup DOMAIN extra
        /\ \A a, b : <<a, b>> \in DOMAIN rows =>
                       (a = "stays" /\ b = s) \/ (removed /\ a = "elig" /\ b = e)
    <2> HIDE DEF removed, e
    <2>1. DOMAIN extra \subseteq {<<"elig", e>>} /\ (removed <=> <<"elig", e>> \in DOMAIN extra)
      BY <1>5
    <2>2. rows[<<"stays", s>>] = new /\ DOMAIN rows = {<<"stays", s>>} \cup DOMAIN extra
      BY <2>1 DEF Both, One
    <2>3. removed => rows[<<"elig", e>>] = extra[<<"elig", e>>]
      BY <2>1 DEF Both, One
    <2> HIDE DEF rows
    <2> QED
      BY <1>5, <2>1, <2>2, <2>3
  <1> HIDE DEF rows, removed
  <1>7. ASSUME NEW o, Flushed(o, rows, NoRows)
        PROVE  AddsExist(o) /\ Consistent(o)
    <2>1. o.ins = NoRows
      BY <1>7 DEF Flushed
    <2>2. ASSUME NEW n, NEW i \in Writes(o, n)
          PROVE  (n = "stays" /\ i = s) \/ (removed /\ n = "elig" /\ i = e)
      BY <1>5, <1>6, <1>7, <2>2, FlushedWrites
    <2>3. s \in Writes(o, "stays") /\ o.upd[<<"stays", s>>] = new
      <3>1. s \in Writes(o, "stays")
        BY <1>3, <1>6, <1>7, FlushedWrites DEF row
      <3> QED
        BY <1>6, <1>7, <3>1 DEF Flushed, Writes
    <2>4. removed => e \in Writes(o, "elig") /\ o.upd[<<"elig", e>>] = extra[<<"elig", e>>]
      <3> SUFFICES ASSUME removed
                   PROVE  e \in Writes(o, "elig") /\ o.upd[<<"elig", e>>] = extra[<<"elig", e>>]
        OBVIOUS
      <3>1. e \in Ids("elig")
        BY <1>2 DEF removed
      <3>2. e \in Writes(o, "elig")
        BY <1>5, <1>6, <1>7, <3>1, FlushedWrites
      <3> QED
        BY <1>6, <1>7, <3>2 DEF Flushed, Writes
    <2>5. StaysFollow(o)
      BY <1>1, <1>3, <1>5, <2>2, <2>3, <2>4 DEF StaysFollow, row
    <2>6. EligFollows(o)
      <3>1. ASSUME NEW i \in Writes(o, "elig")
            PROVE  /\ i = e /\ removed /\ o.upd[<<"elig", i>>].type = db["elig"][i].type
                   /\ ~o.upd[<<"elig", i>>].used
        BY <1>5, <2>2, <2>4, <3>1
      <3>2. /\ removed => db["stays"][s].elig = e
            /\ removed => s \in Writes(o, "stays") /\ o.upd[<<"stays", s>>].elig = NoElig
        BY <1>3, <2>3 DEF row
      <3> HIDE DEF e
      <3> QED
        BY <3>1, <3>2 DEF EligFollows
    <2>7. Writes(o, "profile") = {} /\ Writes(o, "requests") = {}
      BY <2>2
    <2> QED
      BY <2>1, <2>5, <2>6, <2>7, AddsNothing
  <1>8. DOMAIN rows \subseteq UNION {{n} \X Ids(n) : n \in Table}
    BY <1>2, <1>5, <1>6 DEF Table, removed
  <1>9. \A n \in Table : \A i \in Ids(n) : <<n, i>> \in DOMAIN rows => rows[<<n, i>>] \in Rows[n]
    BY <1>3, <1>5, <1>6
  <1> QED
    BY <1>1, <1>7, <1>8, <1>9, NoRowsAdded, OpenStep

\* A session that holds pending stays only, and ends some of them.
LEMMA StaysEnd ==
    ASSUME IInv, NEW p \in Proc, NEW rows, NEW ended, ended \subseteq Ids("stays"),
           Begin(p, rows, NoRows),
           DOMAIN rows = {"stays"} \X ended,
           \A s \in ended :
               /\ Pending("stays", s)
               /\ rows[<<"stays", s>>] \in Rows["stays"]
               /\ rows[<<"stays", s>>].status # "PENDING"
               /\ rows[<<"stays", s>>].elig = db["stays"][s].elig
               /\ rows[<<"stays", s>>].request = db["stays"][s].request
    PROVE  IInv'
  <1>1. ASSUME NEW o, Flushed(o, rows, NoRows)
        PROVE  AddsExist(o) /\ Consistent(o)
    <2>1. o.ins = NoRows
      BY <1>1 DEF Flushed
    <2>2. ASSUME NEW n, NEW i \in Writes(o, n)
          PROVE  n = "stays" /\ i \in ended
      <3>1. <<n, i>> \in DOMAIN rows
        BY <1>1, <2>2, FlushedWhere
      <3> QED
        BY <3>1
    <2>3. StaysFollow(o)
      <3>1. ASSUME NEW s \in Writes(o, "stays")
            PROVE  s \in ended /\ o.upd[<<"stays", s>>] = rows[<<"stays", s>>]
        BY <1>1, <2>2, <3>1 DEF Flushed, Writes
      <3> QED
        BY <3>1 DEF StaysFollow, Pending
    <2>4. Writes(o, "elig") = {} /\ Writes(o, "profile") = {} /\ Writes(o, "requests") = {}
      BY <2>2
    <2>5. EligFollows(o)
      BY <2>4 DEF EligFollows
    <2> QED
      BY <2>1, <2>3, <2>4, <2>5, AddsNothing
  <1>2. DOMAIN rows \subseteq UNION {{n} \X Ids(n) : n \in Table}
    BY DEF Table
  <1>3. \A n \in Table : \A i \in Ids(n) : <<n, i>> \in DOMAIN rows => rows[<<n, i>>] \in Rows[n]
    OBVIOUS
  <1> QED
    BY <1>1, <1>2, <1>3, NoRowsAdded, OpenStep

LEMMA CancelReservationInv ==
    ASSUME IInv, NEW p \in Proc, NEW s \in Ids("stays"), CancelReservation(p, s)
    PROVE  IInv'
  <1> DEFINE new == [db["stays"][s] EXCEPT !.status = "CANCELLED"]
             rows == One("stays", s, new)
  <1>1. Begin(p, rows, NoRows) /\ Pending("stays", s)
    BY DEF CancelReservation
  <1>2. /\ new \in Rows["stays"] /\ new.status = "CANCELLED"
        /\ new.elig = db["stays"][s].elig /\ new.request = db["stays"][s].request
    <2>1. db["stays"][s] \in Rows["stays"]
      BY StayTyped DEF IInv
    <2> QED
      BY <2>1, RowTypes
  <1> HIDE DEF new
  <1>3. DOMAIN rows = {"stays"} \X {s} /\ rows[<<"stays", s>>] = new
    BY DEF One
  <1> HIDE DEF rows
  <1>4. PICK ended : ended = {s}
    OBVIOUS
  <1>5. ASSUME NEW r \in ended
        PROVE  /\ Pending("stays", r)
               /\ rows[<<"stays", r>>] \in Rows["stays"]
               /\ rows[<<"stays", r>>].status # "PENDING"
               /\ rows[<<"stays", r>>].elig = db["stays"][r].elig
               /\ rows[<<"stays", r>>].request = db["stays"][r].request
    <2>1. r = s
      BY <1>4
    <2> QED
      BY <1>1, <1>2, <1>3, <2>1
  <1>6. ended \subseteq Ids("stays") /\ DOMAIN rows = {"stays"} \X ended
    BY <1>3, <1>4
  <1> QED
    BY <1>1, <1>5, <1>6, StaysEnd

LEMMA ExpirePendingInv ==
    ASSUME IInv, NEW p \in Proc, NEW overdue \in SUBSET Ids("stays"), NEW winners,
           ExpirePending(p, overdue, winners)
    PROVE  IInv'
  <1> DEFINE new(s) == [db["stays"][s] EXCEPT
                            !.status = IF s \in winners THEN "APPROVED" ELSE "EXPIRED"]
             rows == [k \in {"stays"} \X overdue |-> new(k[2])]
  <1>1. Begin(p, rows, NoRows) /\ \A s \in overdue : Pending("stays", s)
    BY DEF ExpirePending
  <1>2. ASSUME NEW s \in overdue
        PROVE  /\ new(s) \in Rows["stays"] /\ new(s).status # "PENDING"
               /\ new(s).elig = db["stays"][s].elig /\ new(s).request = db["stays"][s].request
    <2>1. db["stays"][s] \in Rows["stays"]
      BY StayTyped DEF IInv
    <2> QED
      BY <2>1, RowTypes
  <1> HIDE DEF new
  <1>3. DOMAIN rows = {"stays"} \X overdue /\ \A s \in overdue : rows[<<"stays", s>>] = new(s)
    OBVIOUS
  <1> HIDE DEF rows
  <1>4. ASSUME NEW s \in overdue
        PROVE  /\ Pending("stays", s)
               /\ rows[<<"stays", s>>] \in Rows["stays"]
               /\ rows[<<"stays", s>>].status # "PENDING"
               /\ rows[<<"stays", s>>].elig = db["stays"][s].elig
               /\ rows[<<"stays", s>>].request = db["stays"][s].request
    BY <1>1, <1>2, <1>3
  <1>5. overdue \subseteq Ids("stays")
    OBVIOUS
  <1> QED
    BY <1>1, <1>3, <1>4, <1>5, StaysEnd

LEMMA CreatePlanRequestInv ==
    ASSUME IInv, NEW p \in Proc, NEW type \in PlanType, CreatePlanRequest(p, type)
    PROVE  IInv'
  <1> DEFINE e == Usable({type})
             new == [type |-> type, status |-> "PENDING", elig |-> e]
             ins == Add("requests", new)
  <1>1. Begin(p, <<>>, ins)
    BY DEF CreatePlanRequest
  <1>2. e \in Ids("elig") \cup {NoElig}
    BY UsableIsUnused DEF IInv
  <1>3. new \in Rows["requests"] /\ new.status = "PENDING" /\ new.elig = e
    BY <1>2, RowTypes DEF NoElig, Ids
  <1> HIDE DEF new
  <1>4. /\ ins["requests"] = <<new>> /\ ins["profile"] = <<>> /\ ins["children"] = <<>>
        /\ ins["elig"] = <<>> /\ ins["stays"] = <<>>
        /\ \A n \in Table : ins[n] \in Seq(Rows[n])
    BY <1>3, AddedRows DEF Table
  <1> HIDE DEF e, ins
  <1>5. ASSUME NEW o, Flushed(o, <<>>, ins)
        PROVE  AddsExist(o) /\ Consistent(o)
    <2>1. o.ins = ins /\ \A n : Writes(o, n) = {}
      BY <1>5, NoneLong DEF Flushed, Writes
    <2>2. /\ Len(o.ins["requests"]) = 1
          /\ DOMAIN o.ins["requests"] = {1} /\ o.ins["requests"][1] = new
          /\ Len(o.ins["stays"]) = 0 /\ DOMAIN o.ins["stays"] = {}
      BY <1>4, <2>1, OneLong, NoneLong
    <2>3. AddsExist(o) /\ AddsFollow(o)
      <3>1. AddsFollow(o)
        BY <1>3, <2>2 DEF AddsFollow
      <3>2. o.ins["profile"] = <<>> /\ new.elig \in Ids("elig") \cup {NoElig}
        BY <1>2, <1>3, <1>4, <2>1
      <3> QED
        BY <2>2, <3>1, <3>2 DEF AddsExist
    <2>4. CountFollows(o) /\ GrantFollows(o)
      BY <1>4, <2>1, NoEvent
    <2>5. StaysFollow(o) /\ EligFollows(o) /\ RequestsFollow(o)
      BY <2>1 DEF StaysFollow, EligFollows, RequestsFollow
    <2> QED
      BY <2>3, <2>4, <2>5 DEF Consistent
  <1> QED
    BY <1>1, <1>4, <1>5, NoneLong, OpenStep

LEMMA ReviewPlanRequestInv ==
    ASSUME IInv, NEW p \in Proc, NEW r \in Ids("requests"),
           NEW status \in {"APPROVED", "REJECTED"}, ReviewPlanRequest(p, r, status)
    PROVE  IInv'
  <1> DEFINE row == db["requests"][r]
             e == row.elig
             new == [row EXCEPT !.status = status]
             one == One("requests", r, new)
             extra == MarkElig(e, TRUE)
             stay == [status |-> "APPROVED", elig |-> e, request |-> r]
  <1>1. /\ Pending("requests", r)
        /\ status = "APPROVED" => Begin(p, Both(one, extra), Add("stays", stay))
        /\ status = "REJECTED" => Begin(p, one, NoRows)
    BY DEF ReviewPlanRequest, Reviewable
  <1>2. row \in Rows["requests"] /\ e \in Ids("elig") \cup {NoElig} /\ row.status = "PENDING"
    BY <1>1, RequestTyped DEF IInv, Strengthening, Pending
  <1>3. new \in Rows["requests"] /\ new.status = status /\ new.elig = e /\ new # row
    BY <1>2, RowTypes
  <1>4. /\ DOMAIN extra \subseteq {<<"elig", e>>}
        /\ <<"elig", e>> \in DOMAIN extra =>
              /\ e \in Ids("elig") /\ extra[<<"elig", e>>].used
              /\ extra[<<"elig", e>>] \in Rows["elig"]
              /\ extra[<<"elig", e>>].type = db["elig"][e].type
              /\ extra[<<"elig", e>>] = db["elig"][e] <=> db["elig"][e].used
    <2> HIDE DEF e
    <2>1. CASE e = NoElig
      BY <1>2, <2>1, MarkEligRows DEF IInv
    <2>2. CASE e # NoElig
      BY <1>2, <2>2, MarkEligRows DEF IInv
    <2> QED
      BY <2>1, <2>2
  <1>5. stay \in Rows["stays"] /\ stay.status = "APPROVED" /\ stay.elig = e /\ stay.request = r
        /\ r # 0
    BY <1>2, RowTypes DEF NoElig, Ids
  <1>6. DOMAIN one = {<<"requests", r>>} /\ one[<<"requests", r>>] = new
    BY OneRow
  <1>7. CASE status = "APPROVED"
    <2> DEFINE rows == Both(one, extra)
               ins == Add("stays", stay)
    <2> HIDE DEF extra, new, stay
    <2>1. /\ ins["stays"] = <<stay>> /\ ins["profile"] = <<>> /\ ins["children"] = <<>>
          /\ ins["elig"] = <<>> /\ ins["requests"] = <<>>
          /\ \A n \in Table : ins[n] \in Seq(Rows[n])
      BY <1>5, AddedRows DEF Table
    <2> HIDE DEF e
    <2>2. rows[<<"requests", r>>] = new /\ DOMAIN rows = {<<"requests", r>>} \cup DOMAIN extra
      BY <1>4 DEF Both, One
    <2>3. <<"elig", e>> \in DOMAIN extra => rows[<<"elig", e>>] = extra[<<"elig", e>>]
      BY <1>4 DEF Both, One
    <2> HIDE DEF rows, ins, row
    <2>4. ASSUME NEW o, Flushed(o, rows, ins)
          PROVE  AddsExist(o) /\ Consistent(o)
      <3>1. o.ins = ins
        BY <2>4 DEF Flushed
      <3>2. ASSUME NEW n, NEW i \in Writes(o, n)
            PROVE  (n = "requests" /\ i = r) \/ (n = "elig" /\ i = e)
        <4>1. <<n, i>> \in DOMAIN rows
          BY <2>4, <3>2, FlushedWhere
        <4> QED
          BY <1>4, <2>2, <4>1
      <3>3. r \in Writes(o, "requests") /\ o.upd[<<"requests", r>>] = new
        <4>1. r \in Writes(o, "requests")
          BY <1>3, <2>2, <2>4, FlushedWrites DEF row
        <4> QED
          BY <2>2, <2>4, <4>1 DEF Flushed, Writes
      <3>4. /\ Len(o.ins["stays"]) = 1 /\ DOMAIN o.ins["stays"] = {1}
            /\ o.ins["stays"][1] = stay /\ DOMAIN o.ins["requests"] = {}
        BY <2>1, <3>1, OneLong, NoneLong
      <3>5. AddsExist(o)
        BY <1>2, <1>5, <2>1, <3>1, <3>4 DEF AddsExist
      <3>6. Writes(o, "profile") = {} /\ Writes(o, "stays") = {}
        BY <3>2
      <3>7. CountFollows(o) /\ GrantFollows(o)
        BY <2>1, <3>1, <3>6, NoEvent
      <3>8. StaysFollow(o)
        BY <3>6 DEF StaysFollow
      <3>9. EligFollows(o)
        <4>1. ASSUME NEW i \in Writes(o, "elig")
              PROVE  /\ i = e /\ o.upd[<<"elig", i>>].type = db["elig"][i].type
                     /\ o.upd[<<"elig", i>>].used /\ ~db["elig"][i].used
          <5>1. /\ i = e /\ <<"elig", e>> \in DOMAIN rows
                /\ o.upd[<<"elig", e>>] = rows[<<"elig", e>>]
                /\ rows[<<"elig", e>>] # db["elig"][e]
            <6>1. i = e
              BY <3>2, <4>1
            <6>2. <<"elig", e>> \in DOMAIN o.upd
              BY <4>1, <6>1 DEF Writes
            <6> QED
              BY <2>4, <6>1, <6>2 DEF Flushed
          <5>2. <<"elig", e>> \in DOMAIN extra
            BY <2>2, <5>1
          <5> QED
            BY <1>4, <2>3, <5>1, <5>2
        <4> QED
          BY <1>5, <3>4, <4>1 DEF EligFollows
      <3>10. RequestsFollow(o)
        BY <1>2, <1>3, <1>5, <3>2, <3>3, <3>4 DEF RequestsFollow, row, e
      <3>11. AddsFollow(o)
        <4>1. o.upd[<<"requests", r>>].status = "APPROVED"
          BY <1>3, <1>7, <3>3
        <4>2. stay.elig = db["requests"][r].elig
          BY <1>5 DEF row, e
        <4> QED
          BY <1>5, <2>1, <3>1, <3>3, <4>1, <4>2, OneStay
      <3> QED
        BY <3>5, <3>7, <3>8, <3>9, <3>10, <3>11 DEF Consistent
    <2>5. DOMAIN rows \subseteq UNION {{n} \X Ids(n) : n \in Table}
      BY <1>4, <2>2 DEF Table
    <2>6. \A n \in Table : \A i \in Ids(n) : <<n, i>> \in DOMAIN rows => rows[<<n, i>>] \in Rows[n]
      BY <1>3, <1>4, <2>2, <2>3
    <2>7. Begin(p, rows, ins)
      BY <1>1, <1>7 DEF rows, ins
    <2> QED
      BY <2>1, <2>4, <2>5, <2>6, <2>7, OpenStep
  <1>8. CASE status = "REJECTED"
    <2> HIDE DEF one, new
    <2>1. ASSUME NEW o, Flushed(o, one, NoRows)
          PROVE  AddsExist(o) /\ Consistent(o)
      <3>1. /\ o.ins["profile"] = <<>> /\ o.ins["children"] = <<>> /\ o.ins["elig"] = <<>>
            /\ o.ins["stays"] = <<>> /\ o.ins["requests"] = <<>>
        BY <2>1, NoRowsAdded DEF Table, Flushed
      <3>2. ASSUME NEW n, NEW i \in Writes(o, n)
            PROVE  n = "requests" /\ i = r
        BY <1>6, <2>1, <3>2, FlushedWrites
      <3>3. Writes(o, "profile") = {} /\ Writes(o, "stays") = {} /\ Writes(o, "elig") = {}
        BY <3>2
      <3>4. AddsExist(o) /\ AddsFollow(o)
        BY <3>1, NoneLong DEF AddsExist, AddsFollow
      <3>5. CountFollows(o) /\ GrantFollows(o)
        BY <3>1, <3>3, NoEvent
      <3>6. StaysFollow(o) /\ EligFollows(o)
        BY <3>3 DEF StaysFollow, EligFollows
      <3>7. RequestsFollow(o)
        <4>1. r \in Writes(o, "requests") => o.upd[<<"requests", r>>] = new
          BY <1>6, <2>1 DEF Flushed, Writes
        <4> QED
          BY <1>2, <1>3, <1>8, <3>2, <4>1 DEF RequestsFollow
      <3> QED
        BY <3>4, <3>5, <3>6, <3>7 DEF Consistent
    <2>2. DOMAIN one \subseteq UNION {{n} \X Ids(n) : n \in Table}
      BY <1>6 DEF Table
    <2>3. \A n \in Table : \A i \in Ids(n) : <<n, i>> \in DOMAIN one => one[<<n, i>>] \in Rows[n]
      BY <1>3, <1>6
    <2> QED
      BY <1>1, <1>8, <2>1, <2>2, <2>3, NoRowsAdded, OpenStep
  <1> QED
    BY <1>7, <1>8

-----------------------------------------------------------------------------
(* The commit.                                                             *)

\* Table n after the commit of transaction t: the rows that it updates, those
\* that it does not update, and those that it adds.
TableAfter(t, n) ==
    /\ db'[n] \in Seq(Rows[n]) /\ Len(db'[n]) = Len(db[n]) + Len(t.ins[n])
    /\ Ids(n) \subseteq Ids(n)'
    /\ \A i \in Ids(n) : /\ i \in Writes(t, n) => db'[n][i] = t.upd[<<n, i>>]
                         /\ i \notin Writes(t, n) => db'[n][i] = db[n][i]
    /\ \A k \in DOMAIN t.ins[n] : /\ Len(db[n]) + k \in Ids(n)' \ Ids(n)
                                  /\ db'[n][Len(db[n]) + k] = t.ins[n][k]
    /\ \A i \in Ids(n)' : i \in Ids(n) \/ \E k \in DOMAIN t.ins[n] : i = Len(db[n]) + k

\* Table c is a with the rows of b behind its own.
IsAppended(c, a, b, S) ==
    /\ c \in Seq(S) /\ Len(c) = Len(a) + Len(b)
    /\ \A i \in 1 .. Len(a) : c[i] = a[i]
    /\ \A k \in DOMAIN b : c[Len(a) + k] = b[k]
    /\ Len(b) \in Nat /\ DOMAIN b = 1 .. Len(b)

LEMMA RowsAppended ==
    ASSUME NEW S, NEW a \in Seq(S), NEW b \in Seq(S)
    PROVE  IsAppended(a \o b, a, b, S)
  <1> DEFINE len == Len(a)
  <1>0. len \in Nat
    BY LenProperties
  <1>1. Len(b) \in Nat /\ DOMAIN b = 1 .. Len(b)
    BY LenProperties
  <1> DEFINE c == a \o b
  <1>2. /\ c \in Seq(S) /\ Len(c) = len + Len(b)
        /\ \A i \in 1 .. len + Len(b) : c[i] = IF i <= len THEN a[i] ELSE b[i - len]
    BY ConcatProperties
  <1> HIDE DEF len, c
  <1>3. \A i \in 1 .. len : c[i] = a[i]
    BY <1>0, <1>1, <1>2
  <1>4. ASSUME NEW k \in DOMAIN b
        PROVE  c[len + k] = b[k]
    <2>1. len + k \in 1 .. len + Len(b) /\ ~(len + k <= len) /\ len + k - len = k
      BY <1>0, <1>1
    <2> QED
      BY <1>0, <1>1, <1>2, <2>1
  <1> QED
    BY <1>1, <1>2, <1>3, <1>4 DEF len, c, IsAppended

LEMMA CommitRows ==
    ASSUME TypeOK, NEW p \in Proc, Commit(p)
    PROVE  /\ TxnTyped(txn[p]) /\ \A n \in Table : TableAfter(txn[p], n)
           /\ txn[p].open /\ ~stale[p] /\ UNCHANGED plan
  <1> PICK t : t = txn[p]
    OBVIOUS
  <1>1. TxnTyped(t) /\ txn[p].open /\ ~stale[p] /\ UNCHANGED plan
    BY DEF TypeOK, Commit
  <1>2. ASSUME NEW n \in Table
        PROVE  TableAfter(t, n)
    <2> DEFINE row(i) == IF <<n, i>> \in DOMAIN t.upd THEN t.upd[<<n, i>>] ELSE db[n][i]
               kept == [i \in Ids(n) |-> row(i)]
               S == Rows[n]
               len == Len(db[n])
    <2>1. db'[n] = kept \o t.ins[n]
      BY DEF Commit
    <2>2. len \in Nat /\ Ids(n) = 1 .. len /\ \A i \in 1 .. len : db[n][i] \in S
      BY ElementOfSeq, LenProperties DEF TypeOK, Ids
    <2>3. \A i \in Ids(n) : row(i) \in S
      BY <1>1, <2>2 DEF TxnTyped, Writes
    <2>4. t.ins[n] \in Seq(S)
      BY <1>1 DEF TxnTyped
    <2>5. /\ \A i \in Ids(n) : i \in Writes(t, n) => row(i) = t.upd[<<n, i>>]
          /\ \A i \in Ids(n) : i \notin Writes(t, n) => row(i) = db[n][i]
      BY DEF Writes
    <2> HIDE DEF row, S, len
    <2>6. kept \in Seq(S) /\ Len(kept) = len /\ \A i \in 1 .. len : kept[i] = row(i)
      BY <2>2, <2>3
    <2> HIDE DEF kept
    <2>7. /\ kept \o t.ins[n] \in Seq(S) /\ Len(kept \o t.ins[n]) = len + Len(t.ins[n])
          /\ \A i \in 1 .. len : (kept \o t.ins[n])[i] = kept[i]
          /\ \A k \in DOMAIN t.ins[n] : (kept \o t.ins[n])[len + k] = t.ins[n][k]
          /\ Len(t.ins[n]) \in Nat /\ DOMAIN t.ins[n] = 1 .. Len(t.ins[n])
      <3>1. IsAppended(kept \o t.ins[n], kept, t.ins[n], S)
        BY <2>4, <2>6, RowsAppended
      <3> QED
        BY <2>6, <3>1 DEF IsAppended
    <2>8. PICK more \in Nat : more = Len(t.ins[n]) /\ DOMAIN t.ins[n] = 1 .. more
      BY <2>7
    <2>9. \A i \in Ids(n) : db'[n][i] = row(i)
      BY <2>1, <2>2, <2>6, <2>7
    <2>10. \A k \in DOMAIN t.ins[n] : db'[n][len + k] = t.ins[n][k]
      BY <2>1, <2>7
    <2>11. Len(db'[n]) = len + Len(t.ins[n]) /\ Ids(n)' = 1 .. len + more
      BY <2>1, <2>7, <2>8 DEF Ids
    <2>12. /\ Ids(n) \subseteq Ids(n)'
           /\ \A k \in DOMAIN t.ins[n] : len + k \in Ids(n)' \ Ids(n)
      <3>1. len \in Nat /\ more \in Nat
        BY <2>2, <2>8
      <3>2. 1 .. len \subseteq 1 .. len + more
        BY <3>1
      <3>3. \A k \in 1 .. more : len + k \in 1 .. len + more /\ len + k \notin 1 .. len
        BY <3>1
      <3> QED
        BY <2>2, <2>8, <2>11, <3>2, <3>3
    <2>13. ASSUME NEW i \in Ids(n)', i \notin Ids(n)
           PROVE  \E k \in DOMAIN t.ins[n] : i = len + k
      <3>1. i - len \in DOMAIN t.ins[n] /\ i = len + (i - len)
        BY <2>2, <2>8, <2>11, <2>13
      <3> QED
        BY <3>1
    <2>14. db'[n] \in Seq(S)
      BY <2>1, <2>7
    <2>15. \A i \in Ids(n) : /\ i \in Writes(t, n) => db'[n][i] = t.upd[<<n, i>>]
                             /\ i \notin Writes(t, n) => db'[n][i] = db[n][i]
      BY <2>5, <2>9
    <2>16. \A k \in DOMAIN t.ins[n] : /\ len + k \in Ids(n)' \ Ids(n)
                                     /\ db'[n][len + k] = t.ins[n][k]
      BY <2>10, <2>12
    <2>17. \A i \in Ids(n)' : i \in Ids(n) \/ \E k \in DOMAIN t.ins[n] : i = len + k
      BY <2>13
    <2> QED
      BY <2>11, <2>12, <2>14, <2>15, <2>16, <2>17 DEF S, len, TableAfter
  <1> QED
    BY <1>1, <1>2

\* What is known of the transaction that commits.
LEMMA CommitTxn ==
    ASSUME IInv, NEW p \in Proc, Commit(p), NEW t, t = txn[p]
    PROVE  /\ TxnTyped(t) /\ AddsExist(t) /\ Consistent(t)
           /\ \A n \in Table : TableAfter(t, n)
           /\ TableAfter(t, "profile") /\ TableAfter(t, "children") /\ TableAfter(t, "elig")
           /\ TableAfter(t, "stays") /\ TableAfter(t, "requests")
  <1>1. TxnTyped(t) /\ t.open /\ ~stale[p] /\ \A n \in Table : TableAfter(t, n)
    BY CommitRows DEF IInv
  <1>2. AddsExist(t) /\ Consistent(t)
    BY <1>1 DEF IInv, Strengthening, RowsExist, WritesHold
  <1> QED
    BY <1>1, <1>2 DEF Table

\* The other transactions write the rows that they wrote before.
LEMMA CommitOthers ==
    ASSUME IInv, NEW p \in Proc, Commit(p), NEW q \in Proc, txn'[q].open
    PROVE  /\ q # p /\ txn'[q] = txn[q] /\ TxnTyped(txn[q])
           /\ \A n \in Table : Writes(txn[q], n)' = Writes(txn[q], n)
  <1>1. q # p /\ txn'[q] = txn[q]
    BY DEF Commit, NoTxn, IInv, TypeOK
  <1>2. TxnTyped(txn[q])
    BY <1>1 DEF IInv, TypeOK
  <1>3. PICK o : o = txn[q]
    OBVIOUS
  <1>4. ASSUME NEW n \in Table
        PROVE  Writes(txn[q], n)' = Writes(o, n)
    <2>1. Ids(n) \subseteq Ids(n)'
      BY CommitTxn DEF TableAfter
    <2>2. \A i : <<n, i>> \in DOMAIN o.upd => i \in Ids(n)
      BY <1>2, <1>3 DEF TxnTyped
    <2> QED
      BY <1>1, <1>3, <2>1, <2>2 DEF Writes
  <1> QED
    BY <1>1, <1>2, <1>3, <1>4

LEMMA CommitTypes ==
    ASSUME IInv, NEW p \in Proc, Commit(p)
    PROVE  TypeOK' /\ RowsExist'
  <1> PICK t : t = txn[p]
    OBVIOUS
  <1>1. /\ AddsExist(t) /\ Consistent(t) /\ \A n \in Table : TableAfter(t, n)
        /\ TableAfter(t, "profile") /\ TableAfter(t, "stays") /\ TableAfter(t, "requests")
    BY CommitTxn
  <1>2. \A n \in Table : db'[n] \in Seq(Rows[n]) /\ Ids(n) \subseteq Ids(n)'
    BY <1>1 DEF TableAfter
  <1>3. Ids("elig") \subseteq Ids("elig")' /\ Ids("requests") \subseteq Ids("requests")'
    BY <1>2 DEF Table
  <1>4. Len(db'["profile"]) = 1
    <2>1. Len(db["profile"]) = 1
      BY DEF IInv, TypeOK
    <2>2. t.ins["profile"] = <<>>
      BY <1>1 DEF AddsExist
    <2>3. Len(db'["profile"]) = Len(db["profile"]) + Len(t.ins["profile"])
      BY <1>1 DEF TableAfter
    <2> QED
      BY <2>1, <2>2, <2>3, NoneLong
  <1>5. ASSUME NEW s \in Ids("stays")'
        PROVE  /\ db'["stays"][s].elig \in Ids("elig")' \cup {NoElig}
               /\ db'["stays"][s].request \in Ids("requests")' \cup {0}
    <2>1. CASE s \in Ids("stays") /\ s \notin Writes(t, "stays")
      BY <1>1, <1>3, <2>1 DEF TableAfter, IInv, TypeOK
    <2>2. CASE s \in Writes(t, "stays")
      <3>1. s \in Ids("stays") /\ db'["stays"][s] = t.upd[<<"stays", s>>]
        BY <1>1, <2>2 DEF TableAfter, Writes
      <3>2. /\ db'["stays"][s].request = db["stays"][s].request
            /\ db'["stays"][s].elig \in {db["stays"][s].elig, NoElig}
        BY <1>1, <2>2, <3>1 DEF Consistent, StaysFollow
      <3> QED
        BY <1>3, <3>1, <3>2 DEF IInv, TypeOK
    <2>3. CASE s \notin Ids("stays")
      <3>1. PICK k \in DOMAIN t.ins["stays"] : s = Len(db["stays"]) + k
        BY <1>1, <2>3 DEF TableAfter
      <3>2. db'["stays"][s] = t.ins["stays"][k]
        BY <1>1, <3>1 DEF TableAfter
      <3> QED
        BY <1>1, <1>3, <3>2 DEF AddsExist
    <2> QED
      BY <2>1, <2>2, <2>3
  <1>6. ASSUME NEW r \in Ids("requests")'
        PROVE  db'["requests"][r].elig \in Ids("elig")' \cup {NoElig}
    <2>1. CASE r \in Ids("requests") /\ r \notin Writes(t, "requests")
      BY <1>1, <1>3, <2>1 DEF TableAfter, IInv, Strengthening, RowsExist
    <2>2. CASE r \in Writes(t, "requests")
      <3>1. r \in Ids("requests") /\ db'["requests"][r] = t.upd[<<"requests", r>>]
        BY <1>1, <2>2 DEF TableAfter, Writes
      <3>2. db'["requests"][r].elig = db["requests"][r].elig
        BY <1>1, <2>2, <3>1 DEF Consistent, RequestsFollow
      <3> QED
        BY <1>3, <3>1, <3>2 DEF IInv, Strengthening, RowsExist
    <2>3. CASE r \notin Ids("requests")
      <3>1. PICK k \in DOMAIN t.ins["requests"] : r = Len(db["requests"]) + k
        BY <1>1, <2>3 DEF TableAfter
      <3>2. db'["requests"][r] = t.ins["requests"][k]
        BY <1>1, <3>1 DEF TableAfter
      <3> QED
        BY <1>1, <1>3, <3>2 DEF AddsExist
    <2> QED
      BY <2>1, <2>2, <2>3
  <1>7. ASSUME NEW q \in Proc, txn'[q].open
        PROVE  TxnTyped(txn[q])' /\ AddsExist(txn[q])'
    <2>1. /\ txn'[q] = txn[q] /\ TxnTyped(txn[q])
          /\ \A n \in Table : Writes(txn[q], n)' = Writes(txn[q], n)
      BY <1>7, CommitOthers
    <2>2. AddsExist(txn[q])
      BY <1>7, <2>1 DEF IInv, Strengthening, RowsExist
    <2>3. TxnTyped(txn[q])'
      BY <1>2, <2>1 DEF TxnTyped
    <2>4. AddsExist(txn[q])'
      BY <1>3, <2>1, <2>2 DEF AddsExist
    <2> QED
      BY <2>3, <2>4
  <1>8. DOMAIN txn' = Proc /\ stale' \in [Proc -> BOOLEAN] /\ plan' \in [PlanType -> AnyState]
    BY DEF Commit, IInv, TypeOK
  <1> QED
    BY <1>2, <1>4, <1>5, <1>6, <1>7, <1>8 DEF TypeOK, RowsExist

\* A transaction that the commit does not make stale still follows the tables.
LEMMA CommitWrites ==
    ASSUME IInv, NEW p \in Proc, Commit(p)
    PROVE  WritesHold'
  <1> SUFFICES ASSUME NEW q \in Proc, txn'[q].open, ~stale'[q]
               PROVE  Consistent(txn[q])'
    BY DEF WritesHold
  <1> PICK t : t = txn[p]
    OBVIOUS
  <1> PICK o : o = txn'[q]
    OBVIOUS
  <1>1. /\ q # p /\ o = txn[q] /\ TxnTyped(o)
        /\ \A n \in Table : Writes(txn[q], n)' = Writes(o, n)
    BY CommitOthers
  <1>2. ~stale[q] /\ DOMAIN t.upd \cap DOMAIN o.upd = {}
    BY <1>1 DEF Commit, IInv, TypeOK
  <1>3. Consistent(o)
    BY <1>1, <1>2 DEF IInv, Strengthening, WritesHold
  <1>4. ASSUME NEW n \in Table, NEW i \in Writes(o, n)
        PROVE  db'[n][i] = db[n][i]
    <2>1. TableAfter(t, n)
      BY CommitTxn
    <2>2. i \in Ids(n) /\ i \notin Writes(t, n)
      BY <1>2, <1>4 DEF Writes
    <2> QED
      BY <2>1, <2>2 DEF TableAfter
  <1> QED
    BY <1>1, <1>3, <1>4, KeptConsistent

LEMMA CommitCounts ==
    ASSUME IInv, NEW p \in Proc, Commit(p)
    PROVE  ChildrenCounted'
  <1> PICK t : t = txn[p]
    OBVIOUS
  <1>1. /\ CountFollows(t) /\ TableAfter(t, "profile") /\ TableAfter(t, "children")
        /\ 1 \in Ids("profile") /\ Profile.number = Len(db["children"])
        /\ Len(db["children"]) \in Nat
    BY CommitTxn, ProfileTyped, LenProperties
       DEF Consistent, IInv, ChildrenCounted, TypeOK, Table
  <1>2. CASE 1 \in Writes(t, "profile")
    BY <1>1, <1>2 DEF CountFollows, TableAfter, ChildrenCounted, Profile
  <1>3. CASE 1 \notin Writes(t, "profile")
    <2>1. db'["profile"][1] = db["profile"][1]
      BY <1>1, <1>3 DEF TableAfter
    <2>2. t.ins["children"] = <<>>
      BY <1>1, <1>3 DEF CountFollows
    <2>3. Len(db'["children"]) = Len(db["children"])
      BY <1>1, <2>2, NoneLong DEF TableAfter
    <2> QED
      BY <1>1, <2>1, <2>3 DEF ChildrenCounted, Profile
  <1> QED
    BY <1>2, <1>3

\* What the commit of t does to a stay.
LEMMA StayAfter ==
    ASSUME IInv, NEW p \in Proc, Commit(p), NEW t, t = txn[p], NEW s \in Ids("stays")'
    PROVE  \/ /\ s \in Ids("stays") /\ s \notin Writes(t, "stays")
              /\ db'["stays"][s] = db["stays"][s]
           \/ /\ s \in Ids("stays") /\ s \in Writes(t, "stays")
              /\ db["stays"][s].status = "PENDING" /\ db'["stays"][s].status # "PENDING"
              /\ db'["stays"][s].request = db["stays"][s].request
              /\ \/ db'["stays"][s].elig = db["stays"][s].elig
                 \/ /\ db'["stays"][s].elig = NoElig
                    /\ db["stays"][s].elig \in Writes(t, "elig")
                    /\ ~t.upd[<<"elig", db["stays"][s].elig>>].used
           \/ /\ s \notin Ids("stays") /\ s = Len(db["stays"]) + 1
              /\ DOMAIN t.ins["stays"] = {1} /\ db'["stays"][s] = t.ins["stays"][1]
  <1>1. TableAfter(t, "stays") /\ StaysFollow(t) /\ AddsFollow(t) /\ TxnTyped(t)
    BY CommitTxn DEF Consistent
  <1>2. CASE s \in Ids("stays") /\ s \notin Writes(t, "stays")
    BY <1>1, <1>2 DEF TableAfter
  <1>3. CASE s \in Writes(t, "stays")
    <2>1. s \in Ids("stays") /\ db'["stays"][s] = t.upd[<<"stays", s>>]
      BY <1>1, <1>3 DEF TableAfter, Writes
    <2>2. LET old == db["stays"][s]
              new == t.upd[<<"stays", s>>]
          IN  /\ old.status = "PENDING" /\ new.status # "PENDING"
              /\ new.request = old.request
              /\ \/ new.elig = old.elig
                 \/ /\ new.elig = NoElig
                    /\ old.elig \in Writes(t, "elig")
                    /\ ~t.upd[<<"elig", old.elig>>].used
      BY <1>1, <1>3 DEF StaysFollow
    <2> QED
      BY <1>3, <2>1, <2>2
  <1>4. CASE s \notin Ids("stays")
    <2>1. PICK k \in DOMAIN t.ins["stays"] : s = Len(db["stays"]) + k
      BY <1>1, <1>4 DEF TableAfter
    <2>2. db'["stays"][s] = t.ins["stays"][k]
      BY <1>1, <2>1 DEF TableAfter
    <2>3. DOMAIN t.ins["stays"] = {1}
      <3>1. t.ins["stays"] \in Seq(Rows["stays"]) /\ Len(t.ins["stays"]) <= 1
        BY <1>1 DEF TxnTyped, AddsFollow, Table
      <3>2. Len(t.ins["stays"]) \in Nat /\ DOMAIN t.ins["stays"] = 1 .. Len(t.ins["stays"])
        BY <3>1, LenProperties
      <3> QED
        BY <2>1, <3>1, <3>2
    <2>4. k = 1
      BY <2>1, <2>3
    <2> QED
      BY <1>4, <2>1, <2>2, <2>3, <2>4
  <1> QED
    BY <1>2, <1>3, <1>4 DEF Writes

\* What it does to an eligibility.
LEMMA EligAfter ==
    ASSUME IInv, NEW p \in Proc, Commit(p), NEW t, t = txn[p], NEW e \in Ids("elig")'
    PROVE  \/ /\ e \in Ids("elig") /\ e \notin Writes(t, "elig")
              /\ db'["elig"][e] = db["elig"][e]
           \/ /\ e \in Ids("elig") /\ e \in Writes(t, "elig")
              /\ db'["elig"][e] = t.upd[<<"elig", e>>]
              /\ db'["elig"][e].type = db["elig"][e].type
              /\ db'["elig"][e].used =>
                    /\ ~db["elig"][e].used
                    /\ \E s \in Ids("stays")' : db'["stays"][s].elig = e
              /\ ~db'["elig"][e].used =>
                    \E s \in Ids("stays") : /\ db["stays"][s].status = "PENDING"
                                            /\ db["stays"][s].elig = e
                                            /\ db'["stays"][s].elig = NoElig
           \/ /\ e \notin Ids("elig")
              /\ ~db'["elig"][e].used
              /\ \E k \in DOMAIN t.ins["elig"] : e = Len(db["elig"]) + k
  <1>1. /\ TableAfter(t, "elig") /\ TableAfter(t, "stays")
        /\ EligFollows(t) /\ GrantFollows(t) /\ StaysFollow(t)
    BY CommitTxn DEF Consistent
  <1>2. CASE e \in Ids("elig") /\ e \notin Writes(t, "elig")
    BY <1>1, <1>2 DEF TableAfter
  <1>3. CASE e \in Writes(t, "elig")
    <2>1. e \in Ids("elig") /\ db'["elig"][e] = t.upd[<<"elig", e>>]
      BY <1>1, <1>3 DEF TableAfter, Writes
    <2>2. /\ db'["elig"][e].type = db["elig"][e].type
          /\ db'["elig"][e].used =>
                ~db["elig"][e].used /\ \E i \in DOMAIN t.ins["stays"] : t.ins["stays"][i].elig = e
          /\ ~db'["elig"][e].used =>
                \E s \in Writes(t, "stays") : /\ db["stays"][s].elig = e
                                              /\ t.upd[<<"stays", s>>].elig = NoElig
      BY <1>1, <1>3, <2>1 DEF EligFollows
    <2>3. ASSUME NEW i \in DOMAIN t.ins["stays"], t.ins["stays"][i].elig = e
          PROVE  \E s \in Ids("stays")' : db'["stays"][s].elig = e
      <3>1. /\ Len(db["stays"]) + i \in Ids("stays")'
            /\ db'["stays"][Len(db["stays"]) + i] = t.ins["stays"][i]
        BY <1>1 DEF TableAfter
      <3> QED
        BY <2>3, <3>1
    <2>4. ASSUME NEW s \in Writes(t, "stays"), t.upd[<<"stays", s>>].elig = NoElig
          PROVE  /\ s \in Ids("stays") /\ db["stays"][s].status = "PENDING"
                 /\ db'["stays"][s].elig = NoElig
      <3>1. s \in Ids("stays") /\ db'["stays"][s] = t.upd[<<"stays", s>>]
        BY <1>1, <2>4 DEF TableAfter, Writes
      <3>2. db["stays"][s].status = "PENDING"
        BY <1>1, <2>4 DEF StaysFollow
      <3> QED
        BY <2>4, <3>1, <3>2
    <2> QED
      BY <1>3, <2>1, <2>2, <2>3, <2>4
  <1>4. CASE e \notin Ids("elig")
    <2>1. PICK k \in DOMAIN t.ins["elig"] : e = Len(db["elig"]) + k
      BY <1>1, <1>4 DEF TableAfter
    <2>2. db'["elig"][e] = t.ins["elig"][k] /\ ~t.ins["elig"][k].used
      BY <1>1, <2>1 DEF TableAfter, GrantFollows
    <2> QED
      BY <1>4, <2>1, <2>2
  <1> QED
    BY <1>2, <1>3, <1>4 DEF Writes

LEMMA CommitUsed ==
    ASSUME IInv, NEW p \in Proc, Commit(p)
    PROVE  UsedIsReferred'
  <1> PICK t : t = txn[p]
    OBVIOUS
  <1> SUFFICES ASSUME NEW e \in Ids("elig")', db'["elig"][e].used
               PROVE  \E s \in Ids("stays")' : db'["stays"][s].elig = e
    BY DEF UsedIsReferred, Referring
  <1>1. CASE e \in Ids("elig") /\ e \notin Writes(t, "elig") /\ db'["elig"][e] = db["elig"][e]
    <2>1. PICK s \in Ids("stays") : db["stays"][s].elig = e
      BY <1>1 DEF IInv, UsedIsReferred, Referring
    <2>2. s \in Ids("stays")'
      BY CommitTxn DEF TableAfter
    <2>3. db'["stays"][s].elig = e
      BY <1>1, <2>1, <2>2, StayAfter
    <2> QED
      BY <2>2, <2>3
  <1> QED
    BY <1>1, EligAfter

\* A transaction that books a stay marks the eligibility of the stay.
LEMMA AddedBooking ==
    ASSUME NEW t, AddsFollow(t), NEW i \in DOMAIN t.ins["stays"], NEW e,
           t.ins["stays"][i].request = 0, t.ins["stays"][i].elig = e, e # NoElig
    PROVE  e \in Writes(t, "elig") /\ t.upd[<<"elig", e>>].used
  BY DEF AddsFollow

LEMMA CommitHolds ==
    ASSUME IInv, NEW p \in Proc, Commit(p)
    PROVE  BookedHolds'
  <1> PICK t : t = txn[p]
    OBVIOUS
  \* A stay that the commit books marks an eligibility that was not marked.
  <1>1. ASSUME NEW s \in Ids("stays")', s \notin Ids("stays"),
               db'["stays"][s].request = 0, NEW e, e = db'["stays"][s].elig, e # NoElig
        PROVE  /\ s = Len(db["stays"]) + 1
               /\ e \in Ids("elig") /\ ~db["elig"][e].used /\ db'["elig"][e].used
    <2>1. /\ s = Len(db["stays"]) + 1 /\ 1 \in DOMAIN t.ins["stays"]
          /\ db'["stays"][s] = t.ins["stays"][1]
      <3>1. /\ s = Len(db["stays"]) + 1 /\ DOMAIN t.ins["stays"] = {1}
            /\ db'["stays"][s] = t.ins["stays"][1]
        BY <1>1, StayAfter
      <3> QED
        BY <3>1
    <2>2. /\ AddsFollow(t) /\ TableAfter(t, "elig") /\ EligFollows(t)
      BY CommitTxn DEF Consistent
    <2>3. e \in Writes(t, "elig") /\ t.upd[<<"elig", e>>].used
      <3>1. t.ins["stays"][1].request = 0 /\ t.ins["stays"][1].elig = e
        BY <1>1, <2>1
      <3> QED
        BY <1>1, <2>1, <2>2, <3>1, AddedBooking
    <2>4. e \in Ids("elig") /\ db'["elig"][e] = t.upd[<<"elig", e>>]
      BY <2>2, <2>3 DEF TableAfter, Writes
    <2> QED
      BY <2>1, <2>2, <2>3, <2>4 DEF EligFollows
  \* A booked stay that was there had its eligibility to itself, and keeps it marked.
  <1>2. ASSUME NEW s \in Ids("stays")', s \in Ids("stays"),
               db'["stays"][s].request = 0, NEW e, e = db'["stays"][s].elig, e # NoElig
        PROVE  /\ db["stays"][s].request = 0 /\ db["stays"][s].elig = e
               /\ e \in Ids("elig") /\ db["elig"][e].used
               /\ \A r \in Ids("stays") :
                    db["stays"][r].elig = e /\ db["stays"][r].request = 0 => r = s
               /\ db'["elig"][e].used
    <2>1. db["stays"][s].request = 0 /\ db["stays"][s].elig = e
      BY <1>2, StayAfter
    <2>2. e \in Ids("elig")
      BY <1>2, <2>1 DEF IInv, TypeOK
    <2>3. /\ db["elig"][e].used
          /\ \A r \in Ids("stays") :
                db["stays"][r].elig = e /\ db["stays"][r].request = 0 => r = s
      BY <1>2, <2>1 DEF IInv, Strengthening, BookedHolds, Booked, Referring
    <2>4. e \in Ids("elig")'
      BY <2>2, CommitTxn DEF TableAfter
    <2>5. ASSUME NEW r \in Ids("stays"), db["stays"][r].status = "PENDING",
                 db["stays"][r].elig = e
          PROVE  db'["stays"][r].elig # NoElig
      <3>1. db["stays"][r].request = 0
        BY <2>5, PendingIsBooked DEF IInv
      <3> QED
        BY <1>2, <2>3, <2>5, <3>1
    <2>6. db'["elig"][e].used
      BY <2>2, <2>3, <2>4, <2>5, EligAfter
    <2> QED
      BY <2>1, <2>2, <2>3, <2>6
  <1> SUFFICES ASSUME NEW s \in Ids("stays")', db'["stays"][s].request = 0,
                      NEW e, e = db'["stays"][s].elig, e # NoElig
               PROVE  /\ db'["elig"][e].used
                      /\ \A r \in Ids("stays")' :
                           db'["stays"][r].elig = e /\ db'["stays"][r].request = 0 => r = s
    BY DEF BookedHolds, Booked, Referring
  <1>3. db'["elig"][e].used
    BY <1>1, <1>2
  <1>4. ASSUME NEW r \in Ids("stays")', db'["stays"][r].elig = e,
               db'["stays"][r].request = 0
        PROVE  r = s
    <2>1. CASE s \in Ids("stays") /\ r \in Ids("stays")
      BY <1>2, <1>4, <2>1
    <2>2. CASE s \in Ids("stays") /\ r \notin Ids("stays")
      BY <1>1, <1>2, <1>4, <2>2
    <2>3. CASE s \notin Ids("stays") /\ r \in Ids("stays")
      BY <1>1, <1>2, <1>4, <2>3
    <2>4. CASE s \notin Ids("stays") /\ r \notin Ids("stays")
      BY <1>1, <1>4, <2>4
    <2> QED
      BY <2>1, <2>2, <2>3, <2>4
  <1> QED
    BY <1>3, <1>4

\* The rows of a table, and those of them that have a property, are finitely
\* many.
LEMMA RowsFinite ==
    ASSUME TypeOK, NEW n \in Table, NEW S, S \subseteq Ids(n)
    PROVE  IsFiniteSet(S) /\ Cardinality(S) \in Nat /\ (Cardinality(S) = 0 <=> S = {})
  <1>1. Len(db[n]) \in Nat
    BY LenProperties DEF TypeOK
  <1>2. IsFiniteSet(Ids(n))
    BY <1>1, FS_Interval DEF Ids
  <1> QED
    BY <1>2, FS_Subset, FS_CardinalityType, FS_EmptySet

\* What a transaction adds for a request, and the requests it adds.
LEMMA AddedStay ==
    ASSUME NEW t, AddsFollow(t), NEW i \in DOMAIN t.ins["stays"], NEW r,
           t.ins["stays"][i].request = r, r # 0
    PROVE  /\ r \in Writes(t, "requests") /\ t.upd[<<"requests", r>>].status = "APPROVED"
           /\ t.ins["stays"][i].status = "APPROVED"
           /\ t.ins["stays"][i].elig = db["requests"][r].elig
  BY DEF AddsFollow

LEMMA AddedRequest ==
    ASSUME NEW t, AddsFollow(t), NEW i \in DOMAIN t.ins["requests"]
    PROVE  t.ins["requests"][i].status = "PENDING"
  BY DEF AddsFollow

LEMMA CommitServed ==
    ASSUME IInv, NEW p \in Proc, Commit(p)
    PROVE  RequestsAreServed'
  <1> PICK t : t = txn[p]
    OBVIOUS
  <1>1. /\ TxnTyped(t) /\ AddsExist(t) /\ RequestsFollow(t) /\ AddsFollow(t)
        /\ TableAfter(t, "stays") /\ TableAfter(t, "requests")
    BY CommitTxn DEF Consistent
  <1>2. TypeOK'
    BY CommitTypes
  <1>3. Len(db["stays"]) \in Nat /\ Len(db["requests"]) \in Nat
    BY LenProperties DEF IInv, TypeOK, Table
  <1> SUFFICES ASSUME NEW r \in Ids("requests")'
               PROVE  /\ Cardinality(Served(r)') = IF db'["requests"][r].status = "APPROVED"
                                                   THEN 1 ELSE 0
                      /\ \A s \in Served(r)' :
                            db'["stays"][s] = [status |-> "APPROVED",
                                               elig |-> db'["requests"][r].elig, request |-> r]
    BY DEF RequestsAreServed, Served
  <1>4. r # 0
    BY DEF Ids
  \* A stay that is added for the request is the only one that is added.
  <1>5. ASSUME NEW s \in Served(r)', s \notin Ids("stays")
        PROVE  /\ s = Len(db["stays"]) + 1 /\ r \in Writes(t, "requests")
               /\ t.upd[<<"requests", r>>].status = "APPROVED"
               /\ db'["stays"][s].status = "APPROVED"
               /\ db'["stays"][s].elig = db["requests"][r].elig
    <2>1. s \in Ids("stays")' /\ db'["stays"][s].request = r
      BY DEF Served
    <2>2. /\ s = Len(db["stays"]) + 1 /\ DOMAIN t.ins["stays"] = {1}
          /\ db'["stays"][s] = t.ins["stays"][1]
      BY <1>5, <2>1, StayAfter
    <2>3. t.ins["stays"][1].request = r /\ 1 \in DOMAIN t.ins["stays"]
      BY <2>1, <2>2
    <2> QED
      BY <1>1, <1>4, <2>2, <2>3, AddedStay
  \* A stay of the request that was there is kept as it was.
  <1>6. \A s \in Ids("stays") : s \in Served(r)' <=>
            s \in Ids("stays")' /\ db["stays"][s].request = r
    BY StayAfter DEF Served
  <1>7. Ids("stays") \subseteq Ids("stays")'
    BY <1>1 DEF TableAfter
  <1>8. CASE r \notin Ids("requests")
    <2>1. db'["requests"][r].status = "PENDING"
      <3>1. PICK k \in DOMAIN t.ins["requests"] : r = Len(db["requests"]) + k
        BY <1>1, <1>8 DEF TableAfter
      <3>2. db'["requests"][r] = t.ins["requests"][k]
        BY <1>1, <3>1 DEF TableAfter
      <3> QED
        BY <1>1, <3>1, <3>2, AddedRequest
    <2>2. ASSUME NEW s \in Served(r)' PROVE FALSE
      <3>1. CASE s \in Ids("stays")
        BY <1>4, <1>6, <1>8, <2>2, <3>1 DEF IInv, TypeOK
      <3>2. CASE s \notin Ids("stays")
        BY <1>5, <1>8, <3>2 DEF Writes
      <3> QED
        BY <3>1, <3>2
    <2>3. Served(r)' = {}
      BY <2>2
    <2> QED
      BY <2>1, <2>3, FS_EmptySet
  <1>9. CASE r \in Writes(t, "requests")
    <2>1. r \in Ids("requests") /\ db'["requests"][r] = t.upd[<<"requests", r>>]
      BY <1>1, <1>9 DEF TableAfter, Writes
    <2>2. /\ db["requests"][r].status = "PENDING"
          /\ db'["requests"][r].elig = db["requests"][r].elig
          /\ db'["requests"][r].status \in {"APPROVED", "REJECTED"}
          /\ db'["requests"][r].status = "APPROVED" =>
                Len(t.ins["stays"]) = 1 /\ t.ins["stays"][1].request = r
      BY <1>1, <1>9, <2>1 DEF RequestsFollow
    <2>3. Served(r) = {}
      <3>1. Cardinality(Served(r)) = 0
        BY <2>1, <2>2 DEF IInv, RequestsAreServed, Served
      <3>2. Served(r) \subseteq Ids("stays") /\ "stays" \in Table
        BY DEF Served, Table
      <3> QED
        BY <3>1, <3>2, RowsFinite DEF IInv
    <2>4. \A s \in Served(r)' : s \notin Ids("stays")
      BY <1>6, <2>3 DEF Served
    <2>5. CASE db'["requests"][r].status = "APPROVED"
      <3> DEFINE x == Len(db["stays"]) + 1
      <3>1. 1 \in DOMAIN t.ins["stays"]
        <4>1. t.ins["stays"] \in Seq(Rows["stays"]) /\ Len(t.ins["stays"]) = 1
          BY <1>1, <2>2, <2>5 DEF TxnTyped, Table
        <4> QED
          BY <4>1, LenProperties
      <3>2. x \in Ids("stays")' /\ db'["stays"][x] = t.ins["stays"][1]
        BY <1>1, <3>1 DEF TableAfter
      <3>3. x \in Served(r)'
        BY <2>2, <2>5, <3>2 DEF Served
      <3>4. Served(r)' = {x}
        BY <1>5, <2>4, <3>3
      <3>5. Cardinality({x}) = 1
        BY FS_Singleton
      <3>6. db'["stays"][x] = [status |-> "APPROVED", elig |-> db'["requests"][r].elig,
                               request |-> r]
        <4>1. db'["stays"][x] \in Rows["stays"]
          BY <1>2, <3>2, StayTyped, ElementOfSeq DEF TypeOK, Ids, Table
        <4>2. /\ db'["stays"][x].status = "APPROVED" /\ db'["stays"][x].request = r
              /\ db'["stays"][x].elig = db'["requests"][r].elig
          BY <1>5, <2>2, <2>4, <3>3 DEF Served
        <4> QED
          BY <4>1, <4>2, RowTypes
      <3> QED
        BY <2>5, <3>4, <3>5, <3>6
    <2>6. CASE db'["requests"][r].status = "REJECTED"
      <3>1. Served(r)' = {}
        BY <1>5, <2>1, <2>4, <2>6
      <3> QED
        BY <2>6, <3>1, FS_EmptySet
    <2> QED
      BY <2>2, <2>5, <2>6
  <1>10. CASE r \in Ids("requests") /\ r \notin Writes(t, "requests")
    <2>1. db'["requests"][r] = db["requests"][r]
      BY <1>1, <1>10 DEF TableAfter
    <2>2. /\ Cardinality(Served(r)) = IF db["requests"][r].status = "APPROVED" THEN 1 ELSE 0
          /\ \A s \in Served(r) :
                db["stays"][s] = [status |-> "APPROVED", elig |-> db["requests"][r].elig,
                                  request |-> r]
      BY <1>10 DEF IInv, RequestsAreServed, Served
    <2>3. \A s \in Served(r) : db["stays"][s].status # "PENDING"
      BY <2>2
    <2>4. Served(r)' \subseteq Served(r)
      BY <1>5, <1>6, <1>10 DEF Served
    <2>5. Served(r) \subseteq Served(r)'
      BY <1>6, <1>7 DEF Served
    <2>6. \A s \in Served(r)' : db'["stays"][s] = db["stays"][s]
      BY <2>3, <2>4, StayAfter DEF Served
    <2> QED
      BY <2>1, <2>2, <2>4, <2>5, <2>6
  <1> QED
    BY <1>8, <1>9, <1>10

-----------------------------------------------------------------------------
(* The invariant.                                                          *)

LEMMA InitInv == Init => IInv
  <1> SUFFICES ASSUME Init PROVE IInv
    OBVIOUS
  <1> DEFINE first == [married |-> FALSE, number |-> 0]
  <1>1. /\ db["profile"] = <<first>> /\ db["children"] = <<>> /\ db["elig"] = <<>>
        /\ db["stays"] = <<>> /\ db["requests"] = <<>>
    BY DEF Init, NoRows, Table
  <1>2. \A n \in Table : db[n] \in Seq(Rows[n])
    <2>1. first \in Rows["profile"]
      BY RowTypes
    <2>2. <<first>> \in Seq(Rows["profile"])
      BY <2>1, OneSeq
    <2>3. \A S : <<>> \in Seq(S)
      OBVIOUS
    <2> HIDE DEF first
    <2> QED
      BY <1>1, <2>2, <2>3 DEF Table
  <1>3. Ids("stays") = {} /\ Ids("elig") = {} /\ Ids("requests") = {}
    BY <1>1, NoneLong DEF Ids
  <1>4. Len(db["profile"]) = 1 /\ Profile.number = Len(db["children"])
    BY <1>1, OneLong, NoneLong DEF Profile
  <1>5. \A p \in Proc : ~txn[p].open
    BY DEF Init, NoTxn
  <1>6. plan \in [PlanType -> AnyState] /\ DOMAIN txn = Proc /\ stale \in [Proc -> BOOLEAN]
    BY DEF Init
  <1>7. TypeOK
    BY <1>2, <1>3, <1>4, <1>5, <1>6 DEF TypeOK
  <1>8. ChildrenCounted /\ UsedIsReferred /\ RequestsAreServed
    BY <1>3, <1>4 DEF ChildrenCounted, UsedIsReferred, RequestsAreServed
  <1>9. Strengthening
    BY <1>3, <1>5 DEF Strengthening, RowsExist, BookedHolds, WritesHold
  <1> QED
    BY <1>7, <1>8, <1>9 DEF IInv

LEMMA CommitInv ==
    ASSUME IInv, NEW p \in Proc, Commit(p)
    PROVE  IInv'
  BY CommitTypes, CommitWrites, CommitCounts, CommitUsed, CommitHolds, CommitServed
     DEF IInv, Strengthening

\* A step that changes no table and opens no transaction.
LEMMA QuietInv ==
    ASSUME IInv, db' = db, plan' \in [PlanType -> AnyState], DOMAIN txn' = Proc,
           stale' \in [Proc -> BOOLEAN],
           \A q \in Proc : txn'[q].open => txn'[q] = txn[q] /\ stale'[q] = stale[q]
    PROVE  IInv'
  <1>1. TypeOK'
    <2>1. \A q \in Proc : txn'[q].open => TxnTyped(txn[q])'
      BY DEF IInv, TypeOK, TxnTyped, Writes, Ids
    <2> QED
      BY <2>1 DEF IInv, TypeOK, Ids
  <1>2. ChildrenCounted' /\ UsedIsReferred' /\ RequestsAreServed' /\ BookedHolds'
    BY SameTables
  <1>3. RowsExist'
    <2>1. \A q \in Proc : txn'[q].open => AddsExist(txn'[q])
      BY DEF IInv, Strengthening, RowsExist
    <2> QED
      BY <2>1, SameRowsExist
  <1>4. ASSUME NEW q \in Proc, txn'[q].open, ~stale'[q]
        PROVE  Consistent(txn[q])'
    <2> PICK t : t = txn'[q]
      OBVIOUS
    <2>1. Consistent(t)
      BY <1>4 DEF IInv, Strengthening, WritesHold
    <2> QED
      BY <2>1, SameConsistent
  <1>5. WritesHold'
    BY <1>4 DEF WritesHold
  <1> QED
    BY <1>1, <1>2, <1>3, <1>5 DEF IInv, Strengthening

LEMMA RequestInv ==
    ASSUME IInv, NEW p \in Proc, Request(p)
    PROVE  IInv'
  BY UpdateUserInv, AddChildInv, CreateReservationInv, ReviewReservationInv,
     CancelReservationInv, ExpirePendingInv, CreatePlanRequestInv, ReviewPlanRequestInv
     DEF Request

LEMMA NextInv == IInv /\ [Next]_vars => IInv'
  <1> SUFFICES ASSUME IInv, [Next]_vars PROVE IInv'
    OBVIOUS
  <1>1. ASSUME NEW p \in Proc, Rollback(p) PROVE IInv'
    <2>1. /\ db' = db /\ plan' = plan /\ DOMAIN txn' = Proc /\ stale' \in [Proc -> BOOLEAN]
          /\ \A q \in Proc : txn'[q].open => txn'[q] = txn[q] /\ stale'[q] = stale[q]
      BY <1>1 DEF Rollback, IInv, TypeOK, NoTxn
    <2> QED
      BY <2>1, QuietInv DEF IInv, TypeOK
  <1>2. ASSUME NEW type \in PlanType, NEW state \in PlanState[type], PlanChanges(type, state)
        PROVE  IInv'
    <2>1. /\ db' = db /\ plan' \in [PlanType -> AnyState] /\ txn' = txn /\ stale' = stale
      BY <1>2, BoundAssumption DEF PlanChanges, IInv, TypeOK
    <2> QED
      BY <2>1, QuietInv DEF IInv, TypeOK
  <1>3. CASE UNCHANGED vars
    BY <1>3, QuietInv DEF vars, IInv, TypeOK
  <1> QED
    BY <1>1, <1>2, <1>3, RequestInv, CommitInv DEF Next

\* The inductive invariant: rows of the right types, every counter, flag and
\* plan request in step with the stays, and open transactions whose writes
\* follow the tables until another commit overtakes them.
THEOREM Invariance == Spec => []IInv
<1>1. Init => IInv
  BY InitInv
<1>2. IInv /\ [Next]_vars => IInv'
  BY NextInv
<1> QED
  BY <1>1, <1>2, PTL DEF Spec

\* What the tables and the open transactions hold has its type, and stays and
\* plan requests refer to rows that exist.
THEOREM TypeCorrect == Spec => []TypeOK
<1>1. IInv => TypeOK
  BY DEF IInv
<1> QED
  BY <1>1, Invariance, PTL

\* number_of_children is the number of child rows, for any number of add_child
\* and update_user requests at once.
THEOREM ChildrenCorrect == Spec => []ChildrenCounted
<1>1. IInv => ChildrenCounted
  BY DEF IInv
<1> QED
  BY <1>1, Invariance, PTL

\* An eligibility that is marked used is referred to by a stay: remove_plan and
\* the reviews of plan requests lose none, in whatever order they commit.
THEOREM EligibilitiesKept == Spec => []UsedIsReferred
<1>1. IInv => UsedIsReferred
  BY DEF IInv
<1> QED
  BY <1>1, Invariance, PTL

\* A plan request has exactly one stay when it is approved and none otherwise,
\* for any number of administrators that review it at once.
THEOREM RequestsCorrect == Spec => []RequestsAreServed
<1>1. IInv => RequestsAreServed
  BY DEF IInv
<1> QED
  BY <1>1, Invariance, PTL

\* A stay that the employee booked holds its eligibility against the other booked
\* ones: the eligibility is marked, and remove_plan frees it under no other.
THEOREM HoldsCorrect == Spec => []Strengthening
<1>1. IInv => Strengthening
  BY DEF IInv
<1> QED
  BY <1>1, Invariance, PTL

-----------------------------------------------------------------------------
(* Grants.                                                                 *)

LEMMA CommitGrants ==
    ASSUME IInv, NEW p \in Proc, Commit(p), NEW type \in PlanType
    PROVE  LET more == Cardinality(EligOf(type, db'["elig"]))
                          - Cardinality(EligOf(type, db["elig"]))
           IN  more # 0 =>
                  /\ more = 1
                  /\ type = "NEW_MARRIAGE" => ~Profile.married /\ db'["profile"][1].married
                  /\ type = "NEW_CHILD" => Len(db'["children"]) = Len(db["children"]) + 1
  <1> PICK t : t = txn[p]
    OBVIOUS
  <1> DEFINE Of == EligOf(type, db["elig"])
             After == EligOf(type, db'["elig"])
  <1>1. /\ TxnTyped(t) /\ GrantFollows(t)
        /\ TableAfter(t, "elig") /\ TableAfter(t, "profile") /\ TableAfter(t, "children")
    BY CommitTxn DEF Consistent
  <1>2. DOMAIN db["elig"] = Ids("elig") /\ DOMAIN db'["elig"] = Ids("elig")'
        /\ Len(db["elig"]) \in Nat /\ Len(db["children"]) \in Nat
    <2>1. /\ "elig" \in Table /\ "children" \in Table
          /\ \A n \in Table : db[n] \in Seq(Rows[n])
      BY DEF IInv, TypeOK, Table
    <2>2. \A n \in Table : db'[n] \in Seq(Rows[n])
      BY CommitTypes DEF TypeOK
    <2> QED
      BY <2>1, <2>2, LenProperties DEF Ids
  <1>3. IsFiniteSet(Of) /\ Cardinality(Of) \in Nat
    BY <1>2, RowsFinite DEF IInv, EligOf, Table
  <1>4. \A e \in Ids("elig") : e \in After <=> e \in Of
    <2>1. Ids("elig") \subseteq Ids("elig")'
      BY <1>1 DEF TableAfter
    <2>2. \A e \in Ids("elig") : db'["elig"][e].type = db["elig"][e].type
      BY <2>1, EligAfter
    <2> QED
      BY <1>2, <2>1, <2>2 DEF EligOf
  <1>5. t.ins["elig"] \in Seq(Rows["elig"]) /\ Len(t.ins["elig"]) <= 1
    BY <1>1 DEF TxnTyped, GrantFollows, Table
  <1>6. CASE \E e \in After : e \notin Ids("elig")
    <2>1. PICK e \in After : e \notin Ids("elig")
      BY <1>6
    <2>2. e \in Ids("elig")' /\ db'["elig"][e].type = type
      BY <1>2 DEF EligOf
    <2>3. DOMAIN t.ins["elig"] \subseteq {1}
      BY <1>5, LenProperties
    <2>4. 1 \in DOMAIN t.ins["elig"] /\ e = Len(db["elig"]) + 1
          /\ t.ins["elig"][1].type = type
      <3>1. PICK k \in DOMAIN t.ins["elig"] : e = Len(db["elig"]) + k
        BY <1>1, <2>1, <2>2 DEF TableAfter
      <3>2. k = 1 /\ db'["elig"][e] = t.ins["elig"][k]
        BY <1>1, <2>3, <3>1 DEF TableAfter
      <3> QED
        BY <2>2, <3>1, <3>2
    <2>5. \A f \in After : f \in Ids("elig") \/ f = e
      <3> SUFFICES ASSUME NEW f \in After, f \notin Ids("elig") PROVE f = e
        OBVIOUS
      <3>1. f \in Ids("elig")'
        BY <1>2 DEF EligOf
      <3>2. PICK k \in DOMAIN t.ins["elig"] : f = Len(db["elig"]) + k
        BY <1>1, <3>1 DEF TableAfter
      <3> QED
        BY <2>3, <2>4, <3>2
    <2>6. After = Of \cup {e} /\ e \notin Of
      <3>1. Of \subseteq Ids("elig")
        BY <1>2 DEF EligOf
      <3> HIDE DEF After, Of
      <3> QED
        BY <1>4, <2>1, <2>5, <3>1
    <2>7. Cardinality(After) - Cardinality(Of) = 1
      <3> HIDE DEF After, Of
      <3>1. Cardinality(Of \cup {e}) = Cardinality(Of) + 1
        BY <1>3, <2>6, FS_AddElement
      <3> QED
        BY <1>3, <2>6, <3>1
    <2>8. type = "NEW_MARRIAGE" => ~Profile.married /\ db'["profile"][1].married
      <3> SUFFICES ASSUME type = "NEW_MARRIAGE"
                   PROVE  ~Profile.married /\ db'["profile"][1].married
        OBVIOUS
      <3>1. /\ 1 \in Writes(t, "profile") /\ ~Profile.married
            /\ t.upd[<<"profile", 1>>].married
        BY <1>1, <2>4 DEF GrantFollows
      <3>2. db'["profile"][1] = t.upd[<<"profile", 1>>]
        BY <1>1, <3>1 DEF TableAfter, Writes
      <3> QED
        BY <3>1, <3>2
    <2>9. type = "NEW_CHILD" => Len(db'["children"]) = Len(db["children"]) + 1
      BY <1>1, <2>4 DEF GrantFollows, TableAfter
    <2> QED
      BY <2>7, <2>8, <2>9
  <1>7. CASE \A e \in After : e \in Ids("elig")
    <2>1. Of \subseteq Ids("elig")
      BY <1>2 DEF EligOf
    <2>2. After = Of
      <3> HIDE DEF After, Of
      <3> QED
        BY <1>4, <1>7, <2>1
    <2> QED
      BY <1>3, <2>2
  <1> QED
    BY <1>6, <1>7

LEMMA GrantsStep ==
    ASSUME IInv, [Next]_vars, NEW type \in PlanType
    PROVE  LET more == Cardinality(EligOf(type, db'["elig"]))
                          - Cardinality(EligOf(type, db["elig"]))
           IN  more # 0 =>
                  /\ more = 1
                  /\ type = "NEW_MARRIAGE" => ~Profile.married /\ db'["profile"][1].married
                  /\ type = "NEW_CHILD" => Len(db'["children"]) = Len(db["children"]) + 1
  <1>1. CASE \E p \in Proc : Commit(p)
    BY <1>1, CommitGrants
  <1>2. CASE db' = db
    <2>1. DOMAIN db["elig"] = Ids("elig")
      BY LenProperties DEF IInv, TypeOK, Table, Ids
    <2>2. Cardinality(EligOf(type, db["elig"])) \in Nat
      BY <2>1, RowsFinite DEF IInv, EligOf, Table
    <2> QED
      BY <1>2, <2>2
  <1>3. ASSUME NEW p \in Proc, Request(p) PROVE db' = db
    BY <1>3 DEF Request, UpdateUser, AddChild, CreateReservation, ReviewReservation,
       CancelReservation, ExpirePending, CreatePlanRequest, ReviewPlanRequest, Begin
  <1>4. (\E p \in Proc : Commit(p)) \/ db' = db
    BY <1>3 DEF Next, Rollback, PlanChanges, vars
  <1> QED
    BY <1>1, <1>2, <1>4

\* A request that adds no eligibility, or what grant_user_plan_eligibility gave it,
\* grants under a plan that is active and not over.
LEMMA OpensInWindow ==
    ASSUME TypeOK, NEW p \in Proc, NEW rows, NEW ins, Begin(p, rows, ins),
           ins["elig"] = <<>> \/ \E type \in PlanType : ins["elig"] = Granted(type),
           NEW q \in Proc, ~txn[q].open, txn'[q].open
    PROVE  \A type \in Granting(txn'[q]) : plan[type] \in {"UPCOMING", "OPEN"}
  <1>1. q = p
    BY BeginOpens
  <1>2. txn'[q].ins["elig"] = ins["elig"]
    BY <1>1, BeginOpens DEF Flushed
  <1>3. CASE ins["elig"] = <<>>
    BY <1>2, <1>3 DEF Granting
  <1>4. ASSUME NEW type \in PlanType, ins["elig"] = Granted(type), ins["elig"] # <<>>
        PROVE  \A x \in Granting(txn'[q]) : plan[x] \in {"UPCOMING", "OPEN"}
    <2>1. plan[type] # "CLOSED" /\ ins["elig"] = <<[type |-> type, used |-> FALSE]>>
      BY <1>4 DEF Granted
    <2>2. plan[type] \in {"UPCOMING", "OPEN"}
      BY <2>1 DEF TypeOK, AnyState
    <2>3. \A x \in Granting(txn'[q]) : x = type
      BY <1>2, <2>1 DEF Granting
    <2> QED
      BY <2>2, <2>3
  <1> QED
    BY <1>3, <1>4

\* No other step opens a transaction.
LEMMA GrantsInWindow ==
    ASSUME IInv, [Next]_vars, NEW q \in Proc, ~txn[q].open, txn'[q].open
    PROVE  \A type \in Granting(txn'[q]) : plan[type] \in {"UPCOMING", "OPEN"}
  <1>0. TypeOK /\ "elig" \in Table /\ NoRows["elig"] = <<>>
        /\ {"NEW_MARRIAGE", "NEW_CHILD"} \subseteq PlanType
    BY DEF IInv, NoRows, Table, PlanType
  <1>1. PICK p \in Proc : Request(p)
    BY <1>0 DEF Next, Commit, Rollback, PlanChanges, vars, TypeOK, NoTxn
  <1>2. \A n, row : n # "elig" => Add(n, row)["elig"] = <<>>
    BY <1>0 DEF Add, NoRows
  <1>3. ASSUME NEW married \in BOOLEAN, UpdateUser(p, married)
        PROVE  \A type \in Granting(txn'[q]) : plan[type] \in {"UPCOMING", "OPEN"}
    <2> DEFINE grant == IF NewlyMarried(married) THEN Granted("NEW_MARRIAGE") ELSE <<>>
               ins == [NoRows EXCEPT !["elig"] = grant]
    <2>1. Begin(p, One("profile", 1, [Profile EXCEPT !.married = married]), ins)
      BY <1>3 DEF UpdateUser
    <2>2. ins["elig"] = grant
      BY DEF NoRows, Table
    <2>3. grant = <<>> \/ grant = Granted("NEW_MARRIAGE")
      OBVIOUS
    <2> HIDE DEF ins, grant
    <2> QED
      BY <1>0, <2>1, <2>2, <2>3, OpensInWindow
  <1>4. CASE AddChild(p)
    <2> DEFINE ins == [NoRows EXCEPT !["children"] = <<"CHILD">>, !["elig"] = Granted("NEW_CHILD")]
    <2>1. Begin(p, One("profile", 1, OneMore(Profile)), ins)
      BY <1>4 DEF AddChild
    <2>2. ins["elig"] = Granted("NEW_CHILD")
      BY DEF NoRows, Table
    <2> HIDE DEF ins
    <2> QED
      BY <1>0, <2>1, <2>2, OpensInWindow
  <1>5. ASSUME NEW rows, NEW ins, Begin(p, rows, ins), ins["elig"] = <<>>
        PROVE  \A type \in Granting(txn'[q]) : plan[type] \in {"UPCOMING", "OPEN"}
    BY <1>0, <1>5, OpensInWindow
  <1>6. \/ \E married \in BOOLEAN : UpdateUser(p, married)
        \/ AddChild(p)
        \/ \E rows, ins : Begin(p, rows, ins) /\ ins["elig"] = <<>>
    <2>1. ASSUME NEW types, CreateReservation(p, types)
          PROVE  \E rows, ins : Begin(p, rows, ins) /\ ins["elig"] = <<>>
      BY <1>2, <2>1 DEF CreateReservation
    <2>2. ASSUME NEW s, NEW status, NEW plans, ReviewReservation(p, s, status, plans)
          PROVE  \E rows, ins : Begin(p, rows, ins) /\ ins["elig"] = <<>>
      BY <1>0, <2>2 DEF ReviewReservation
    <2>3. ASSUME NEW s, CancelReservation(p, s)
          PROVE  \E rows, ins : Begin(p, rows, ins) /\ ins["elig"] = <<>>
      BY <1>0, <2>3 DEF CancelReservation
    <2>4. ASSUME NEW overdue, NEW winners, ExpirePending(p, overdue, winners)
          PROVE  \E rows, ins : Begin(p, rows, ins) /\ ins["elig"] = <<>>
      BY <1>0, <2>4 DEF ExpirePending
    <2>5. ASSUME NEW type, CreatePlanRequest(p, type)
          PROVE  \E rows, ins : Begin(p, rows, ins) /\ ins["elig"] = <<>>
      BY <1>2, <2>5 DEF CreatePlanRequest
    <2>6. ASSUME NEW r, NEW status, ReviewPlanRequest(p, r, status)
          PROVE  \E rows, ins : Begin(p, rows, ins) /\ ins["elig"] = <<>>
      BY <1>0, <1>2, <2>6 DEF ReviewPlanRequest
    <2> QED
      BY <1>1, <2>1, <2>2, <2>3, <2>4, <2>5, <2>6 DEF Request
  <1> QED
    BY <1>3, <1>4, <1>5, <1>6

\* An eligibility is granted with a life event and with nothing else, one with
\* each: the commit that grants it marries a single employee or adds a child, and
\* the request that does so opened under a plan that was active and not over.
THEOREM GrantsCorrect == Spec => GrantsFollowEvents
<1>1. IInv /\ [Next]_vars =>
        [/\ \A type \in PlanType :
              LET more == Cardinality(EligOf(type, db'["elig"])) - Cardinality(EligOf(type, db["elig"]))
              IN  more # 0 =>
                     /\ more = 1
                     /\ type = "NEW_MARRIAGE" => ~Profile.married /\ db'["profile"][1].married
                     /\ type = "NEW_CHILD" => Len(db'["children"]) = Len(db["children"]) + 1
         /\ \A p \in Proc : ~txn[p].open /\ txn'[p].open =>
              \A type \in Granting(txn'[p]) : plan[type] \in {"UPCOMING", "OPEN"}]_vars
  BY GrantsStep, GrantsInWindow
<1> QED
  BY <1>1, Invariance, PTL DEF Spec, GrantsFollowEvents

-----------------------------------------------------------------------------
(* Eligibilities that are booked.                                          *)

\* No eligibility is booked twice, in whatever order reservations, reviews with
\* remove_plan and the cron job commit: two stays under one eligibility need a plan
\* request that was approved.
THEOREM BookedCorrect == Spec => []BookedOnce
<1>1. IInv => BookedOnce
  <2> SUFFICES ASSUME IInv, NEW e \in Ids("elig")
               PROVE  Cardinality(Booked(e)) <= 1
    BY DEF BookedOnce
  <2>1. CASE Booked(e) = {}
    BY <2>1, FS_EmptySet
  <2>2. CASE Booked(e) # {}
    <3>1. PICK s : s \in Booked(e)
      BY <2>2
    <3>2. /\ s \in Ids("stays") /\ db["stays"][s].request = 0 /\ db["stays"][s].elig = e
          /\ e # NoElig
      BY <3>1 DEF Booked, Referring, Ids, NoElig
    <3>3. \A r \in Booked(e) : r = s
      BY <3>2 DEF IInv, Strengthening, BookedHolds
    <3>4. Booked(e) = {s}
      BY <3>1, <3>3
    <3>5. Cardinality({s}) = 1
      BY FS_Singleton
    <3> QED
      BY <3>4, <3>5
  <2> QED
    BY <2>1, <2>2
<1> QED
  BY <1>1, Invariance, PTL

-----------------------------------------------------------------------------
(* How many requests of a type can be pending.                             *)

\* The bound, for one type.
Bounded(type) ==
    Cardinality(Requests(type, "PENDING")) + Cardinality(Asking(type)) <= Cardinality(Proc)

LEMMA RequestCounts ==
    ASSUME TypeOK, NEW type
    PROVE  /\ Requests(type, "PENDING") \subseteq Ids("requests")
           /\ IsFiniteSet(Requests(type, "PENDING"))
           /\ Cardinality(Requests(type, "PENDING")) \in Nat
           /\ IsFiniteSet(Asking(type)) /\ Cardinality(Asking(type)) \in Nat
           /\ Cardinality(Asking(type)) <= Cardinality(Proc) /\ Cardinality(Proc) \in Nat
  <1>1. Requests(type, "PENDING") \subseteq Ids("requests") /\ Asking(type) \subseteq Proc
    BY DEF Requests, Asking
  <1>2. /\ IsFiniteSet(Requests(type, "PENDING"))
        /\ Cardinality(Requests(type, "PENDING")) \in Nat
    BY <1>1, RowsFinite DEF Table
  <1>3. IsFiniteSet(Asking(type)) /\ Cardinality(Asking(type)) <= Cardinality(Proc)
    BY <1>1, BoundAssumption, FS_Subset DEF BoundAssumption
  <1>4. Cardinality(Asking(type)) \in Nat /\ Cardinality(Proc) \in Nat
    BY <1>3, BoundAssumption, FS_CardinalityType DEF BoundAssumption
  <1> QED
    BY <1>1, <1>2, <1>3, <1>4

\* No more requests of the type are pending, and no more processes about to add one.
LEMMA NoMoreRequests ==
    ASSUME TypeOK, NEW type, Bounded(type),
           Requests(type, "PENDING")' \subseteq Requests(type, "PENDING"),
           Asking(type)' \subseteq Asking(type)
    PROVE  Bounded(type)'
  <1> DEFINE R == Requests(type, "PENDING")
             A == Asking(type)
  <1>1. /\ IsFiniteSet(R) /\ Cardinality(R) \in Nat
        /\ IsFiniteSet(A) /\ Cardinality(A) \in Nat /\ Cardinality(Proc) \in Nat
        /\ Cardinality(R) + Cardinality(A) <= Cardinality(Proc)
    BY RequestCounts DEF Bounded
  <1>2. \A S, T : IsFiniteSet(S) /\ T \subseteq S =>
           Cardinality(T) \in Nat /\ Cardinality(T) <= Cardinality(S)
    BY FS_Subset, FS_CardinalityType
  <1>3. /\ Cardinality(R') \in Nat /\ Cardinality(R') <= Cardinality(R)
        /\ Cardinality(A') \in Nat /\ Cardinality(A') <= Cardinality(A)
    BY <1>1, <1>2
  <1>4. Cardinality(R') + Cardinality(A') <= Cardinality(Proc)
    <2> HIDE DEF R, A
    <2> QED
      BY <1>1, <1>3
  <1> QED
    BY <1>4 DEF Bounded

\* A process that opens a transaction without a plan request in it.
LEMMA AsksNothing ==
    ASSUME TypeOK, NEW p \in Proc, NEW rows, NEW ins, Begin(p, rows, ins),
           \A i \in DOMAIN ins["requests"] : FALSE, NEW type
    PROVE  Asking(type)' \subseteq Asking(type) /\ db' = db
  <1>1. txn'[p].ins = ins /\ \A q \in Proc \ {p} : txn'[q] = txn[q]
    BY BeginOpens DEF Flushed
  <1>2. db' = db
    BY BeginOpens
  <1>3. ASSUME NEW q \in Asking(type)' PROVE q \in Asking(type)
    <2>1. /\ q \in Proc /\ txn'[q].open
          /\ \E i \in DOMAIN txn'[q].ins["requests"] : txn'[q].ins["requests"][i].type = type
      BY DEF Asking
    <2>2. q # p
      BY <1>1, <2>1
    <2> QED
      BY <1>1, <2>1, <2>2 DEF Asking
  <1> QED
    BY <1>2, <1>3

LEMMA NothingAsked == \A i \in DOMAIN NoRows["requests"] : FALSE
  BY NoRowsAdded, NoneLong DEF Table

\* The rows that are added to another table ask for nothing.
LEMMA NothingAskedBy ==
    ASSUME NEW ins, ins["requests"] = NoRows["requests"]
    PROVE  \A i \in DOMAIN ins["requests"] : FALSE
  BY NothingAsked

LEMMA RequestBounded ==
    ASSUME TypeOK, NEW p \in Proc, Request(p), NEW type \in PlanType, Bounded(type)
    PROVE  Bounded(type)'
  <1>1. ASSUME NEW rows, NEW ins, Begin(p, rows, ins), ins["requests"] = NoRows["requests"]
        PROVE  Bounded(type)'
    <2>1. Asking(type)' \subseteq Asking(type) /\ db' = db
      BY <1>1, NothingAskedBy, AsksNothing
    <2>2. Requests(type, "PENDING")' = Requests(type, "PENDING")
      BY <2>1 DEF Requests, Ids
    <2> QED
      BY <2>1, <2>2, NoMoreRequests
  <1>2. ASSUME NEW row PROVE Add("stays", row)["requests"] = NoRows["requests"]
    BY DEF Add, NoRows, Table
  <1>3. ASSUME NEW married \in BOOLEAN, UpdateUser(p, married) PROVE Bounded(type)'
    <2>1. PICK rows, grant : Begin(p, rows, [NoRows EXCEPT !["elig"] = grant])
      BY <1>3 DEF UpdateUser
    <2>2. [NoRows EXCEPT !["elig"] = grant]["requests"] = NoRows["requests"]
      BY DEF NoRows, Table
    <2> QED
      BY <1>1, <2>1, <2>2
  <1>4. CASE AddChild(p)
    <2>1. PICK rows, grant :
            Begin(p, rows, [NoRows EXCEPT !["children"] = <<"CHILD">>, !["elig"] = grant])
      BY <1>4 DEF AddChild
    <2>2. [NoRows EXCEPT !["children"] = <<"CHILD">>, !["elig"] = grant]["requests"]
             = NoRows["requests"]
      BY DEF NoRows, Table
    <2> QED
      BY <1>1, <2>1, <2>2
  <1>5. ASSUME NEW types, CreateReservation(p, types) PROVE Bounded(type)'
    BY <1>1, <1>2, <1>5 DEF CreateReservation
  <1>6. ASSUME NEW s, NEW status, NEW removePlan, ReviewReservation(p, s, status, removePlan)
        PROVE  Bounded(type)'
    BY <1>1, <1>6 DEF ReviewReservation
  <1>7. ASSUME NEW s, CancelReservation(p, s) PROVE Bounded(type)'
    BY <1>1, <1>7 DEF CancelReservation
  <1>8. ASSUME NEW overdue, NEW winners, ExpirePending(p, overdue, winners)
        PROVE  Bounded(type)'
    BY <1>1, <1>8 DEF ExpirePending
  <1>9. ASSUME NEW r, NEW status, ReviewPlanRequest(p, r, status) PROVE Bounded(type)'
    <2>1. \/ \E rows : Begin(p, rows, NoRows)
          \/ \E rows, row : Begin(p, rows, Add("stays", row))
      BY <1>9 DEF ReviewPlanRequest
    <2> QED
      BY <1>1, <1>2, <2>1
  \* A request of another type changes nothing; one of this type finds none pending.
  <1>10. ASSUME NEW k \in PlanType, CreatePlanRequest(p, k) PROVE Bounded(type)'
    <2> DEFINE new == [type |-> k, status |-> "PENDING", elig |-> Usable({k})]
    <2>1. Begin(p, <<>>, Add("requests", new)) /\ Requests(k, "PENDING") = {}
      BY <1>10 DEF CreatePlanRequest, MayRequest
    <2>2. new.type = k
      OBVIOUS
    <2> HIDE DEF new
    <2>3. /\ txn'[p].ins = Add("requests", new) /\ db' = db
          /\ \A q \in Proc \ {p} : txn'[q] = txn[q]
      BY <2>1, BeginOpens DEF Flushed
    <2>4. /\ DOMAIN Add("requests", new)["requests"] = {1}
          /\ Add("requests", new)["requests"][1] = new
      <3>1. Add("requests", new)["requests"] = <<new>>
        BY DEF Add, NoRows, Table
      <3> QED
        BY <3>1, OneLong
    <2>5. Requests(type, "PENDING")' = Requests(type, "PENDING")
      BY <2>3 DEF Requests, Ids
    <2>6. CASE type # k
      <3>1. ASSUME NEW q \in Asking(type)' PROVE q \in Asking(type)
        <4>1. /\ q \in Proc /\ txn'[q].open
              /\ \E i \in DOMAIN txn'[q].ins["requests"] :
                    txn'[q].ins["requests"][i].type = type
          BY DEF Asking
        <4>2. q # p
          BY <2>2, <2>3, <2>4, <2>6, <4>1
        <4> QED
          BY <2>3, <4>1, <4>2 DEF Asking
      <3> QED
        BY <2>5, <3>1, NoMoreRequests
    <2>7. CASE type = k
      <3>1. Requests(type, "PENDING")' = {}
        BY <2>1, <2>5, <2>7
      <3>2. Asking(type)' \subseteq Proc
        BY DEF Asking
      <3>3. /\ Cardinality(Asking(type)') \in Nat
            /\ Cardinality(Asking(type)') <= Cardinality(Proc)
        BY <3>2, BoundAssumption, FS_Subset, FS_CardinalityType DEF BoundAssumption
      <3>4. Cardinality(Requests(type, "PENDING")') = 0
        BY <3>1, FS_EmptySet
      <3> QED
        BY <3>3, <3>4 DEF Bounded
    <2> QED
      BY <2>6, <2>7
  <1> QED
    BY <1>3, <1>4, <1>5, <1>6, <1>7, <1>8, <1>9, <1>10 DEF Request

\* A commit decides pending requests, and adds the one that its process asked for.
LEMMA CommitAsked ==
    ASSUME IInv, NEW p \in Proc, Commit(p), NEW type,
           NEW r \in Requests(type, "PENDING")', r \notin Requests(type, "PENDING")
    PROVE  p \in Asking(type) /\ r = Len(db["requests"]) + 1
  <1> PICK t : t = txn[p]
    OBVIOUS
  <1>1. /\ TxnTyped(t) /\ RequestsFollow(t) /\ AddsFollow(t) /\ TableAfter(t, "requests")
        /\ t.open
    BY CommitTxn DEF Consistent, Commit
  <1>2. /\ r \in Ids("requests")' /\ db'["requests"][r].type = type
        /\ db'["requests"][r].status = "PENDING"
    BY DEF Requests
  <1>3. r \notin Writes(t, "requests")
    <2> SUFFICES ASSUME r \in Writes(t, "requests") PROVE FALSE
      OBVIOUS
    <2>1. r \in Ids("requests") /\ db'["requests"][r] = t.upd[<<"requests", r>>]
      BY <1>1 DEF TableAfter, Writes
    <2>2. t.upd[<<"requests", r>>].status \in {"APPROVED", "REJECTED"}
      BY <1>1 DEF RequestsFollow
    <2> QED
      BY <1>2, <2>1, <2>2
  <1>4. r \notin Ids("requests")
    BY <1>1, <1>2, <1>3 DEF TableAfter, Requests
  <1>5. PICK k \in DOMAIN t.ins["requests"] : r = Len(db["requests"]) + k
    BY <1>1, <1>2, <1>4 DEF TableAfter
  <1>6. t.ins["requests"][k].type = type
    BY <1>1, <1>2, <1>5 DEF TableAfter
  <1>7. k = 1
    <2>1. t.ins["requests"] \in Seq(Rows["requests"]) /\ Len(t.ins["requests"]) <= 1
      BY <1>1 DEF TxnTyped, AddsFollow, Table
    <2> QED
      BY <1>5, <2>1, LenProperties
  <1>8. p \in Asking(type)
    BY <1>1, <1>5, <1>6 DEF Asking
  <1> QED
    BY <1>5, <1>7, <1>8

LEMMA CommitBounded ==
    ASSUME IInv, NEW p \in Proc, Commit(p), NEW type, Bounded(type)
    PROVE  Bounded(type)'
  <1> DEFINE R == Requests(type, "PENDING")
             A == Asking(type)
             x == Len(db["requests"]) + 1
  <1>1. A' \subseteq A \ {p}
    <2>1. \A q \in Proc : txn'[q].open => q # p /\ txn'[q] = txn[q]
      BY CommitOthers
    <2> QED
      BY <2>1 DEF Asking
  <1>2. CASE p \notin A
    <2>1. R' \subseteq R
      BY <1>2, CommitAsked
    <2> QED
      BY <1>1, <2>1, NoMoreRequests DEF IInv
  <1>3. CASE p \in A
    <2>1. R' \subseteq R \cup {x}
      BY CommitAsked
    <2>2. /\ IsFiniteSet(R) /\ Cardinality(R) \in Nat
          /\ IsFiniteSet(A) /\ Cardinality(A) \in Nat /\ Cardinality(Proc) \in Nat
          /\ Cardinality(R) + Cardinality(A) <= Cardinality(Proc)
      BY RequestCounts DEF IInv, Bounded
    <2>3. IsFiniteSet(R \cup {x}) /\ Cardinality(R \cup {x}) <= Cardinality(R) + 1
      <3> HIDE DEF R, x
      <3>1. /\ IsFiniteSet(R \cup {x})
            /\ Cardinality(R \cup {x}) = IF x \in R THEN Cardinality(R) ELSE Cardinality(R) + 1
        BY <2>2, FS_AddElement
      <3> QED
        BY <2>2, <3>1
    <2>4. IsFiniteSet(A \ {p}) /\ Cardinality(A \ {p}) = Cardinality(A) - 1
      <3> HIDE DEF A
      <3> QED
        BY <1>3, <2>2, FS_RemoveElement
    <2>5. \A S, T : IsFiniteSet(S) /\ T \subseteq S =>
             /\ Cardinality(T) \in Nat /\ Cardinality(S) \in Nat
             /\ Cardinality(T) <= Cardinality(S)
      BY FS_Subset, FS_CardinalityType
    <2>6. /\ Cardinality(R') \in Nat /\ Cardinality(R') <= Cardinality(R \cup {x})
          /\ Cardinality(R \cup {x}) \in Nat
          /\ Cardinality(A') \in Nat /\ Cardinality(A') <= Cardinality(A \ {p})
      BY <1>1, <2>1, <2>3, <2>4, <2>5
    <2>7. Cardinality(R') + Cardinality(A') <= Cardinality(Proc)
      <3> HIDE DEF R, A, x
      <3> QED
        BY <2>2, <2>3, <2>4, <2>6
    <2> QED
      BY <2>7 DEF Bounded
  <1> QED
    BY <1>2, <1>3

LEMMA BoundedStep ==
    ASSUME IInv, [Next]_vars, NEW type \in PlanType, Bounded(type)
    PROVE  Bounded(type)'
  <1>1. ASSUME NEW p \in Proc, Rollback(p) PROVE Bounded(type)'
    <2>1. db' = db /\ \A q \in Proc : txn'[q].open => txn'[q] = txn[q]
      BY <1>1 DEF Rollback, IInv, TypeOK, NoTxn
    <2>2. Asking(type)' \subseteq Asking(type)
      BY <2>1 DEF Asking
    <2>3. Requests(type, "PENDING")' = Requests(type, "PENDING")
      BY <2>1 DEF Requests, Ids
    <2> QED
      BY <2>2, <2>3, NoMoreRequests DEF IInv
  <1>2. CASE db' = db /\ txn' = txn
    BY <1>2 DEF Bounded, Requests, Ids, Asking
  <1>3. \/ \E p \in Proc : Request(p) \/ Commit(p) \/ Rollback(p)
        \/ db' = db /\ txn' = txn
    BY DEF Next, PlanChanges, vars
  <1> QED
    BY <1>1, <1>2, <1>3, RequestBounded, CommitBounded DEF IInv

LEMMA InitBounded == ASSUME Init, NEW type PROVE Bounded(type)
  <1>1. db["requests"] = <<>>
    BY DEF Init, NoRows, Table
  <1>2. Ids("requests") = {}
    BY <1>1, NoneLong DEF Ids
  <1>3. Requests(type, "PENDING") = {} /\ Asking(type) = {}
    BY <1>2 DEF Requests, Asking, Init, NoTxn
  <1>4. Cardinality(Proc) \in Nat
    BY BoundAssumption, FS_CardinalityType DEF BoundAssumption
  <1> QED
    BY <1>3, <1>4, FS_EmptySet DEF Bounded

\* create_plan_request refuses a second pending request of a type unless both
\* read before either committed: there are never more of them than threads.
THEOREM RequestsBounded == Spec => []PendingRequestsBounded
<1>1. Init => PendingRequestsBounded
  BY InitBounded DEF PendingRequestsBounded, Bounded
<1>2. IInv /\ PendingRequestsBounded /\ [Next]_vars => PendingRequestsBounded'
  <2> SUFFICES ASSUME IInv, PendingRequestsBounded, [Next]_vars, NEW type \in PlanType
               PROVE  Bounded(type)'
    BY DEF PendingRequestsBounded, Bounded
  <2>1. Bounded(type)
    BY DEF PendingRequestsBounded, Bounded
  <2> QED
    BY <2>1, BoundedStep
<1> QED
  BY <1>1, <1>2, Invariance, PTL DEF Spec

\* One request at a time keeps the rule of create_plan_request: the two pending
\* requests that its lookup with scalar_one_or_none cannot stand need two threads.
THEOREM OneThreadAsksOnce ==
    ASSUME Cardinality(Proc) = 1
    PROVE  Spec => [](\A type \in PlanType : Cardinality(Requests(type, "PENDING")) <= 1)
<1>1. IInv /\ PendingRequestsBounded =>
         \A type \in PlanType : Cardinality(Requests(type, "PENDING")) <= 1
  BY RequestCounts DEF IInv, PendingRequestsBounded
<1> QED
  BY <1>1, Invariance, RequestsBounded, PTL

=============================================================================
