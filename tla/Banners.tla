------------------------------- MODULE Banners -------------------------------
(***************************************************************************)
(* The banner of the portal (accommodation/service.py).  Creating a banner *)
(* and activating one first execute a bulk UPDATE that deactivates the     *)
(* others.  Unlike the writes of the unit of work, which are flushed at    *)
(* the commit, a bulk UPDATE happens at once, on the rows as they are then *)
(* and not as the snapshot has them, and locks the rows it scans until the *)
(* transaction ends.                                                       *)
(*                                                                         *)
(* No index covers is_active, so the statement of create_banner scans the  *)
(* table.  That of update_banner also has id <> banner_id, for which the   *)
(* optimizer may scan the two ranges of the primary key instead: then the  *)
(* row of the banner itself stays unlocked.  Both scans lock the end of    *)
(* the table against inserts.                                              *)
(***************************************************************************)
EXTENDS Naturals, FiniteSets

CONSTANTS
    Proc,        \* request threads
    MaxBanners   \* bound on the banners ever created

ASSUME BoundAssumption == MaxBanners \in Nat

VARIABLES
    fuw,      \* whether innodb_snapshot_isolation is on; never changes
    banner,   \* the rows of the table, by id, with is_active
    txn,      \* the open transaction of every process
    changed   \* the rows that changed since its snapshot

vars == <<fuw, banner, txn, changed>>

Id == 1 .. MaxBanners
None == 0   \* no banner_id: the transaction creates one
Flag == {"ACTIVE", "INACTIVE"}

\* A transaction has read its snapshot (READ), and executed its bulk UPDATE
\* (SWEPT).  set and text are the fields of the request body; was is is_active
\* of the loaded banner; locks and off are the rows that the bulk UPDATE locks
\* and those it deactivates.
Txn == [step : {"IDLE", "READ", "SWEPT"}, op : {"CREATE", "UPDATE", "DELETE"},
        id : Id \cup {None}, set : Flag \cup {"KEEP"}, text : BOOLEAN, was : Flag,
        locks : SUBSET Id, off : SUBSET Id]

Idle == [step |-> "IDLE", op |-> "CREATE", id |-> None, set |-> "ACTIVE", text |-> FALSE,
         was |-> "INACTIVE", locks |-> {}, off |-> {}]

Init ==
    /\ fuw \in BOOLEAN
    /\ banner = [b \in Id |-> "FREE"]
    /\ txn = [p \in Proc |-> Idle]
    /\ changed = [p \in Proc |-> {}]

Rows == {b \in Id : banner[b] \in Flag}
Active == {b \in Id : banner[b] = "ACTIVE"}

Used == {b \in Id : banner[b] # "FREE"}
Creating == {q \in Proc : txn[q].step # "IDLE" /\ txn[q].op = "CREATE"}

Opened(op, b, set, text, was) ==
    [step |-> "READ", op |-> op, id |-> b, set |-> set, text |-> text, was |-> was,
     locks |-> {}, off |-> {}]

\* The first statement of the request reads the snapshot.
Begin(p, t) ==
    /\ txn[p].step = "IDLE"
    /\ txn' = [txn EXCEPT ![p] = t]
    /\ changed' = [changed EXCEPT ![p] = {}]
    /\ UNCHANGED <<fuw, banner>>

CreateBanner(p) ==
    /\ Cardinality(Used) + Cardinality(Creating) < MaxBanners
    /\ Begin(p, Opened("CREATE", None, "ACTIVE", FALSE, "INACTIVE"))

UpdateBanner(p, b, set, text) ==
    /\ b \in Rows
    /\ Begin(p, Opened("UPDATE", b, set, text, banner[b]))

DeleteBanner(p, b) ==
    /\ b \in Rows
    /\ Begin(p, Opened("DELETE", b, "ACTIVE", FALSE, banner[b]))

-----------------------------------------------------------------------------
(* The bulk UPDATE.                                                        *)

\* Mutated form of Activates: an update leaves the other banners alone.
ActivatesNew(t) == t.op = "CREATE"

\* create_banner, and update_banner when data.is_active is True
Activates(t) == t.op = "CREATE" \/ (t.op = "UPDATE" /\ t.set = "ACTIVE")

\* Mutated form of Others: the condition id <> banner_id is missing.
OthersAndItself(t) == Rows

\* The rows other than banner_id.
Others(t) == Rows \ {t.id}

LockedByOthers(p) == UNION {txn[q].locks : q \in Proc \ {p}}

\* The statement waits for the locks of others.  With snapshot isolation it
\* fails on a row that changed since the snapshot.
Sweep(p) ==
    LET t == txn[p]
    IN  /\ t.step = "READ" /\ Activates(t)
        /\ \E scanned \in {Rows, Others(t)} :
              /\ scanned \cap LockedByOthers(p) = {}
              /\ fuw => scanned \cap changed[p] = {}
              /\ txn' = [txn EXCEPT ![p].step = "SWEPT", ![p].locks = scanned,
                                    ![p].off = Active \cap Others(t)]
        /\ UNCHANGED <<fuw, banner, changed>>

-----------------------------------------------------------------------------
(* The flush and the commit.                                               *)

\* Mutated form of FlagWritten: is_active is written whenever the row is.
FlagAlwaysWritten(t) == t.set # "KEEP" \/ t.text

\* Only an attribute that differs from the loaded value is written.
FlagWritten(t) == t.set # "KEEP" /\ t.set # t.was

\* The row is updated when any attribute changed.
Dirty(t) == FlagWritten(t) \/ t.text

\* The value written: what the object in the session has.
NewFlag(t) == IF t.set = "KEEP" THEN t.was ELSE t.set


\* An UPDATE or DELETE by primary key: it finds the row, nobody locks it, and
\* with snapshot isolation nobody changed it.
Writable(p, b) ==
    /\ b \in Rows \ LockedByOthers(p)
    /\ fuw => b \notin changed[p]

Swept(t, b) == IF b \in t.off THEN "INACTIVE" ELSE banner[b]

\* The table with the rows that t deactivated and the one that it updates.
Updated(t) == [b \in Id |-> IF b = t.id /\ FlagWritten(t) THEN NewFlag(t) ELSE Swept(t, b)]

\* p ends with the table new, having written rows.
End(p, new, rows) ==
    /\ banner' = new
    /\ txn' = [txn EXCEPT ![p] = Idle]
    /\ changed' = [q \in Proc |-> IF q = p \/ txn[q].step = "IDLE" THEN {}
                                  ELSE changed[q] \cup txn[p].off \cup rows]
    /\ UNCHANGED fuw

Ready(p, op) ==
    /\ txn[p].op = op
    /\ txn[p].step = IF Activates(txn[p]) THEN "SWEPT" ELSE "READ"

\* The insert waits for every other transaction that locks the end of the table.
CommitCreate(p) ==
    /\ Ready(p, "CREATE")
    /\ \A q \in Proc \ {p} : txn[q].step # "SWEPT"
    /\ \E n \in Id :
          /\ Used = 1 .. (n - 1)
          /\ End(p, [b \in Id |-> IF b = n THEN "ACTIVE" ELSE Swept(txn[p], b)], {n})

CommitUpdate(p) ==
    LET t == txn[p]
    IN  /\ Ready(p, "UPDATE")
        /\ (Dirty(t) => Writable(p, t.id))
        /\ End(p, Updated(t), IF Dirty(t) THEN {t.id} ELSE {})

CommitDelete(p) ==
    /\ Ready(p, "DELETE")
    /\ Writable(p, txn[p].id)
    /\ End(p, [banner EXCEPT ![txn[p].id] = "DELETED"], {txn[p].id})

\* The session is closed: a conflict, a deadlock, or a failure of the process.
Rollback(p) ==
    /\ txn[p].step # "IDLE"
    /\ txn' = [txn EXCEPT ![p] = Idle]
    /\ changed' = [changed EXCEPT ![p] = {}]
    /\ UNCHANGED <<fuw, banner>>

Handler(p) ==
    \/ CreateBanner(p)
    \/ \E b \in Id, set \in Flag \cup {"KEEP"}, text \in BOOLEAN : UpdateBanner(p, b, set, text)
    \/ \E b \in Id : DeleteBanner(p, b)
    \/ Sweep(p)

Commit(p) == CommitCreate(p) \/ CommitUpdate(p) \/ CommitDelete(p)

Next == \E p \in Proc : Handler(p) \/ Commit(p) \/ Rollback(p)

Spec == Init /\ [][Next]_vars

-----------------------------------------------------------------------------
(* Properties.                                                             *)

TypeOK ==
    /\ fuw \in BOOLEAN
    /\ banner \in [Id -> Flag \cup {"FREE", "DELETED"}]
    /\ txn \in [Proc -> Txn]
    /\ changed \in [Proc -> SUBSET Id]

\* "Deactivate all existing banners - only one active at a time": however many
\* administrators create, activate and edit banners at once, with or without
\* snapshot isolation.
AtMostOneActive == \A b, c \in Active : b = c

\* What a transaction that executed its bulk UPDATE relies on: the rows that it
\* locked stay, it holds every other row, and deactivates every other active one.
SweepHolds ==
    \A p \in Proc :
        LET t == txn[p]
        IN  /\ t.off \subseteq t.locks /\ t.locks \subseteq Rows
            /\ IF t.step = "SWEPT"
               THEN Others(t) \subseteq t.locks /\ Active \ {t.id} \subseteq t.off
               ELSE t.locks = {}

\* What it knows of a banner that was active in its snapshot: any other that is
\* active now has changed since, and so it deactivates none under snapshot
\* isolation.
SnapshotHolds ==
    \A p \in Proc :
        LET t == txn[p]
        IN  t.step # "IDLE" /\ t.op = "UPDATE" /\ t.was = "ACTIVE" =>
               /\ Active \ {t.id} \subseteq changed[p]
               /\ fuw => t.off = {}

\* An open transaction has the banner of its request.
Shaped == \A p \in Proc : txn[p].id = None <=> txn[p].op = "CREATE"

IInv == TypeOK /\ Shaped /\ SweepHolds /\ SnapshotHolds /\ AtMostOneActive

\* The portal loses its banner only to somebody who deactivates or deletes it:
\* with snapshot isolation an activation never deactivates the others for
\* nothing, although it does not write a flag that its snapshot already has.
NeverGoesDark ==
    [][fuw /\ Active # {} /\ Active' = {} =>
         \E p \in Proc : /\ txn[p].step # "IDLE" /\ txn'[p].step = "IDLE"
                         /\ (txn[p].op = "DELETE" \/ txn[p].set = "INACTIVE")]_vars

=============================================================================
