------------------------ MODULE ReservationLifecycle ------------------------
(***************************************************************************)
(* What the reservation service promises, with no transactions in sight: a *)
(* reservation is opened once, a pending one is decided once and for all,  *)
(* and the yearly usage counter of its owner moves exactly when a pending  *)
(* reservation of that owner is approved.                                  *)
(***************************************************************************)
EXTENDS Integers, FiniteSets

CONSTANTS
    Res,        \* reservation ids
    User,       \* the employees who own them
    Year,       \* the years the usage counters are kept for
    NoUser      \* the owner of an id that is not in use yet

VARIABLES
    status,     \* status of every reservation id, "NONE" before it is issued
    owner,      \* its owner
    approvals   \* usage counter of every user and year

vars == <<status, owner, approvals>>

Final == {"APPROVED", "REJECTED", "CANCELLED", "EXPIRED"}

Init ==
    /\ status = [r \in Res |-> "NONE"]
    /\ owner = [r \in Res |-> NoUser]
    /\ approvals = [u \in User |-> [y \in Year |-> 0]]

\* A new reservation, waiting for a decision or decided by the administrator
\* who entered it.  The usage counters do not move.
Open(r) ==
    /\ status[r] = "NONE"
    /\ \E s \in Final \cup {"PENDING"} : status' = [status EXCEPT ![r] = s]
    /\ \E u \in User : owner' = [owner EXCEPT ![r] = u]
    /\ UNCHANGED approvals

\* The reservations of user u that this step approves.
Approved(u) ==
    {r \in Res : status[r] = "PENDING" /\ status'[r] = "APPROVED" /\ owner[r] = u}

\* One decision, or the batch of decisions of one run of the expiry job: only
\* pending reservations change and each approval is counted once.
Decide(y) ==
    /\ status' \in [Res -> Final \cup {"NONE", "PENDING"}]
    /\ \A r \in Res : status'[r] # status[r] =>
                         status[r] = "PENDING" /\ status'[r] \in Final
    /\ approvals' = [u \in User |->
                       [approvals[u] EXCEPT ![y] = @ + Cardinality(Approved(u))]]
    /\ UNCHANGED owner

Next ==
    \/ \E r \in Res : Open(r)
    \/ \E y \in Year : Decide(y)

Spec == Init /\ [][Next]_vars

=============================================================================
