--------------------------- MODULE MCReservations ---------------------------
(***************************************************************************)
(* Instances of Reservations for TLC.                                      *)
(***************************************************************************)
EXTENDS Reservations, TLC

CONSTANTS u1, u2, e1

\* The employee u1 holds every eligibility.
MCEligOwner == [e \in Elig |-> u1]

\* Stays, request threads, and users other than u1 are interchangeable.
Symmetry == Permutations(Stay) \cup Permutations(Worker)

=============================================================================
