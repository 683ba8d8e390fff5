--------------------------- MODULE MCRoomCapacity ---------------------------
(***************************************************************************)
(* Instances of RoomCapacity for TLC.                                      *)
(***************************************************************************)
EXTENDS RoomCapacity, TLC

CONSTANTS t1, t2

\* A type with ordinary and VIP rooms.
TwoGroups == {<<t1, FALSE>>, <<t1, TRUE>>}

\* Reservations that hold rooms are interchangeable.
Symmetry == Permutations(Res)

=============================================================================
