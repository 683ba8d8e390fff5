------------------------ MODULE RoomCapacityProofs ------------------------
(***************************************************************************)
(* Proofs about RoomCapacity: its types, the agreement of the three copies *)
(* of the capacity query, and that a check made night by night is enough   *)
(* for stays that overlap in part.                                         *)
(***************************************************************************)
EXTENDS RoomCapacity, FiniteSetTheorems, TLAPS

-----------------------------------------------------------------------------
(* Giving rooms to stays.                                                  *)

\* Every set of naturals that is not empty has a least element.
LEMMA LeastNat ==
  ASSUME NEW N \in SUBSET Nat, N # {}
  PROVE  \E n \in N : \A m \in N : n <= m
<1>1. PICK n \in N : \A m \in N : <<m, n>> \notin OpToRel(<, Nat)
  BY WFMin, NatLessThanWellFounded
<1>2. \A m \in N : ~(m < n)
  BY <1>1 DEF OpToRel
<1> QED
  BY <1>2

\* A room that none of the stays in others has, when there are fewer of them
\* than rooms.
LEMMA FreeRoom ==
  ASSUME NEW others, IsFiniteSet(others), NEW k \in Nat, Cardinality(others) < k,
         NEW room
  PROVE  \E c \in 1 .. k : \A s \in others : room[s] # c
<1> SUFFICES ASSUME \A c \in 1 .. k : \E s \in others : room[s] = c
             PROVE  FALSE
  OBVIOUS
<1> DEFINE f == [c \in 1 .. k |-> CHOOSE s \in others : room[s] = c]
<1>1. \A c \in 1 .. k : f[c] \in others /\ room[f[c]] = c
  OBVIOUS
<1>2. f \in [1 .. k -> others]
  BY <1>1
<1>3. IsFiniteSet(1 .. k) /\ Cardinality(1 .. k) = k
  BY FS_Interval
<1> HIDE DEF f
<1>4. \E c, d \in 1 .. k : c # d /\ f[c] = f[d]
  BY <1>2, <1>3, FS_PigeonHole
<1> QED
  BY <1>1, <1>4

\* The stays of H that begin at night n at the latest and end after it.
Present(H, from, to, n) == {r \in H : from[r] <= n /\ n < to[r]}

\* Stays of which no night has more than k can be given k rooms so that two that
\* overlap have different ones.  Of the smallest set of stays for which this
\* fails, the one that leaves first meets all it overlaps on its last night.
LEMMA RoomsForAll ==
  ASSUME NEW H, IsFiniteSet(H), NEW from \in [H -> Nat], NEW to \in [H -> Nat],
         \A r \in H : from[r] < to[r],
         NEW k \in Nat,
         \A n \in Nat : Cardinality(Present(H, from, to, n)) <= k
  PROVE  \E room \in [H -> 1 .. k] :
           \A r, s \in H : r # s /\ from[r] < to[s] /\ from[s] < to[r] => room[r] # room[s]
<1> DEFINE Apart(S, room) ==
             \A r, s \in S : r # s /\ from[r] < to[s] /\ from[s] < to[r] => room[r] # room[s]
           Bad == {S \in SUBSET H : ~\E room \in [S -> 1 .. k] : Apart(S, room)}
<1> SUFFICES ASSUME H \in Bad
             PROVE  FALSE
  OBVIOUS
<1>1. PICK S \in Bad : \A T \in Bad : <<T, S>> \notin StrictSubsetOrdering(H)
  <2>1. Bad \subseteq FiniteSubsetsOf(H) /\ Bad # {}
    BY FS_FiniteSubsetsOfFinite
  <2> HIDE DEF Bad
  <2> QED
    BY <2>1, WFMin, FS_StrictSubsetOrderingWellFounded
<1>2. S \subseteq H /\ IsFiniteSet(S)
  BY FS_Subset
<1>3. S # {}
  <2> SUFFICES ASSUME S = {}
               PROVE  FALSE
    OBVIOUS
  <2>1. [x \in S |-> 1] \in [S -> 1 .. k] /\ Apart(S, [x \in S |-> 1])
    OBVIOUS
  <2> QED
    BY <2>1
<1>4. PICK r \in S : \A s \in S : to[r] <= to[s]
  <2> DEFINE N == {to[s] : s \in S}
  <2>1. N \in SUBSET Nat /\ N # {}
    BY <1>2, <1>3
  <2>2. \E n \in N : \A m \in N : n <= m
    BY <2>1, LeastNat
  <2> QED
    BY <2>2
<1> DEFINE T == S \ {r}
           last == to[r] - 1
           here == Present(H, from, to, last)
           others == {s \in T : from[s] < to[r]}
<1>5. PICK room \in [T -> 1 .. k] : Apart(T, room)
  <2>1. <<T, S>> \in StrictSubsetOrdering(H)
    BY <1>2 DEF StrictSubsetOrdering
  <2>2. T \notin Bad
    BY <1>1, <2>1
  <2> QED
    BY <1>2, <2>2
<1>6. IsFiniteSet(others) /\ Cardinality(others) < k
  <2>1. last \in Nat /\ r \in H
    BY <1>2
  <2>2. IsFiniteSet(here) /\ Cardinality(here) <= k
    BY <2>1, FS_Subset DEF Present
  <2>3. \A s \in others : s \in H /\ from[s] \in Nat /\ to[s] \in Nat /\ to[r] \in Nat
                          /\ to[r] <= to[s] /\ from[s] < to[r] /\ s # r
    BY <1>2, <1>4
  <2>4. r \in here
    BY <2>1 DEF Present
  <2>5. others \subseteq here \ {r}
    BY <2>3 DEF Present
  <2> HIDE DEF others, here, last
  <2>6. IsFiniteSet(here \ {r}) /\ Cardinality(here \ {r}) = Cardinality(here) - 1
    BY <2>2, <2>4, FS_RemoveElement
  <2>7. IsFiniteSet(others) /\ Cardinality(others) <= Cardinality(here \ {r})
    BY <2>5, <2>6, FS_Subset
  <2>8. Cardinality(others) \in Nat /\ Cardinality(here) \in Nat
    BY <2>2, <2>7, FS_CardinalityType
  <2> QED
    BY <2>2, <2>6, <2>7, <2>8
<1>7. PICK c \in 1 .. k : \A s \in others : room[s] # c
  <2> HIDE DEF others
  <2> QED
    BY <1>6, FreeRoom
<1> DEFINE new == [s \in S |-> IF s = r THEN c ELSE room[s]]
<1>8. new \in [S -> 1 .. k]
  OBVIOUS
<1>9. Apart(S, new)
  <2> SUFFICES ASSUME NEW s \in S, NEW t \in S, s # t, from[s] < to[t], from[t] < to[s]
               PROVE  new[s] # new[t]
    OBVIOUS
  <2>1. CASE s # r /\ t # r
    <3>1. s \in T /\ t \in T
      BY <2>1
    <3>2. room[s] # room[t]
      BY <1>5, <3>1
    <3> QED
      BY <2>1, <3>2
  <2>2. CASE s = r
    <3>1. t \in others
      BY <2>2
    <3> QED
      BY <1>7, <2>2, <3>1
  <2>3. CASE t = r
    <3>1. s \in others
      BY <2>3
    <3> QED
      BY <1>7, <2>3, <3>1
  <2> QED
    BY <2>1, <2>2, <2>3
<1> QED
  BY <1>8, <1>9

-----------------------------------------------------------------------------
(* Types.                                                                  *)

\* A stay that is booked is one that the table can hold.
LEMMA InsertTypes ==
  ASSUME TypeOK, NEW r \in Res, NEW g \in Group, NEW from \in Night,
         NEW to \in Night \cup {LastNight + 1}, NEW status \in {"PENDING", "APPROVED"},
         from < to, Insert(r, g, from, to, status)
  PROVE  TypeOK'
<1> DEFINE row == [status |-> status, group |-> g, from |-> from, to |-> to]
<1>1. row \in Stay /\ row.from < row.to
  BY DEF Stay
<1>2. stays' = [stays EXCEPT ![r] = row] /\ UNCHANGED <<total, blocks>>
  BY DEF Insert
<1> HIDE DEF row
<1>3. stays' \in [Res -> Stay \cup {NoStay}]
  BY <1>1, <1>2 DEF TypeOK
<1>4. \A q \in Res : stays'[q] # NoStay => stays'[q].from < stays'[q].to
  BY <1>1, <1>2 DEF TypeOK
<1> QED
  BY <1>2, <1>3, <1>4 DEF TypeOK

\* A decision keeps the stay as it was, or drops it.
LEMMA DecideTypes ==
  ASSUME TypeOK, NEW r \in Res, Decide(r)
  PROVE  TypeOK'
<1>1. stays[r] \in Stay /\ stays[r] # NoStay
  BY DEF TypeOK, Decide, NoStay
<1> DEFINE kept == [stays[r] EXCEPT !.status = "APPROVED"]
<1>2. kept \in Stay /\ kept.from < kept.to
  BY <1>1 DEF TypeOK, Stay
<1>3. PICK s \in {kept, NoStay} : stays' = [stays EXCEPT ![r] = s]
  BY DEF Decide
<1> HIDE DEF kept
<1>4. stays' \in [Res -> Stay \cup {NoStay}]
  BY <1>2, <1>3 DEF TypeOK
<1>5. \A q \in Res : stays'[q] # NoStay => stays'[q].from < stays'[q].to
  BY <1>2, <1>3 DEF TypeOK
<1> QED
  BY <1>4, <1>5 DEF TypeOK, Decide

\* The upsert leaves one row of a night, or two of one without a room type.
LEMMA SetAvailabilityTypes ==
  ASSUME TypeOK, NEW t \in RoomType \cup {AnyType}, NEW nights \in SUBSET Night,
         NEW twice \in SUBSET nights, NEW count \in Counts,
         SetAvailability(t, nights, twice, count)
  PROVE  TypeOK'
<1> DEFINE row(n) == IF n \in nights THEN Upserted(blocks[t][n], count, n \in twice)
                     ELSE blocks[t][n]
<1>1. blocks' = [blocks EXCEPT ![t] = [n \in Night |-> row(n)]] /\ UNCHANGED <<total, stays>>
  BY DEF SetAvailability
<1>2. ASSUME NEW n \in Night
      PROVE  row(n) \in Rows /\ (t \in RoomType => row(n).rows <= 1)
  <2>1. blocks[t][n] \in Rows /\ (t \in RoomType => blocks[t][n].rows <= 1)
    BY DEF TypeOK
  <2>2. CASE n \notin nights
    BY <2>1, <2>2
  <2>3. CASE n \in nights
    <3>1. Upserted(blocks[t][n], count, n \in twice) \in Rows
      BY DEF Upserted, Rows
    <3>2. ASSUME t \in RoomType
          PROVE  ~(blocks[t][n].rows = 0 /\ n \in twice)
      <4>1. ~KeyClash(t, n, twice)
        BY <2>3 DEF SetAvailability
      <4> QED
        BY <3>2, <4>1, ConstantsAssumption DEF KeyClash
    <3> QED
      BY <2>3, <3>1, <3>2 DEF Upserted
  <2> QED
    BY <2>2, <2>3
<1> HIDE DEF row
<1>3. blocks' \in [RoomType \cup {AnyType} -> [Night -> Rows]]
  BY <1>1, <1>2 DEF TypeOK
<1>4. \A u \in RoomType, n \in Night : blocks'[u][n].rows <= 1
  BY <1>1, <1>2 DEF TypeOK
<1> QED
  BY <1>1, <1>3, <1>4 DEF TypeOK

LEMMA InitTypes == Init => TypeOK
<1> SUFFICES ASSUME Init
             PROVE  TypeOK
  OBVIOUS
<1>1. NoRows \in Rows /\ NoRows.rows <= 1
  BY DEF NoRows, Rows
<1> HIDE DEF NoRows, Rows
<1> QED
  BY <1>1 DEF Init, TypeOK

\* What a booking through the check or without it passes on to Insert.
LEMMA Bookings ==
  ASSUME NEW r \in Res, NEW g \in Group, NEW from \in Night, NEW to \in 2 .. LastNight + 1,
         \/ CreateReservation(r, g, from, to)
         \/ \E s \in {"PENDING", "APPROVED"} : AdminCreateReservation(r, g, from, to, s)
         \/ ApprovePlanRequest(r, g, from, to)
  PROVE  /\ to \in Night \cup {LastNight + 1}
         /\ from < to
         /\ \E s \in {"PENDING", "APPROVED"} : Insert(r, g, from, to, s)
<1>1. to \in Night \cup {LastNight + 1}
  BY ConstantsAssumption DEF Night
<1> QED
  BY <1>1 DEF CreateReservation, AdminCreateReservation, ApprovePlanRequest

LEMMA NextTypes == TypeOK /\ [Next]_vars => TypeOK'
<1> SUFFICES ASSUME TypeOK, [Next]_vars
             PROVE  TypeOK'
  OBVIOUS
<1>1. CASE \E r \in Res, g \in Group, from \in Night, to \in 2 .. LastNight + 1 :
              \/ CreateReservation(r, g, from, to)
              \/ \E s \in {"PENDING", "APPROVED"} : AdminCreateReservation(r, g, from, to, s)
              \/ ApprovePlanRequest(r, g, from, to)
  BY <1>1, Bookings, InsertTypes
<1>2. CASE \E r \in Res : Decide(r)
  BY <1>2, DecideTypes
<1>3. CASE \E groups \in SUBSET Group \ {{}}, rooms \in [Group -> Totals] :
              SetRooms(groups, rooms)
  BY <1>3 DEF SetRooms, TypeOK
<1>4. CASE \E t \in RoomType \cup {AnyType}, nights \in SUBSET BlockNight \ {{}},
              count \in Counts :
                \E twice \in SUBSET nights : SetAvailability(t, nights, twice, count)
  BY <1>4, SetAvailabilityTypes, ConstantsAssumption
<1>5. CASE UNCHANGED vars
  BY <1>5 DEF vars, TypeOK
<1> QED
  BY <1>1, <1>2, <1>3, <1>4, <1>5 DEF Next

\* The rooms, the blocked dates and the stays keep their types: a room type has
\* one row of place_availability per date at most, whatever dates a request
\* names twice, and every stay has a night.
THEOREM TypeCorrect == Spec => []TypeOK
<1> QED
  BY InitTypes, NextTypes, PTL DEF Spec

-----------------------------------------------------------------------------
(* The copies of the capacity query.                                       *)

\* What the query adds up are numbers.
LEMMA Counted ==
  ASSUME TypeOK, NEW g \in Group, NEW n \in Night
  PROVE  /\ Blocked(g[1], n) \in Nat
         /\ IsFiniteSet(Held(g)) /\ Reserved(g, n) \in Nat
         /\ total[g] \in Int /\ total[g] >= -1 /\ (total[g] # NoRooms => total[g] \in Nat)
         /\ Available(g, n) \in Int /\ Available(g, n) <= total[g]
<1>1. g[1] \in RoomType
  BY DEF RoomType
<1>2. \A t \in RoomType \cup {AnyType} : SumOf(blocks[t][n]) \in Nat
  BY ConstantsAssumption DEF TypeOK, Rows, SumOf
<1>3. Blocked(g[1], n) \in Nat
  BY <1>1, <1>2 DEF Blocked
<1>4. IsFiniteSet(Held(g))
  BY ConstantsAssumption, FS_Subset DEF Held
<1>5. Reserved(g, n) \in Nat
  BY <1>4, FS_Subset, FS_CardinalityType DEF Reserved
<1>6. total[g] \in Totals \cup {NoRooms}
  BY DEF TypeOK
<1>7. total[g] \in Int /\ total[g] >= -1 /\ (total[g] # NoRooms => total[g] \in Nat)
  BY <1>6, ConstantsAssumption DEF NoRooms
<1> QED
  BY <1>3, <1>4, <1>5, <1>7 DEF Available

\* The groups of one type and kind are one group.
LEMMA OneGroup ==
  ASSUME NEW g \in Group, NEW h \in Group, h[1] = g[1], h[2] = g[2]
  PROVE  h = g
BY ConstantsAssumption

LEMMA Agreement == TypeOK => ListsAgree
<1> SUFFICES ASSUME TypeOK, NEW g \in Group, NEW from \in Night, NEW to \in 2 .. LastNight + 1,
                    from < to
             PROVE  LET nights == from .. to - 1
                    IN  /\ CanBook(g, from, to) <=>
                               nights \cap UnavailableDates({g[1]}, g[2]) = {}
                        /\ CanBook(g, from, to) <=> \A n \in nights : CalendarCount(g, n) > 0
                        /\ nights \cap UnavailableDates(RoomType, g[2]) # {}
                               => ~CanBook(g, from, to)
  BY DEF ListsAgree
<1> DEFINE nights == from .. to - 1
<1>1. nights \subseteq Night /\ from \in nights
  BY ConstantsAssumption DEF Night
<1>2. \A n \in nights : /\ total[g] \in Int
                        /\ Available(g, n) \in Int /\ Available(g, n) <= total[g]
  BY <1>1, Counted
<1>3. CanBook(g, from, to) <=> \A n \in nights : Available(g, n) > 0
  BY <1>1, <1>2 DEF CanBook
<1>4. \A n \in nights : CalendarCount(g, n) > 0 <=> Available(g, n) > 0
  BY <1>2 DEF CalendarCount
<1>5. \A n \in nights : n \in UnavailableDates({g[1]}, g[2]) <=> ~(Available(g, n) > 0)
  <2> SUFFICES ASSUME NEW n \in nights
               PROVE  n \in UnavailableDates({g[1]}, g[2]) <=> ~(Available(g, n) > 0)
    OBVIOUS
  <2>1. n \in UnavailableDates({g[1]}, g[2]) <=> (total[g] # NoRooms => Available(g, n) <= 0)
    <3> HIDE DEF nights
    <3> QED
      BY <1>1, OneGroup DEF UnavailableDates
  <2>2. total[g] = NoRooms => Available(g, n) <= 0
    BY <1>2 DEF NoRooms
  <2> QED
    BY <1>2, <2>1, <2>2
<1>6. ASSUME NEW n \in nights, n \in UnavailableDates(RoomType, g[2])
      PROVE  ~(Available(g, n) > 0)
  <2>1. g[1] \in RoomType
    BY DEF RoomType
  <2>2. total[g] # NoRooms => Available(g, n) <= 0
    BY <1>6, <2>1 DEF UnavailableDates
  <2>3. total[g] = NoRooms => Available(g, n) <= 0
    BY <1>2 DEF NoRooms
  <2> QED
    BY <1>2, <2>2, <2>3
<1> HIDE DEF nights
<1>7. /\ CanBook(g, from, to) <=> nights \cap UnavailableDates({g[1]}, g[2]) = {}
      /\ CanBook(g, from, to) <=> \A n \in nights : CalendarCount(g, n) > 0
      /\ nights \cap UnavailableDates(RoomType, g[2]) # {} => ~CanBook(g, from, to)
  BY <1>3, <1>4, <1>5, <1>6
<1> QED
  BY <1>7 DEF nights

\* The check of a booking, the list of unavailable dates and the calendar agree,
\* for any groups, nights and numbers of rooms.
THEOREM ListsCorrect == Spec => []ListsAgree
<1> QED
  BY TypeCorrect, Agreement, PTL

-----------------------------------------------------------------------------
(* Counting night by night is enough.                                      *)

\* Typed stays of which no night has more than k can be given k rooms, so that
\* no two share one on any night.
LEMMA NightlyRooms ==
  ASSUME NEW H, IsFiniteSet(H), NEW st, \A r \in H : st[r] \in Stay /\ st[r].from < st[r].to,
         NEW k \in Nat,
         \A n \in Night : Cardinality({r \in H : n \in st[r].from .. st[r].to - 1}) <= k
  PROVE  \E room \in [H -> 1 .. k] : \A n \in Night :
           \A r, s \in {q \in H : n \in st[q].from .. st[q].to - 1} : r # s => room[r] # room[s]
<1> DEFINE from == [r \in H |-> st[r].from]
           to == [r \in H |-> st[r].to]
           Here(n) == {r \in H : n \in st[r].from .. st[r].to - 1}
<1>1. \A r \in H : /\ st[r].from \in Night /\ st[r].from \in Nat
                   /\ st[r].to \in Nat /\ st[r].to <= LastNight + 1 /\ st[r].from < st[r].to
  BY ConstantsAssumption DEF Stay, Night
<1>2. from \in [H -> Nat] /\ to \in [H -> Nat] /\ \A r \in H : from[r] < to[r]
  BY <1>1
<1>3. ASSUME NEW n \in Nat
      PROVE  Cardinality(Present(H, from, to, n)) <= k
  <2>1. Present(H, from, to, n) = Here(n)
    BY <1>1 DEF Present
  <2>2. CASE n \in Night
    BY <2>1, <2>2
  <2>3. CASE n \notin Night
    <3>1. Here(n) = {}
      BY <1>1, <2>3, ConstantsAssumption DEF Night
    <3>2. Cardinality(Here(n)) = 0
      BY <3>1, FS_EmptySet
    <3> QED
      BY <2>1, <3>2
  <2> QED
    BY <2>2, <2>3
<1> HIDE DEF from, to
<1>4. \A n \in Nat : Cardinality(Present(H, from, to, n)) <= k
  BY <1>3
<1>5. PICK room \in [H -> 1 .. k] :
        \A r, s \in H : r # s /\ from[r] < to[s] /\ from[s] < to[r] => room[r] # room[s]
  BY ONLY IsFiniteSet(H), k \in Nat, <1>2, <1>4, RoomsForAll, SMTT(30)
<1>6. ASSUME NEW n \in Night, NEW r \in Here(n), NEW s \in Here(n), r # s
      PROVE  room[r] # room[s]
  <2>1. n \in Nat
    BY DEF Night
  <2>2. from[r] < to[s] /\ from[s] < to[r]
    BY <1>1, <2>1 DEF from, to
  <2> QED
    BY <1>5, <1>6, <2>2
<1> QED
  BY <1>5, <1>6

\* The stays of a group on a night, and the nights on which they fit.
Here(g, n) == {r \in Held(g) : n \in stays[r].from .. stays[r].to - 1}

FitsNightly(g) ==
  \A n \in Night : Here(g, n) # {} => Cardinality(Here(g, n)) + Blocked(g[1], n) <= total[g]

\* What Housed says of single rooms follows from the numbers of every night.
LEMMA HousedByCount ==
  ASSUME TypeOK, NEW g \in Group
  PROVE  Housed(g) <=> FitsNightly(g)
<1>1. Housed(g) => FitsNightly(g)
  BY DEF Housed, FitsNightly, Here
<1>2. ASSUME FitsNightly(g)
      PROVE  Housed(g)
  <2> DEFINE H == Held(g)
  <2>1. IsFiniteSet(H) /\ \A r \in H : stays[r] \in Stay /\ stays[r].from < stays[r].to
    BY ConstantsAssumption, FS_Subset DEF TypeOK, Held
  <2>2. CASE H = {}
    <3>1. [r \in H |-> 1] \in [H -> 1 .. total[g]]
      BY <2>2
    <3>2. \A n \in Night : {r \in H : n \in stays[r].from .. stays[r].to - 1} = {}
      BY <2>2
    <3> HIDE DEF H
    <3>3. \E room \in [H -> 1 .. total[g]] : \A n \in Night :
            LET here == {r \in H : n \in stays[r].from .. stays[r].to - 1}
            IN  here # {} => /\ \A r, s \in here : r # s => room[r] # room[s]
                             /\ Cardinality(here) + Blocked(g[1], n) <= total[g]
      BY <3>1, <3>2
    <3> QED
      BY <3>3 DEF Housed, H
  <2>3. CASE H # {}
    <3>1. ASSUME NEW n \in Night
          PROVE  /\ IsFiniteSet(Here(g, n)) /\ Cardinality(Here(g, n)) \in Nat
                 /\ Blocked(g[1], n) \in Nat /\ total[g] \in Int
                 /\ Here(g, n) = {} => Cardinality(Here(g, n)) = 0
      BY <2>1, Counted, FS_Subset, FS_CardinalityType, FS_EmptySet DEF Here
    <3>2. total[g] \in Nat
      <4>1. PICK r \in H : TRUE
        BY <2>3
      <4>2. stays[r].from \in Night /\ r \in Here(g, stays[r].from)
        BY <2>1, ConstantsAssumption DEF Here, Stay, Night
      <4> QED
        BY <1>2, <3>1, <4>2 DEF FitsNightly
    <3>3. \A n \in Night : Cardinality(Here(g, n)) <= total[g]
      BY <1>2, <3>1, <3>2 DEF FitsNightly
    <3>4. PICK room \in [H -> 1 .. total[g]] : \A n \in Night :
            \A r, s \in Here(g, n) : r # s => room[r] # room[s]
      BY <2>1, <3>2, <3>3, NightlyRooms DEF Here
    <3> QED
      BY <1>2, <3>4 DEF Housed, FitsNightly, Here
  <2> QED
    BY <2>2, <2>3
<1> QED
  BY <1>1, <1>2

\* A booking finds a room free on each of its nights, and leaves every other
\* night as it is.
LEMMA BookingFits ==
  ASSUME TypeOK, TypeOK', NEW q \in Res, NEW g \in Group, Books(q), FitsNightly(g)
  PROVE  FitsNightly(g)'
<1> DEFINE s == stays'[q]
<1>1. /\ stays[q] = NoStay /\ s # NoStay
      /\ \E status : Insert(q, s.group, s.from, s.to, status)
      /\ CanBook(s.group, s.from, s.to)
  BY DEF Books, CreateReservation, AdminCreateReservation
<1>2. s \in Stay
  BY <1>1 DEF TypeOK
<1>3. /\ \A r \in Res \ {q} : stays'[r] = stays[r]
      /\ total' = total /\ blocks' = blocks
  BY <1>1 DEF Insert, TypeOK
<1> HIDE DEF s
<1>4. \A n : Blocked(g[1], n)' = Blocked(g[1], n)
  BY <1>3 DEF Blocked
<1> SUFFICES ASSUME NEW n \in Night, Here(g, n)' # {}
             PROVE  Cardinality(Here(g, n)') + Blocked(g[1], n) <= total[g]
  BY <1>3, <1>4 DEF FitsNightly
<1>5. q \notin Held(g)
  BY <1>1 DEF Held
<1>6. CASE s.group = g /\ n \in s.from .. s.to - 1
  <2>1. Here(g, n)' = Here(g, n) \cup {q}
    BY <1>1, <1>3, <1>5, <1>6 DEF Here, Held, s
  <2>2. Here(g, n) = {r \in Held(g) : Covers(stays[r], n)}
    <3>1. \A r \in Held(g) : stays[r] \in Stay
      BY DEF Held, TypeOK
    <3>2. ASSUME NEW r \in Held(g)
          PROVE  n \in stays[r].from .. stays[r].to - 1 <=> Covers(stays[r], n)
      BY <3>1, ConstantsAssumption DEF Stay, Night, Covers
    <3> QED
      BY <3>2 DEF Here
  <2>3. Available(g, n) > 0
    BY <1>1, <1>6 DEF CanBook
  <2>4. total[g] - Blocked(g[1], n) - Cardinality(Here(g, n)) > 0
    BY <2>2, <2>3 DEF Available, Reserved
  <2>5. IsFiniteSet(Here(g, n)) /\ q \notin Here(g, n)
    BY <1>5, Counted, FS_Subset DEF Here
  <2>6. Cardinality(Here(g, n)') = Cardinality(Here(g, n)) + 1
    BY <2>1, <2>5, FS_AddElement
  <2>7. /\ Cardinality(Here(g, n)) \in Nat /\ Blocked(g[1], n) \in Nat /\ total[g] \in Int
    BY <2>5, Counted, FS_CardinalityType
  <2> QED
    BY <2>4, <2>6, <2>7
<1>7. CASE ~(s.group = g /\ n \in s.from .. s.to - 1)
  <2>1. Here(g, n)' = Here(g, n)
    BY <1>1, <1>3, <1>5, <1>7 DEF Here, Held, s
  <2> QED
    BY <2>1 DEF FitsNightly
<1> QED
  BY <1>6, <1>7

\* A stay that passes the check takes from no other the room it could be given:
\* counting night by night is enough, for any number of stays, groups, nights
\* and rooms, and whatever was set or blocked before.
THEOREM CheckSuffices == Spec => BookingKeepsHousing
<1>1. ASSUME TypeOK, TypeOK'
      PROVE  [\A r \in Res, g \in Group : Books(r) /\ Housed(g) => Housed(g)']_stays
  <2> SUFFICES ASSUME NEW r \in Res, NEW g \in Group, Books(r), Housed(g)
               PROVE  Housed(g)'
    OBVIOUS
  <2>1. FitsNightly(g)'
    BY <1>1, HousedByCount, BookingFits
  <2>2. (TypeOK /\ FitsNightly(g) => Housed(g))'
    BY HousedByCount, PTL
  <2> QED
    BY <1>1, <2>1, <2>2
<1> QED
  BY <1>1, TypeCorrect, PTL DEF BookingKeepsHousing

=============================================================================
