-------------------------- MODULE ListingsProofs --------------------------
(***************************************************************************)
(* Proofs about Listings: the types, that a walk misses no more rows than  *)
(* left the list meanwhile, and that a quiet walk shows the list exactly.  *)
(***************************************************************************)
EXTENDS Listings, SequenceTheorems, FiniteSetTheorems, TLAPS

-----------------------------------------------------------------------------
(* Arithmetic of pages.                                                    *)

LEMMA TimesMono ==
  ASSUME NEW a \in Nat, NEW b \in Nat, NEW c \in Nat, a <= b
  PROVE  a * c <= b * c
OBVIOUS

\* The page that begins at offset (page - 1) * size ends at page * size.
LEMMA NextOffset ==
  ASSUME NEW page \in Nat, NEW size \in Nat
  PROVE  /\ page * size \in Nat
         /\ (page + 1) * size = page * size + size
OBVIOUS

\* The pages before the last one are full, and the last one reaches the end.
LEMMA PagesCover ==
  ASSUME NEW total \in Nat, NEW size \in Nat \ {0}, NEW page \in Nat
  PROVE  /\ TotalPages(total, size) \in Nat
         /\ page >= TotalPages(total, size) => page * size >= total
         /\ page < TotalPages(total, size) => page * size < total
<1> DEFINE d == (total + size - 1) \div size
<1>1. d \in Nat /\ d * size <= total + size - 1 /\ total + size - 1 < (d + 1) * size
  OBVIOUS
<1>2. TotalPages(total, size) = d
  BY DEF TotalPages
<1> HIDE DEF d
<1>3. (d + 1) * size = d * size + size /\ d * size \in Nat /\ page * size \in Nat
  BY <1>1
<1>4. ASSUME page >= d
      PROVE  page * size >= total
  <2>1. d * size <= page * size
    BY <1>1, <1>4, TimesMono
  <2> QED
    BY <1>1, <1>3, <2>1
<1>5. ASSUME page < d
      PROVE  page * size < total
  <2>1. (page + 1) * size <= d * size
    BY <1>1, <1>5, TimesMono
  <2> QED
    BY <1>1, <1>3, <2>1, NextOffset
<1> QED
  BY <1>1, <1>2, <1>4, <1>5

-----------------------------------------------------------------------------
(* Orders.                                                                 *)

\* What the table holds, and what a query in a strict order sorts by.
LEMMA QueryFacts ==
  ASSUME TypeOK, NEW q \in Query
  PROVE  /\ Len(rows) \in Nat /\ DOMAIN rows = 1 .. Len(rows)
         /\ Matching(q) \subseteq Visible /\ Visible \subseteq DOMAIN rows
         /\ IsFiniteSet(Visible) /\ IsFiniteSet(Matching(q))
         /\ q.size \in Nat \ {0}
         /\ q.asc \in BOOLEAN
         /\ q.column # "status" => \A i \in DOMAIN rows : SortKey(q, i) \in Int
<1>1. Len(rows) \in Nat /\ DOMAIN rows = 1 .. Len(rows)
  BY LenProperties DEF TypeOK
<1>2. Matching(q) \subseteq Visible /\ Visible \subseteq DOMAIN rows
  BY DEF Matching, Visible
<1>3. IsFiniteSet(DOMAIN rows)
  BY <1>1, FS_Interval
<1>4. IsFiniteSet(Visible) /\ IsFiniteSet(Matching(q))
  BY <1>2, <1>3, FS_Subset
<1>5. q.size \in Nat \ {0} /\ q.asc \in BOOLEAN /\ q.column \in {"id", "created_at", "status"}
  <2>1. q.column \in Column /\ q.asc \in BOOLEAN /\ q.size \in PageSize
    BY DEF Query
  <2>2. \A n \in PageSize : n \in Nat \ {0}
    BY BoundAssumption
  <2> QED
    BY <2>1, <2>2, BoundAssumption
<1>6. ASSUME q.column # "status", NEW i \in DOMAIN rows
      PROVE  SortKey(q, i) \in Int
  <2>1. i \in Int /\ rows[i].created \in Int
    <3>1. rows[i] \in [created : 0 .. MaxTime, status : Status]
      BY <1>1, ElementOfSeq DEF TypeOK
    <3>2. rows[i].created \in 0 .. MaxTime
      BY <3>1
    <3> QED
      BY <1>1, <3>2, BoundAssumption
  <2> QED
    BY <1>5, <1>6, <2>1 DEF SortKey
<1> QED
  BY <1>1, <1>2, <1>4, <1>5, <1>6

\* Row i comes before row j in the order of the query.
Precedes(q, i, j) ==
  IF q.asc THEN SortKey(q, i) < SortKey(q, j) ELSE SortKey(q, i) > SortKey(q, j)

\* A strict order is one on the rows that can be seen.
LEMMA PrecedesOrder ==
  ASSUME TypeOK, NEW q \in Query, StrictOrder(q)
  PROVE  /\ \A i \in Visible : ~Precedes(q, i, i)
         /\ \A i, j, k \in Visible : Precedes(q, i, j) /\ Precedes(q, j, k) => Precedes(q, i, k)
         /\ \A i, j \in Visible : i # j => Precedes(q, i, j) \/ Precedes(q, j, i)
<1>1. \A i \in Visible : SortKey(q, i) \in Int
  BY QueryFacts DEF StrictOrder
<1>2. \A i, j \in Visible : SortKey(q, i) = SortKey(q, j) => i = j
  BY DEF StrictOrder
<1> QED
  BY <1>1, <1>2 DEF Precedes

LEMMA AheadPrecedes ==
  ASSUME NEW q, NEW i
  PROVE  Ahead(q, i) = {j \in Matching(q) : Precedes(q, j, i)}
BY DEF Ahead, Precedes

\* An order lists every matching row once, in the order of the query.
LEMMA OrderFacts ==
  ASSUME TypeOK, NEW q \in Query, StrictOrder(q), NEW s \in Orders(q)
  PROVE  /\ s \in Seq(Matching(q)) /\ Len(s) \in Nat /\ DOMAIN s = 1 .. Len(s)
         /\ \A n \in 1 .. Len(s) : s[n] \in Matching(q)
         /\ \A i \in Matching(q) : \E n \in 1 .. Len(s) : s[n] = i
         /\ \A m, n \in 1 .. Len(s) : Precedes(q, s[m], s[n]) <=> m < n
<1> DEFINE M == Matching(q)
           D == 1 .. Cardinality(M)
<1>1. IsFiniteSet(M) /\ Cardinality(M) \in Nat /\ M \subseteq Visible
  BY QueryFacts, FS_CardinalityType
<1>2. s \in [D -> M] /\ \A i, j \in D : i # j => s[i] # s[j]
  BY DEF Orders, SetToSeqs
<1>3. \A m, n \in D : m < n => IF q.asc THEN SortKey(q, s[m]) <= SortKey(q, s[n])
                               ELSE SortKey(q, s[m]) >= SortKey(q, s[n])
  BY <1>2 DEF Orders
<1> HIDE DEF M
<1>4. s \in Seq(M) /\ Len(s) = Cardinality(M) /\ DOMAIN s = D
  BY <1>1, <1>2, SeqDef
<1>5. \A i \in M : \E n \in D : s[n] = i
  <2>1. s \in Injection(D, M)
    BY <1>2 DEF Injection, IsInjective
  <2>2. IsFiniteSet(D) /\ Cardinality(D) = Cardinality(M)
    BY <1>1, FS_Interval
  <2>3. s \in Surjection(D, M)
    BY <1>1, <2>1, <2>2, FS_Injection
  <2> QED
    BY <2>3 DEF Surjection
<1>6. ASSUME NEW m \in D, NEW n \in D, m < n
      PROVE  Precedes(q, s[m], s[n])
  <2>1. s[m] \in Visible /\ s[n] \in Visible /\ s[m] # s[n]
    BY <1>1, <1>2, <1>6
  <2>2. /\ SortKey(q, s[m]) \in Int /\ SortKey(q, s[n]) \in Int
        /\ SortKey(q, s[m]) # SortKey(q, s[n])
    BY <2>1, QueryFacts DEF StrictOrder
  <2> QED
    BY <1>3, <1>6, <2>2 DEF Precedes
<1>7. ASSUME NEW m \in D, NEW n \in D, Precedes(q, s[m], s[n])
      PROVE  m < n
  <2>1. s[m] \in Visible /\ s[n] \in Visible
    BY <1>1, <1>2
  <2>2. ~(n < m) /\ m # n
    BY <1>6, <1>7, <2>1, PrecedesOrder
  <2> QED
    BY <1>1, <2>2
<1> QED
  BY <1>1, <1>2, <1>4, <1>5, <1>6, <1>7 DEF M

\* The n-th row of an order has n - 1 rows ahead of it.
LEMMA RankOf ==
  ASSUME TypeOK, NEW q \in Query, StrictOrder(q), NEW s \in Orders(q), NEW n \in 1 .. Len(s)
  PROVE  Cardinality(Ahead(q, s[n])) = n - 1
<1> DEFINE D == 1 .. n - 1
           f == [m \in D |-> s[m]]
           A == Ahead(q, s[n])
<1>1. A = {i \in Matching(q) : Precedes(q, i, s[n])}
  BY AheadPrecedes
<1>2. \A m \in D : m \in 1 .. Len(s) /\ f[m] = s[m]
  BY OrderFacts
<1>3. \A m \in D : f[m] \in A
  BY <1>1, <1>2, OrderFacts
<1>4. \A i \in A : \E m \in D : f[m] = i
  <2> SUFFICES ASSUME NEW i \in A
               PROVE  \E m \in D : f[m] = i
    OBVIOUS
  <2>1. PICK m \in 1 .. Len(s) : s[m] = i
    BY <1>1, OrderFacts
  <2>2. m < n
    BY <1>1, <2>1, OrderFacts
  <2> QED
    BY <2>1, <2>2, OrderFacts
<1>5. \A l, m \in D : l # m => f[l] # f[m]
  <2> SUFFICES ASSUME NEW l \in D, NEW m \in D, f[l] = f[m], l # m
               PROVE  FALSE
    OBVIOUS
  <2>1. Precedes(q, s[l], s[m]) \/ Precedes(q, s[m], s[l])
    BY <1>2, OrderFacts
  <2>2. ~Precedes(q, s[l], s[l])
    BY <1>2, OrderFacts
  <2> QED
    BY <1>2, <2>1, <2>2
<1> HIDE DEF A
<1>6. f \in [D -> A]
  BY <1>3
<1> HIDE DEF f
<1>7. f \in Bijection(D, A)
  BY <1>4, <1>5, <1>6 DEF Bijection, Injection, Surjection, IsInjective
<1>8. ExistsBijection(D, A)
  BY <1>7 DEF ExistsBijection
<1>9. n - 1 \in Nat
  BY OrderFacts
<1> QED
  BY <1>8, <1>9, FS_CountingElements DEF A

\* There is one strict order only.
LEMMA OneOrder ==
  ASSUME TypeOK, NEW q \in Query, StrictOrder(q), NEW s \in Orders(q), NEW t \in Orders(q)
  PROVE  s = t
<1>1. ASSUME NEW u \in Orders(q), NEW v \in Orders(q), NEW n \in 1 .. Len(u)
      PROVE  n \in 1 .. Len(v) /\ u[n] = v[n]
  <2>1. PICK m \in 1 .. Len(v) : v[m] = u[n]
    BY OrderFacts
  <2>2. n - 1 = m - 1
    BY <2>1, RankOf
  <2> QED
    BY <2>1, <2>2, OrderFacts
<1>2. Len(s) \in Nat /\ Len(t) \in Nat /\ s \in Seq(Matching(q)) /\ t \in Seq(Matching(q))
  BY OrderFacts
<1>3. Len(s) <= Len(t)
  BY <1>1, <1>2
<1>4. Len(t) <= Len(s)
  BY <1>1, <1>2
<1>5. \A n \in 1 .. Len(s) : s[n] = t[n]
  BY <1>1
<1> QED
  BY <1>2, <1>3, <1>4, <1>5, SeqEqual

-----------------------------------------------------------------------------
(* Pages.                                                                  *)

\* A page is the part of the list from its offset on.
LEMMA PageFacts ==
  ASSUME TypeOK, NEW q \in Query, NEW s \in Orders(q), NEW page \in Nat \ {0}
  PROVE  /\ s \in Seq(Matching(q)) /\ Len(s) \in Nat
         /\ (page - 1) * q.size \in Nat /\ page * q.size = (page - 1) * q.size + q.size
         /\ Page(s, page, q.size) = SubSeq(s, (page - 1) * q.size + 1, Lesser(page * q.size, Len(s)))
         /\ Page(s, page, q.size) \in Seq(DOMAIN rows)
         /\ TotalPages(Len(s), q.size) \in Nat
<1> DEFINE M == Matching(q)
           k == (page - 1) * q.size
           size == q.size
<1>1. size \in Nat \ {0} /\ M \subseteq DOMAIN rows /\ Cardinality(M) \in Nat
  BY QueryFacts, FS_CardinalityType
<1>2. s \in [1 .. Cardinality(M) -> M]
  BY DEF Orders, SetToSeqs
<1> HIDE DEF M, size
<1>3. s \in Seq(M) /\ Len(s) = Cardinality(M)
  BY <1>1, <1>2, SeqDef
<1>4. k \in Nat /\ page * size = k + size
  <2>1. page - 1 \in Nat /\ page = (page - 1) + 1
    OBVIOUS
  <2> QED
    BY <1>1, <2>1, NextOffset DEF size
<1> HIDE DEF k
<1>5. Page(s, page, size) = SubSeq(s, k + 1, Lesser(page * size, Len(s)))
  <2>1. Page(s, page, size) =
          SubSeq(s, k + 1, IF k + 1 + size - 1 < Len(s) THEN k + 1 + size - 1 ELSE Len(s))
    BY DEF Page, Offset, k, size
  <2>2. k + 1 + size - 1 = page * size
    BY <1>1, <1>4
  <2> QED
    BY <2>1, <2>2 DEF Lesser
<1>6. \A n \in k + 1 .. Lesser(page * size, Len(s)) : s[n] \in DOMAIN rows
  <2> SUFFICES ASSUME NEW n \in k + 1 .. Lesser(page * size, Len(s))
               PROVE  s[n] \in DOMAIN rows
    OBVIOUS
  <2>1. n \in 1 .. Len(s)
    BY <1>1, <1>3, <1>4 DEF Lesser
  <2> QED
    BY <1>1, <1>3, <2>1, ElementOfSeq
<1>7. Page(s, page, size) \in Seq(DOMAIN rows)
  <2>1. k + 1 \in Int /\ Lesser(page * size, Len(s)) \in Int
    BY <1>1, <1>3, <1>4 DEF Lesser
  <2> QED
    BY <1>5, <1>6, <2>1, SubSeqProperties
<1>8. TotalPages(Len(s), size) \in Nat
  BY <1>1, <1>3, PagesCover
<1> QED
  BY <1>1, <1>3, <1>4, <1>5, <1>7, <1>8 DEF M, k, size

\* A row that the page does not show, and that is not behind the page, is ahead
\* of it.
LEMMA PageCovers ==
  ASSUME TypeOK, NEW q \in Query, StrictOrder(q), NEW s \in Orders(q), NEW page \in Nat \ {0},
         NEW i \in Matching(q), Cardinality(Ahead(q, i)) < page * q.size,
         \A n \in DOMAIN Page(s, page, q.size) : Page(s, page, q.size)[n] # i
  PROVE  Cardinality(Ahead(q, i)) < (page - 1) * q.size
<1> DEFINE k == (page - 1) * q.size
           last == Lesser(page * q.size, Len(s))
           P == Page(s, page, q.size)
<1>1. /\ Len(s) \in Nat /\ k \in Nat /\ page * q.size = k + q.size
      /\ P = SubSeq(s, k + 1, last) /\ P \in Seq(DOMAIN rows) /\ q.size \in Nat \ {0}
  BY PageFacts, QueryFacts
<1>2. PICK n \in 1 .. Len(s) : s[n] = i
  BY OrderFacts
<1>3. Cardinality(Ahead(q, i)) = n - 1
  BY <1>2, RankOf
<1>4. last \in Int /\ \A m \in k + 1 .. last : m \in 1 .. Len(s)
  BY <1>1 DEF Lesser
<1>5. ASSUME n > k
      PROVE  FALSE
  <2>1. n \in k + 1 .. last
    <3> DEFINE e == page * q.size
    <3>1. e \in Nat /\ n - 1 < e
      <4> HIDE DEF k, last, P
      <4>1. e \in Nat
        BY <1>1
      <4> QED
        BY <1>3, <4>1
    <3>2. last = Lesser(e, Len(s)) /\ k \in Nat
      BY <1>1
    <3> HIDE DEF e, k, last
    <3> QED
      BY <1>1, <1>2, <1>5, <3>1, <3>2 DEF Lesser
  <2> HIDE DEF k, last
  <2>2. \A m \in k + 1 .. last : s[m] \in Matching(q)
    BY <1>4, OrderFacts
  <2>3. /\ Len(P) = IF k + 1 <= last THEN last - (k + 1) + 1 ELSE 0
        /\ \A m \in 1 .. last - (k + 1) + 1 : P[m] = s[k + 1 + m - 1]
    <3>1. k + 1 \in Int /\ last \in Int
      BY <1>1, <1>4
    <3> HIDE DEF P
    <3> QED
      BY <1>1, <2>2, <3>1, SubSeqProperties
  <2> DEFINE m == n - k
  <2>4. m \in 1 .. last - (k + 1) + 1 /\ k + 1 + m - 1 = n /\ Len(P) = last - (k + 1) + 1
    BY <1>1, <1>2, <1>4, <2>1, <2>3
  <2> HIDE DEF P, m
  <2>5. m \in DOMAIN P
    BY <1>1, <2>4, LenProperties
  <2> QED
    BY <1>2, <2>3, <2>4, <2>5 DEF P
<1> QED
  BY <1>1, <1>2, <1>3, <1>5

\* After the last page every row of the list is behind the walk.
LEMMA LastPageCovers ==
  ASSUME TypeOK, NEW q \in Query, StrictOrder(q), NEW s \in Orders(q), NEW page \in Nat \ {0},
         page >= TotalPages(Len(s), q.size), NEW i \in Matching(q)
  PROVE  Cardinality(Ahead(q, i)) < page * q.size
<1>1. PICK n \in 1 .. Len(s) : s[n] = i
  BY OrderFacts
<1>2. Cardinality(Ahead(q, i)) = n - 1
  BY <1>1, RankOf
<1>3. page * q.size >= Len(s) /\ Len(s) \in Nat /\ page * q.size \in Nat
  BY PageFacts, PagesCover, QueryFacts, NextOffset
<1> QED
  BY <1>1, <1>2, <1>3

-----------------------------------------------------------------------------
(* Types.                                                                  *)

LEMMA WalkCases ==
  ASSUME TypeOK
  PROVE  \/ walk = NoWalk /\ walk.page = 0
         \/ walk \in Walk /\ walk.page \in Nat \ {0} /\ walk.page > 0
BY DEF TypeOK, Walk, NoWalk

\* A change of one row, or a new one, that keeps the rows that can be seen.
LEMMA TableSteps ==
  ASSUME TypeOK, \/ Insert
                 \/ \E i \in DOMAIN rows : Settle(i) \/ Close(i) \/ Reopen(i)
  PROVE  /\ rows' \in Seq([created : 0 .. MaxTime, status : Status])
         /\ now' = now
         /\ DOMAIN rows \subseteq DOMAIN rows'
         /\ \A i \in DOMAIN rows : rows'[i].created = rows[i].created
         /\ Visible \subseteq Visible'
<1> DEFINE Row == [created : 0 .. MaxTime, status : Status]
<1>1. rows \in Seq(Row) /\ now \in 0 .. MaxTime
  BY DEF TypeOK
<1>2. Len(rows) \in Nat /\ DOMAIN rows = 1 .. Len(rows)
  BY <1>1, LenProperties
<1>3. CASE Insert
  <2> DEFINE row == [created |-> now, status |-> "FLUSHED"]
  <2>1. row \in Row
    BY <1>1 DEF Status
  <2>2. rows' = Append(rows, row) /\ now' = now
    BY <1>3 DEF Insert
  <2> HIDE DEF Row, row
  <2>3. rows' \in Seq(Row) /\ Len(rows') = Len(rows) + 1 /\ \A i \in 1 .. Len(rows) : rows'[i] = rows[i]
    BY <1>1, <2>1, <2>2, AppendProperties
  <2>4. DOMAIN rows' = 1 .. Len(rows) + 1
    BY <2>3, LenProperties
  <2> QED
    BY <1>2, <2>2, <2>3, <2>4 DEF Row, Visible
<1>4. ASSUME NEW i \in DOMAIN rows, NEW status \in Status,
             rows' = [rows EXCEPT ![i].status = status], now' = now,
             status \in {"OPEN", "CLOSED"} \/ i \notin Visible
      PROVE  /\ rows' \in Seq(Row)
             /\ DOMAIN rows \subseteq DOMAIN rows'
             /\ \A j \in DOMAIN rows : rows'[j].created = rows[j].created
             /\ Visible \subseteq Visible'
  <2>1. rows[i] \in Row
    BY <1>1, <1>2, ElementOfSeq
  <2>2. [rows[i] EXCEPT !.status = status] \in Row
    BY <2>1
  <2>3. rows' = [rows EXCEPT ![i] = [rows[i] EXCEPT !.status = status]]
    BY <1>4
  <2>4. rows' \in Seq(Row) /\ DOMAIN rows' = DOMAIN rows
    BY <1>1, <1>2, <2>2, <2>3, ExceptSeq
  <2>5. \A j \in DOMAIN rows : rows'[j] = IF j = i THEN [rows[i] EXCEPT !.status = status] ELSE rows[j]
    BY <1>2, <2>3
  <2>6. rows'[i].created = rows[i].created /\ rows'[i].status = status
    BY <2>1, <2>5
  <2> QED
    BY <1>4, <2>4, <2>5, <2>6 DEF Visible
<1>5. ASSUME NEW i \in DOMAIN rows, Settle(i) \/ Close(i) \/ Reopen(i)
      PROVE  /\ rows' \in Seq(Row)
             /\ now' = now
             /\ DOMAIN rows \subseteq DOMAIN rows'
             /\ \A j \in DOMAIN rows : rows'[j].created = rows[j].created
             /\ Visible \subseteq Visible'
  <2>1. {"OPEN", "CLOSED", "GONE"} \subseteq Status
    BY DEF Status
  <2>2. PICK status \in {"OPEN", "CLOSED", "GONE"} :
          /\ rows' = [rows EXCEPT ![i].status = status] /\ now' = now
          /\ status \in {"OPEN", "CLOSED"} \/ i \notin Visible
    BY <1>5 DEF Settle, Close, Reopen, Outcome, Visible
  <2> QED
    BY <1>4, <2>1, <2>2
<1> QED
  BY <1>3, <1>5

\* What a change of the table does to the walk.
LEMMA NoticedFacts ==
  ASSUME TypeOK
  PROVE  /\ walk = NoWalk /\ (Noticed(TRUE) \/ Noticed(FALSE)) => walk' = NoWalk
         /\ walk \in Walk /\ Noticed(FALSE) => walk' = [walk EXCEPT !.quiet = FALSE]
         /\ walk \in Walk /\ Noticed(TRUE) /\ ~walk.query.openOnly
              => walk' = [walk EXCEPT !.quiet = FALSE]
         /\ walk \in Walk /\ Noticed(TRUE) /\ walk.query.openOnly
              => walk' = [walk EXCEPT !.quiet = FALSE, !.left = walk.left + 1]
<1>1. walk = NoWalk => walk.page = 0
  BY DEF NoWalk
<1>2. walk \in Walk => walk.page # 0
  BY DEF Walk
<1>3. walk \in Walk => [walk EXCEPT !.quiet = FALSE, !.left = @] = [walk EXCEPT !.quiet = FALSE]
  BY DEF Walk
<1> QED
  BY <1>1, <1>2, <1>3 DEF Noticed

LEMMA WalkChanged ==
  ASSUME walk \in Walk, \/ walk' = [walk EXCEPT !.quiet = FALSE]
                        \/ walk' = [walk EXCEPT !.quiet = FALSE, !.left = walk.left + 1]
  PROVE  /\ walk'.page = walk.page /\ walk'.pages = walk.pages /\ walk'.query = walk.query
         /\ walk'.shown = walk.shown /\ walk'.from = walk.from
         /\ walk'.quiet \in BOOLEAN /\ ~walk'.quiet
         /\ walk'.left \in {walk.left, walk.left + 1}
         /\ walk' = [walk EXCEPT !.quiet = FALSE] => walk'.left = walk.left
         /\ walk' = [walk EXCEPT !.quiet = FALSE, !.left = walk.left + 1] => walk'.left = walk.left + 1
         /\ walk' = [page |-> walk.page, pages |-> walk.pages, query |-> walk.query,
                     shown |-> walk.shown, from |-> walk.from, left |-> walk'.left,
                     quiet |-> walk'.quiet]
BY DEF Walk

\* A walk fits a table to which rows were added.
LEMMA WalkFits ==
  ASSUME TypeOK, NEW w \in Walk, DOMAIN rows \subseteq DOMAIN rows', Visible \subseteq Visible'
  PROVE  /\ w.page \in Nat \ {0} /\ w.pages \in Nat /\ w.query \in Query
         /\ w.shown \in Seq(DOMAIN rows') /\ w.from \subseteq Visible'
         /\ w.left \in Nat /\ w.quiet \in BOOLEAN
<1>1. w.shown \in Seq(DOMAIN rows) /\ w.from \subseteq Visible
  BY DEF Walk
<1>2. w.shown \in Seq(DOMAIN rows')
  BY <1>1, SeqMonotonic
<1> QED
  BY <1>1, <1>2 DEF Walk

\* The rows, the clock and the walk keep their types: a walk shows rows that
\* exist, and began with rows that could be seen.
LEMMA WalkSteps ==
  ASSUME TypeOK, UNCHANGED <<rows, now>>,
         \/ \E q \in Query : FirstPage(q)
         \/ NextPage
         \/ Leave
  PROVE  TypeOK'
<1>1. Visible' = Visible
  BY DEF Visible
<1>2. CASE Leave
  BY <1>2 DEF Leave, TypeOK
<1>3. ASSUME NEW q \in Query, FirstPage(q)
      PROVE  walk' \in Walk'
  <2>1. PICK s \in Orders(q) :
          walk' = [page |-> 1, pages |-> TotalPages(Len(s), q.size), query |-> q,
                   shown |-> Page(s, 1, q.size), from |-> Matching(q), left |-> 0,
                   quiet |-> TRUE]
    BY <1>3 DEF FirstPage
  <2>2. /\ Page(s, 1, q.size) \in Seq(DOMAIN rows) /\ TotalPages(Len(s), q.size) \in Nat
        /\ Matching(q) \subseteq Visible
    BY PageFacts, QueryFacts
  <2> QED
    BY <1>1, <2>1, <2>2 DEF Walk
<1>4. ASSUME NextPage
      PROVE  walk' \in Walk'
  <2>1. walk \in Walk
    <3>1. walk.page > 0
      BY <1>4 DEF NextPage
    <3> QED
      BY <3>1, WalkCases
  <2> DEFINE q == walk.query
             page == walk.page + 1
  <2>2. PICK s \in Orders(q) :
          walk' = [walk EXCEPT !.page = @ + 1, !.pages = TotalPages(Len(s), q.size),
                               !.shown = @ \o Page(s, page, q.size)]
    BY <1>4 DEF NextPage
  <2>3. q \in Query /\ page \in Nat \ {0} /\ walk.shown \in Seq(DOMAIN rows)
    BY <2>1 DEF Walk
  <2>4. Page(s, page, q.size) \in Seq(DOMAIN rows) /\ TotalPages(Len(s), q.size) \in Nat
    BY <2>3, PageFacts
  <2>5. walk.shown \o Page(s, page, q.size) \in Seq(DOMAIN rows)
    BY <2>3, <2>4, ConcatProperties
  <2> QED
    BY <1>1, <2>1, <2>2, <2>3, <2>4, <2>5 DEF Walk
<1> QED
  BY <1>2, <1>3, <1>4 DEF TypeOK

LEMMA NextTypes == TypeOK /\ [Next]_vars => TypeOK'
<1> SUFFICES ASSUME TypeOK, [Next]_vars
             PROVE  TypeOK'
  OBVIOUS
<1>1. CASE (\E q \in Query : FirstPage(q)) \/ NextPage \/ Leave
  <2>1. UNCHANGED <<rows, now>>
    BY <1>1 DEF FirstPage, NextPage, Leave
  <2> QED
    BY <1>1, <2>1, WalkSteps
<1>2. CASE Insert \/ \E i \in DOMAIN rows : Settle(i) \/ Close(i) \/ Reopen(i)
  <2>1. /\ rows' \in Seq([created : 0 .. MaxTime, status : Status])
        /\ now' = now
        /\ DOMAIN rows \subseteq DOMAIN rows'
        /\ Visible \subseteq Visible'
    BY <1>2, TableSteps
  <2>2. UNCHANGED walk \/ Noticed(TRUE) \/ Noticed(FALSE)
    BY <1>2 DEF Insert, Settle, Close, Reopen
  <2>3. walk' \in Walk' \cup {NoWalk}
    <3>1. CASE walk = NoWalk
      BY <2>2, <3>1, NoticedFacts
    <3>2. CASE walk \in Walk
      <4>1. /\ walk.page \in Nat \ {0} /\ walk.pages \in Nat /\ walk.query \in Query
            /\ walk.shown \in Seq(DOMAIN rows') /\ walk.from \subseteq Visible'
            /\ walk.left \in Nat /\ walk.quiet \in BOOLEAN
        BY <2>1, <3>2, WalkFits
      <4>2. CASE UNCHANGED walk
        <5>1. walk' = [page |-> walk.page, pages |-> walk.pages, query |-> walk.query,
                       shown |-> walk.shown, from |-> walk.from, left |-> walk.left,
                       quiet |-> walk.quiet]
          BY <3>2, <4>2 DEF Walk
        <5> QED
          BY <4>1, <5>1 DEF Walk
      <4>3. CASE Noticed(TRUE) \/ Noticed(FALSE)
        <5>0. \/ walk' = [walk EXCEPT !.quiet = FALSE]
              \/ walk' = [walk EXCEPT !.quiet = FALSE, !.left = walk.left + 1]
          BY <3>2, <4>3, NoticedFacts
        <5>1. walk'.left \in {walk.left, walk.left + 1} /\ walk'.quiet \in BOOLEAN
          BY <3>2, <5>0, WalkChanged
        <5>2. walk' = [page |-> walk.page, pages |-> walk.pages, query |-> walk.query,
                       shown |-> walk.shown, from |-> walk.from, left |-> walk'.left,
                       quiet |-> walk'.quiet]
          BY <3>2, <5>0, WalkChanged
        <5> QED
          BY <4>1, <5>1, <5>2 DEF Walk
      <4> QED
        BY <2>2, <4>2, <4>3
    <3> QED
      BY <3>1, <3>2, WalkCases
  <2> QED
    BY <2>1, <2>3 DEF TypeOK
<1>3. CASE Tick
  <2>1. now' \in 0 .. MaxTime /\ UNCHANGED <<rows, walk>>
    BY <1>3, BoundAssumption DEF Tick, TypeOK
  <2> QED
    BY <2>1 DEF TypeOK, Walk, Visible
<1>4. CASE UNCHANGED vars
  BY <1>4 DEF vars, TypeOK, Walk, Visible
<1> QED
  BY <1>1, <1>2, <1>3, <1>4 DEF Next

LEMMA InitTypes == Init => TypeOK
<1> SUFFICES ASSUME Init
             PROVE  TypeOK
  OBVIOUS
<1>1. rows \in Seq([created : 0 .. MaxTime, status : Status])
  BY EmptySeq DEF Init
<1> QED
  BY <1>1, BoundAssumption DEF Init, TypeOK

-----------------------------------------------------------------------------
(* What a walk has passed.                                                 *)

\* Passed, for a query, the rows that were not shown, and the rows read so far.
PassedOf(q, unshown, k) ==
  {i \in unshown : i \in Matching(q) => Cardinality(Ahead(q, i)) < k}

LEMMA PassedForm == Passed = PassedOf(walk.query, Unshown, walk.page * walk.query.size)
BY DEF Passed, PassedOf

\* The same after a step that leaves the walk with query q.
LEMMA QueryNext ==
  ASSUME NEW q, walk'.query = q
  PROVE  /\ Strict' <=> StrictOrder(q)'
         /\ Matching(walk.query)' = Matching(q)'
         /\ \A i : Ahead(walk.query, i)' = Ahead(q, i)'
         /\ Orders(walk.query)' = Orders(q)'
<1>1. Strict' <=> StrictOrder(q)'
  BY DEF Strict, StrictOrder, SortKey, Visible
<1>2. Matching(walk.query)' = Matching(q)'
  BY DEF Matching, Visible
<1>3. \A i : Ahead(walk.query, i)' = Ahead(q, i)'
  BY DEF Ahead, Matching, SortKey, Visible
<1>4. Orders(walk.query)' = Orders(q)'
  BY DEF Orders, Matching, SortKey, Visible
<1> QED
  BY <1>1, <1>2, <1>3, <1>4

LEMMA PassedNext ==
  ASSUME NEW q, walk'.query = q, NEW unshown, Unshown' = unshown, NEW k,
         walk'.page * q.size = k
  PROVE  Passed' = PassedOf(q, unshown, k)'
<1>1. Passed' = {i \in Unshown' : i \in Matching(walk.query)' =>
                                    Cardinality(Ahead(walk.query, i)') < walk'.page * walk'.query.size}
  BY DEF Passed
<1>2. PassedOf(q, unshown, k)' =
        {i \in unshown : i \in Matching(q)' => Cardinality(Ahead(q, i)') < k}
  BY DEF PassedOf
<1>3. Matching(walk.query)' = Matching(q)' /\ \A i : Ahead(walk.query, i)' = Ahead(q, i)'
  BY QueryNext
<1> QED
  BY <1>1, <1>2, <1>3

LEMMA UnshownFacts ==
  ASSUME TypeOK, walk \in Walk
  PROVE  /\ IsFiniteSet(Unshown) /\ Cardinality(Unshown) \in Nat /\ Unshown \subseteq Visible
         /\ IsFiniteSet(Passed) /\ Cardinality(Passed) \in Nat /\ Passed \subseteq Unshown
<1>1. walk.from \subseteq Visible /\ walk.query \in Query
  BY DEF Walk
<1>2. IsFiniteSet(Visible) /\ Unshown \subseteq Visible /\ Passed \subseteq Unshown
  BY <1>1, QueryFacts DEF Unshown, Passed
<1> QED
  BY <1>2, FS_Subset, FS_CardinalityType

\* The first page of a list shows all that it has passed.
LEMMA FirstPageHolds ==
  ASSUME TypeOK, NEW q \in Query, FirstPage(q)
  PROVE  PassedAreShifted' /\ QuietShowsAll'
<1>1. PICK s \in Orders(q) :
        walk' = [page |-> 1, pages |-> TotalPages(Len(s), q.size), query |-> q,
                 shown |-> Page(s, 1, q.size), from |-> Matching(q), left |-> 0,
                 quiet |-> TRUE]
  BY DEF FirstPage
<1>2. /\ walk'.page = 1 /\ walk'.pages = TotalPages(Len(s), q.size) /\ walk'.query = q
      /\ walk'.shown = Page(s, 1, q.size) /\ walk'.from = Matching(q) /\ walk'.left = 0
  BY <1>1
<1>3. rows' = rows
  BY DEF FirstPage
<1>4. /\ StrictOrder(q)' <=> StrictOrder(q)
      /\ Matching(q)' = Matching(q)
      /\ \A i : Ahead(q, i)' = Ahead(q, i)
      /\ Orders(q)' = Orders(q)
  BY <1>3 DEF StrictOrder, Orders, Ahead, Matching, SortKey, Visible
<1>5. PICK one \in Nat \ {0} : one = 1
  OBVIOUS
<1> DEFINE P == Page(s, one, q.size)
<1>6. PICK unshown : unshown = Matching(q) \ {P[n] : n \in DOMAIN P}
  OBVIOUS
<1>7. Unshown' = unshown /\ walk'.shown = P
  BY <1>2, <1>5, <1>6 DEF Unshown, ShownRows
<1>8. q.size \in Nat \ {0} /\ one * q.size = q.size /\ (one - 1) * q.size = 0
  BY <1>5, QueryFacts
<1>9. ASSUME StrictOrder(q)
      PROVE  /\ PassedOf(q, unshown, q.size) = {}
             /\ one >= TotalPages(Len(s), q.size) => unshown = {}
  <2>1. ASSUME NEW i \in unshown, Cardinality(Ahead(q, i)) < q.size
        PROVE  FALSE
    <3>1. i \in Matching(q) /\ \A n \in DOMAIN P : P[n] # i
      BY <1>6
    <3>2. Cardinality(Ahead(q, i)) < (one - 1) * q.size
      BY <1>8, <1>9, <2>1, <3>1, PageCovers
    <3>3. PICK n \in 1 .. Len(s) : s[n] = i
      BY <1>9, <3>1, OrderFacts
    <3>4. Cardinality(Ahead(q, i)) = n - 1
      BY <1>9, <3>3, RankOf
    <3> QED
      BY <1>8, <3>2, <3>4
  <2>2. PassedOf(q, unshown, q.size) = {}
    BY <1>6, <2>1 DEF PassedOf
  <2>3. ASSUME one >= TotalPages(Len(s), q.size), NEW i \in unshown
        PROVE  FALSE
    <3>1. Cardinality(Ahead(q, i)) < one * q.size
      BY <1>6, <1>9, <2>3, LastPageCovers
    <3> QED
      BY <1>8, <2>1, <3>1
  <2> QED
    BY <2>2, <2>3
<1>10. PassedAreShifted'
  <2> SUFFICES ASSUME Strict'
               PROVE  Cardinality(Passed') <= 0 /\ (Finished' => Cardinality(Unshown') <= 0)
    BY <1>2 DEF PassedAreShifted
  <2>1. StrictOrder(q)
    BY <1>2, <1>4, QueryNext
  <2>2. Passed' = PassedOf(q, unshown, q.size)'
    BY <1>2, <1>5, <1>7, <1>8, PassedNext
  <2>3. PassedOf(q, unshown, q.size)' = PassedOf(q, unshown, q.size)
    BY <1>4 DEF PassedOf
  <2>4. Finished' => one >= TotalPages(Len(s), q.size)
    BY <1>2, <1>5 DEF Finished
  <2>5. Passed' = {} /\ (Finished' => Unshown' = {})
    BY <1>7, <1>9, <2>1, <2>2, <2>3, <2>4
  <2> QED
    BY <2>5, FS_EmptySet
<1>11. QuietShowsAll'
  <2>1. P = SubSeq(s, 1, Lesser(one * q.size, Len(s)))
    <3>1. P = SubSeq(s, (one - 1) * q.size + 1, Lesser(one * q.size, Len(s)))
      BY PageFacts
    <3>2. (one - 1) * q.size + 1 = 1
      BY <1>8
    <3> QED
      BY ONLY <3>1, <3>2, Zenon
  <2>2. Orders(walk.query)' = Orders(q) /\ Matching(walk.query)' = Matching(q)
    BY <1>2, <1>4, QueryNext
  <2>3. \E t \in Orders(walk.query)' :
          /\ walk'.pages = TotalPages(Len(t), walk'.query.size)
          /\ walk'.shown = SubSeq(t, 1, Lesser(walk'.page * walk'.query.size, Len(t)))
    <3>1. s \in Orders(walk.query)'
      BY <2>2
    <3> QED
      BY <1>2, <1>5, <1>7, <2>1, <3>1
  <2> QED
    BY <1>2, <2>2, <2>3 DEF QuietShowsAll
<1> QED
  BY <1>10, <1>11

\* The next page moves the border of the walk over rows that it shows.
LEMMA NextPageHolds ==
  ASSUME IInv, NextPage
  PROVE  PassedAreShifted' /\ QuietShowsAll'
<1>1. TypeOK /\ PassedAreShifted /\ QuietShowsAll
  BY DEF IInv
<1>2. walk.page > 0 /\ walk.page < walk.pages /\ rows' = rows
  BY DEF NextPage
<1>3. walk \in Walk
  BY <1>1, <1>2, WalkCases
<1>4. PICK q \in Query : q = walk.query
  BY <1>3 DEF Walk
<1>5. PICK page \in Nat \ {0} : page = walk.page + 1
  BY <1>3 DEF Walk
<1>6. PICK s \in Orders(q) :
        walk' = [walk EXCEPT !.page = @ + 1, !.pages = TotalPages(Len(s), q.size),
                             !.shown = @ \o Page(s, page, q.size)]
  BY <1>4, <1>5 DEF NextPage
<1> DEFINE P == Page(s, page, q.size)
<1>7. /\ walk'.page = page /\ walk'.pages = TotalPages(Len(s), q.size) /\ walk'.query = q
      /\ walk'.shown = walk.shown \o P /\ walk'.from = walk.from
      /\ walk'.left = walk.left /\ walk'.quiet = walk.quiet
      /\ page - 1 = walk.page
  BY <1>3, <1>4, <1>5, <1>6 DEF Walk
<1>8. /\ StrictOrder(q)' <=> StrictOrder(q)
      /\ Matching(q)' = Matching(q)
      /\ \A i : Ahead(q, i)' = Ahead(q, i)
      /\ Orders(q)' = Orders(q)
  BY <1>2 DEF StrictOrder, Orders, Ahead, Matching, SortKey, Visible
<1>9. PICK unshown : unshown = Unshown'
  OBVIOUS
<1>10. unshown \subseteq Unshown /\ \A i \in unshown : \A n \in DOMAIN P : P[n] # i
  <2>1. walk.shown \in Seq(DOMAIN rows) /\ P \in Seq(DOMAIN rows)
    BY <1>1, <1>3, PageFacts DEF Walk
  <2> HIDE DEF P
  <2>2. Range(walk'.shown) = Range(walk.shown) \cup Range(P)
    BY <1>7, <2>1, RangeConcatenation
  <2>3. ShownRows' = ShownRows \cup {P[n] : n \in DOMAIN P}
    BY <2>2 DEF ShownRows, Range
  <2> QED
    BY <1>7, <1>9, <2>3 DEF Unshown
<1>11. /\ (page - 1) * q.size \in Nat /\ page * q.size = (page - 1) * q.size + q.size
       /\ q.size \in Nat \ {0} /\ page * q.size \in Nat
  BY <1>1, PageFacts, QueryFacts
<1>12. PassedAreShifted'
  <2> SUFFICES ASSUME Strict'
               PROVE  /\ Cardinality(Passed') <= walk.left
                      /\ Finished' => Cardinality(Unshown') <= walk.left
    BY <1>7 DEF PassedAreShifted
  <2>1. StrictOrder(q) /\ Strict
    BY <1>4, <1>7, <1>8, QueryNext DEF Strict
  <2>2. Passed = PassedOf(q, Unshown, (page - 1) * q.size)
    BY <1>4, <1>7, PassedForm
  <2>3. Passed' = PassedOf(q, unshown, page * q.size)'
    BY <1>7, <1>9, PassedNext
  <2>4. PassedOf(q, unshown, page * q.size)' = PassedOf(q, unshown, page * q.size)
    BY <1>8 DEF PassedOf
  <2>5. Passed' \subseteq Passed
    <3> SUFFICES ASSUME NEW i \in PassedOf(q, unshown, page * q.size)
                 PROVE  i \in PassedOf(q, Unshown, (page - 1) * q.size)
      BY <2>2, <2>3, <2>4
    <3>1. i \in unshown /\ i \in Unshown /\ \A n \in DOMAIN P : P[n] # i
      BY <1>10 DEF PassedOf
    <3>2. ASSUME i \in Matching(q)
          PROVE  Cardinality(Ahead(q, i)) < (page - 1) * q.size
      <4>1. Cardinality(Ahead(q, i)) < page * q.size
        BY <3>2 DEF PassedOf
      <4> QED
        BY <1>1, <2>1, <3>1, <3>2, <4>1, PageCovers
    <3> QED
      BY <3>1, <3>2 DEF PassedOf
  <2>6. IsFiniteSet(Passed) /\ Cardinality(Passed) <= walk.left
    BY <1>1, <1>2, <1>3, <2>1, UnshownFacts DEF PassedAreShifted
  <2>7. Cardinality(Passed') <= Cardinality(Passed) /\ Cardinality(Passed') \in Nat
        /\ Cardinality(Passed) \in Nat /\ walk.left \in Nat
    BY <1>3, <2>5, <2>6, FS_Subset, FS_CardinalityType DEF Walk
  <2>8. ASSUME Finished'
        PROVE  Unshown' = Passed'
    <3>1. page >= TotalPages(Len(s), q.size)
      BY <1>7, <2>8 DEF Finished
    <3>2. \A i \in Matching(q) : Cardinality(Ahead(q, i)) < page * q.size
      BY <1>1, <2>1, <3>1, LastPageCovers
    <3>3. PassedOf(q, unshown, page * q.size) = unshown
      BY <3>2 DEF PassedOf
    <3> QED
      BY <1>9, <2>3, <2>4, <3>3
  <2> QED
    BY <2>6, <2>7, <2>8
<1>13. QuietShowsAll'
  <2> SUFFICES ASSUME walk.quiet, Strict'
               PROVE  /\ walk.from = Matching(q)
                      /\ walk'.shown = SubSeq(s, 1, Lesser(page * q.size, Len(s)))
    <3>1. Orders(walk.query)' = Orders(q) /\ Matching(walk.query)' = Matching(q)
      BY <1>7, <1>8, QueryNext
    <3> QED
      BY <1>7, <3>1 DEF QuietShowsAll
  <2>1. StrictOrder(q) /\ Strict
    BY <1>4, <1>7, <1>8, QueryNext DEF Strict
  <2>2. PICK t \in Orders(q) :
          /\ walk.from = Matching(q)
          /\ walk.pages = TotalPages(Len(t), q.size)
          /\ walk.shown = SubSeq(t, 1, Lesser(walk.page * q.size, Len(t)))
    BY <1>1, <1>2, <1>4, <2>1 DEF QuietShowsAll
  <2>3. t = s
    BY <1>1, <2>1, <2>2, OneOrder
  <2>4. PICK k \in Nat : k = (page - 1) * q.size
    BY <1>11
  <2>5. Len(s) \in Nat /\ s \in Seq(Matching(q)) /\ k < Len(s)
    <3>1. Len(s) \in Nat /\ s \in Seq(Matching(q))
      BY <1>1, PageFacts
    <3>2. PICK before \in Nat : before = page - 1
      OBVIOUS
    <3>3. before < TotalPages(Len(s), q.size)
      BY <1>2, <1>7, <2>2, <2>3, <3>2
    <3>4. before * q.size < Len(s)
      BY <1>11, <3>1, <3>3, PagesCover
    <3> QED
      BY <2>4, <3>1, <3>2, <3>4
  <2>6. walk.shown = SubSeq(s, 1, k)
    BY <1>7, <2>2, <2>3, <2>4, <2>5 DEF Lesser
  <2>7. PICK last \in Nat : last = Lesser(page * q.size, Len(s))
    BY <1>11, <2>5 DEF Lesser
  <2>8. P = SubSeq(s, k + 1, last)
    BY <1>1, <2>4, <2>7, PageFacts
  <2>9. k \in 0 .. Len(s) /\ last \in k .. Len(s)
    <3>1. page * q.size = k + q.size
      BY <1>11, <2>4
    <3> QED
      BY <1>11, <2>5, <2>7, <3>1 DEF Lesser
  <2>10. SubSeq(s, 1, k) \o SubSeq(s, k + 1, last) = SubSeq(s, 1, last)
    <3>1. 1 \in 1 .. Len(s) + 1 /\ k \in 1 - 1 .. Len(s)
      BY <2>5, <2>9
    <3> QED
      BY <2>5, <2>9, <3>1, ConcatAdjacentSubSeq
  <2> QED
    BY <1>7, <2>2, <2>6, <2>7, <2>8, <2>10
<1> QED
  BY <1>12, <1>13

-----------------------------------------------------------------------------
(* What changes of the table do to a walk.                                 *)

\* The order of the rows that can be seen does not change, and a column that
\* tells more rows apart tells fewer of them apart.
LEMMA OrderKept ==
  ASSUME TypeOK, NEW q \in Query, StrictOrder(q)',
         DOMAIN rows \subseteq DOMAIN rows', Visible \subseteq Visible',
         \A i \in DOMAIN rows : rows'[i].created = rows[i].created
  PROVE  /\ StrictOrder(q)
         /\ \A i \in Visible : SortKey(q, i)' = SortKey(q, i)
         /\ \A i, j \in Visible : Precedes(q, i, j)' <=> Precedes(q, i, j)
<1>1. q.column # "status" /\ q.column \in {"id", "created_at", "status"}
  BY BoundAssumption DEF StrictOrder, Query
<1>2. \A i \in Visible : SortKey(q, i)' = SortKey(q, i)
  BY <1>1 DEF SortKey, Visible
<1>3. StrictOrder(q)
  <2> SUFFICES ASSUME NEW i \in Visible, NEW j \in Visible, SortKey(q, i) = SortKey(q, j)
               PROVE  i = j
    BY <1>1 DEF StrictOrder
  <2>1. i \in Visible' /\ j \in Visible' /\ SortKey(q, i)' = SortKey(q, j)'
    BY <1>2
  <2> QED
    BY <2>1 DEF StrictOrder
<1>4. \A i, j \in Visible : Precedes(q, i, j)' <=> Precedes(q, i, j)
  BY <1>2 DEF Precedes
<1> QED
  BY <1>2, <1>3, <1>4

\* Nothing gets passed by rows that come into the list.
LEMMA MoreRows ==
  ASSUME TypeOK, TypeOK', NEW q \in Query, StrictOrder(q)',
         DOMAIN rows \subseteq DOMAIN rows', Visible \subseteq Visible',
         \A i \in DOMAIN rows : rows'[i].created = rows[i].created,
         Matching(q) \subseteq Matching(q)',
         NEW unshown, unshown \subseteq Visible, NEW k \in Nat
  PROVE  PassedOf(q, unshown, k)' \subseteq PassedOf(q, unshown, k)
<1> SUFFICES ASSUME NEW i \in unshown, i \in Matching(q),
                    i \in Matching(q)' => Cardinality(Ahead(q, i)') < k
             PROVE  Cardinality(Ahead(q, i)) < k
  BY DEF PassedOf
<1>1. Ahead(q, i) = {j \in Matching(q) : Precedes(q, j, i)}
  BY DEF Ahead, Precedes
<1>2. Ahead(q, i)' = {j \in Matching(q)' : Precedes(q, j, i)'}
  BY DEF Ahead, Precedes
<1>3. Matching(q) \subseteq Visible /\ IsFiniteSet(Matching(q))
  BY QueryFacts
<1>4. Ahead(q, i) \subseteq Ahead(q, i)'
  BY <1>1, <1>2, <1>3, OrderKept
<1>5. IsFiniteSet(Matching(q)')
  <2>1. (TypeOK => IsFiniteSet(Matching(q)))'
    BY QueryFacts, PTL
  <2> QED
    BY <2>1
<1>6. IsFiniteSet(Ahead(q, i)') /\ IsFiniteSet(Ahead(q, i))
  BY <1>1, <1>2, <1>3, <1>5, FS_Subset
<1>7. /\ Cardinality(Ahead(q, i)) <= Cardinality(Ahead(q, i)')
      /\ Cardinality(Ahead(q, i)) \in Nat /\ Cardinality(Ahead(q, i)') \in Nat
  BY <1>4, <1>6, FS_Subset, FS_CardinalityType
<1>8. i \in Matching(q)'
  OBVIOUS
<1> QED
  BY <1>7, <1>8

\* A row ahead of another one has fewer rows ahead of it.
LEMMA RankMono ==
  ASSUME TypeOK, NEW q \in Query, StrictOrder(q), NEW i \in Matching(q), NEW j \in Matching(q),
         Precedes(q, i, j)
  PROVE  Cardinality(Ahead(q, i)) < Cardinality(Ahead(q, j))
<1>1. Matching(q) \subseteq Visible /\ IsFiniteSet(Matching(q))
  BY QueryFacts
<1>2. \A m : Ahead(q, m) = {l \in Matching(q) : Precedes(q, l, m)}
  BY AheadPrecedes
<1>3. Ahead(q, i) \subseteq Ahead(q, j) /\ i \in Ahead(q, j) /\ i \notin Ahead(q, i)
  BY <1>1, <1>2, PrecedesOrder
<1>4. IsFiniteSet(Ahead(q, j)) /\ IsFiniteSet(Ahead(q, i))
  BY <1>1, <1>2, FS_Subset
<1>5. /\ Cardinality(Ahead(q, i)) <= Cardinality(Ahead(q, j))
      /\ Cardinality(Ahead(q, i)) # Cardinality(Ahead(q, j))
  BY <1>3, <1>4, FS_Subset
<1> QED
  BY <1>4, <1>5, FS_CardinalityType

\* A set with one element more than another one, at most.
LEMMA OneMoreAtMost ==
  ASSUME NEW A, NEW B, IsFiniteSet(A), \A x, y \in B \ A : x = y
  PROVE  IsFiniteSet(B) /\ Cardinality(B) <= Cardinality(A) + 1
<1>1. CASE B \ A = {}
  <2>1. B \subseteq A
    BY <1>1
  <2> QED
    BY <2>1, FS_Subset, FS_CardinalityType
<1>2. CASE B \ A # {}
  <2>1. PICK x : x \in B \ A
    BY <1>2
  <2>2. B \subseteq A \cup {x} /\ x \notin A
    BY <2>1
  <2>3. IsFiniteSet(A \cup {x}) /\ Cardinality(A \cup {x}) = Cardinality(A) + 1
    BY <2>2, FS_AddElement
  <2> QED
    BY <2>2, <2>3, FS_Subset
<1> QED
  BY <1>1, <1>2

\* When row r leaves the list one row at most gets passed: r itself, or the row
\* that moves over the border.
LEMMA OneRowLess ==
  ASSUME TypeOK, NEW q \in Query, StrictOrder(q)',
         DOMAIN rows \subseteq DOMAIN rows', Visible \subseteq Visible',
         \A i \in DOMAIN rows : rows'[i].created = rows[i].created,
         NEW r, Matching(q)' = Matching(q) \ {r},
         NEW unshown, unshown \subseteq Visible, NEW k \in Nat
  PROVE  \A x, y \in PassedOf(q, unshown, k)' \ PassedOf(q, unshown, k) : x = y
<1>1. StrictOrder(q)
  BY OrderKept
<1>2. Matching(q) \subseteq Visible /\ IsFiniteSet(Matching(q))
  BY QueryFacts
<1>3. \A i : Ahead(q, i) = {j \in Matching(q) : Precedes(q, j, i)}
  BY AheadPrecedes
<1>4. \A i : Ahead(q, i)' = {j \in Matching(q)' : Precedes(q, j, i)'}
  BY DEF Ahead, Precedes
<1>5. ASSUME NEW i \in Matching(q)
      PROVE  /\ IsFiniteSet(Ahead(q, i)) /\ Cardinality(Ahead(q, i)) \in Nat
             /\ Ahead(q, i)' = Ahead(q, i) \ {r}
  <2>1. IsFiniteSet(Ahead(q, i)) /\ Cardinality(Ahead(q, i)) \in Nat
    BY <1>2, <1>3, FS_Subset, FS_CardinalityType
  <2>2. Ahead(q, i)' = Ahead(q, i) \ {r}
    BY <1>2, <1>3, <1>4, OrderKept
  <2> QED
    BY <2>1, <2>2
<1>6. ASSUME NEW i \in PassedOf(q, unshown, k)' \ PassedOf(q, unshown, k)
      PROVE  /\ i \in Matching(q) /\ Cardinality(Ahead(q, i)) >= k
             /\ i # r => Precedes(q, r, i) /\ r \in Matching(q) /\ Cardinality(Ahead(q, i)) = k
  <2>1. /\ i \in unshown /\ i \in Matching(q) /\ ~(Cardinality(Ahead(q, i)) < k)
        /\ i \in Matching(q)' => Cardinality(Ahead(q, i)') < k
    BY DEF PassedOf
  <2>2. Cardinality(Ahead(q, i)) \in Nat /\ Cardinality(Ahead(q, i)) >= k
    BY <1>5, <2>1
  <2>3. ASSUME i # r
        PROVE  Precedes(q, r, i) /\ r \in Matching(q) /\ Cardinality(Ahead(q, i)) = k
    <3>1. Cardinality(Ahead(q, i) \ {r}) < k
      BY <1>5, <2>1, <2>3
    <3>2. Cardinality(Ahead(q, i) \ {r}) =
            IF r \in Ahead(q, i) THEN Cardinality(Ahead(q, i)) - 1 ELSE Cardinality(Ahead(q, i))
      <4>1. IsFiniteSet(Ahead(q, i))
        BY <1>5, <2>1
      <4> QED
        BY <4>1, FS_RemoveElement
    <3>3. r \in Ahead(q, i) /\ Cardinality(Ahead(q, i)) = k
      BY <2>2, <3>1, <3>2
    <3> QED
      BY <1>3, <3>3
  <2> QED
    BY <2>1, <2>2, <2>3
<1> SUFFICES ASSUME NEW x \in PassedOf(q, unshown, k)' \ PassedOf(q, unshown, k),
                    NEW y \in PassedOf(q, unshown, k)' \ PassedOf(q, unshown, k), x # y
             PROVE  FALSE
  OBVIOUS
<1>7. /\ x \in Matching(q) /\ Cardinality(Ahead(q, x)) >= k
      /\ x # r => Precedes(q, r, x) /\ Cardinality(Ahead(q, x)) = k
      /\ y \in Matching(q) /\ Cardinality(Ahead(q, y)) >= k
      /\ y # r => Precedes(q, r, y) /\ Cardinality(Ahead(q, y)) = k
  BY <1>6
<1>8. Cardinality(Ahead(q, x)) \in Nat /\ Cardinality(Ahead(q, y)) \in Nat
  BY <1>5, <1>7
<1>9. CASE x = r
  <2>1. Cardinality(Ahead(q, x)) < Cardinality(Ahead(q, y)) /\ Cardinality(Ahead(q, y)) = k
    BY <1>1, <1>7, <1>9, RankMono
  <2> QED
    BY <1>7, <1>8, <2>1
<1>10. CASE y = r
  <2>1. Cardinality(Ahead(q, y)) < Cardinality(Ahead(q, x)) /\ Cardinality(Ahead(q, x)) = k
    BY <1>1, <1>7, <1>10, RankMono
  <2> QED
    BY <1>7, <1>8, <2>1
<1>11. CASE x # r /\ y # r
  <2>1. Cardinality(Ahead(q, x)) = k /\ Cardinality(Ahead(q, y)) = k
    BY <1>7, <1>11
  <2>2. Precedes(q, x, y) \/ Precedes(q, y, x)
    BY <1>1, <1>2, <1>7, PrecedesOrder
  <2>3. Cardinality(Ahead(q, x)) < Cardinality(Ahead(q, y))
        \/ Cardinality(Ahead(q, y)) < Cardinality(Ahead(q, x))
    BY <1>1, <1>7, <2>2, RankMono
  <2> QED
    BY <1>8, <2>1, <2>3
<1> QED
  BY <1>9, <1>10, <1>11

\* A step that leaves the visible rows and the walk alone.
LEMMA SameHolds ==
  ASSUME IInv, UNCHANGED walk, Visible' = Visible,
         \A i \in Visible : rows'[i] = rows[i]
  PROVE  PassedAreShifted' /\ QuietShowsAll'
<1>1. TypeOK /\ PassedAreShifted /\ QuietShowsAll
  BY DEF IInv
<1> SUFFICES ASSUME walk.page > 0, Strict'
             PROVE  PassedAreShifted' /\ QuietShowsAll'
  BY DEF PassedAreShifted, QuietShowsAll
<1>2. PICK q \in Query : q = walk.query
  BY <1>1, WalkCases DEF Walk
<1>3. walk'.query = q
  BY <1>2
<1>4. q.column \in {"id", "created_at", "status"}
  BY BoundAssumption DEF Query
<1>5. Matching(q)' = Matching(q) /\ Matching(q) \subseteq Visible
  BY DEF Matching
<1>6. \A i \in Visible : SortKey(q, i)' = SortKey(q, i)
  BY <1>4 DEF SortKey
<1>7. StrictOrder(q)' <=> StrictOrder(q)
  BY <1>6 DEF StrictOrder
<1>8. \A i \in Visible : Ahead(q, i)' = Ahead(q, i)
  BY <1>5, <1>6 DEF Ahead
<1>9. Orders(q)' = Orders(q)
  <2>1. ASSUME NEW s \in SetToSeqs(Matching(q)), NEW n \in DOMAIN s
        PROVE  s[n] \in Visible
    BY <1>5 DEF SetToSeqs
  <2>2. \A s \in SetToSeqs(Matching(q)) : \A m, n \in DOMAIN s :
          SortKey(q, s[m])' = SortKey(q, s[m]) /\ SortKey(q, s[n])' = SortKey(q, s[n])
    BY <1>6, <2>1
  <2> QED
    BY <1>5, <2>2 DEF Orders
<1>10. Strict
  BY <1>2, <1>3, <1>7, QueryNext DEF Strict
<1>11. PassedAreShifted'
  <2>1. PICK k : k = walk.page * q.size
    OBVIOUS
  <2>2. PICK unshown : unshown = Unshown
    OBVIOUS
  <2>3. Unshown' = unshown
    BY <2>2 DEF Unshown, ShownRows
  <2>4. Passed' = PassedOf(q, unshown, k)'
    BY <1>3, <2>1, <2>3, PassedNext
  <2>5. Passed = PassedOf(q, unshown, k)
    BY <1>2, <2>1, <2>2, PassedForm
  <2>6. PassedOf(q, unshown, k)' = PassedOf(q, unshown, k)
    BY <1>5, <1>8 DEF PassedOf
  <2>7. Finished' <=> Finished
    BY DEF Finished
  <2>8. /\ Cardinality(Passed) <= walk.left
        /\ Finished => Cardinality(Unshown) <= walk.left
    BY <1>1, <1>10 DEF PassedAreShifted
  <2> QED
    BY <2>2, <2>3, <2>4, <2>5, <2>6, <2>7, <2>8 DEF PassedAreShifted
<1>12. QuietShowsAll'
  <2> SUFFICES ASSUME walk.quiet
               PROVE  QuietShowsAll'
    BY DEF QuietShowsAll
  <2>1. Orders(walk.query)' = Orders(walk.query) /\ Matching(walk.query)' = Matching(walk.query)
    BY <1>2, <1>3, <1>5, <1>9, QueryNext
  <2>2. /\ walk.from = Matching(walk.query)
        /\ \E s \in Orders(walk.query) :
              /\ walk.pages = TotalPages(Len(s), walk.query.size)
              /\ walk.shown = SubSeq(s, 1, Lesser(walk.page * walk.query.size, Len(s)))
    BY <1>1, <1>10 DEF QuietShowsAll
  <2> QED
    BY <2>1, <2>2 DEF QuietShowsAll
<1> QED
  BY <1>11, <1>12

\* A change that the walk notices: rows come into the list, or one leaves it and
\* is counted.
LEMMA ChangeHolds ==
  ASSUME IInv, TypeOK', DOMAIN rows \subseteq DOMAIN rows', Visible \subseteq Visible',
         \A i \in DOMAIN rows : rows'[i].created = rows[i].created,
         walk \in Walk, NEW q \in Query, q = walk.query,
         \/ /\ walk' = [walk EXCEPT !.quiet = FALSE]
            /\ Matching(q) \subseteq Matching(q)'
         \/ /\ walk' = [walk EXCEPT !.quiet = FALSE, !.left = walk.left + 1]
            /\ \E r : Matching(q)' = Matching(q) \ {r}
  PROVE  PassedAreShifted' /\ QuietShowsAll'
<1>1. TypeOK /\ PassedAreShifted
  BY DEF IInv
<1>2. /\ walk'.page = walk.page /\ walk'.pages = walk.pages /\ walk'.query = q
      /\ walk'.shown = walk.shown /\ walk'.from = walk.from /\ ~walk'.quiet
  BY WalkChanged
<1>3. QuietShowsAll'
  BY <1>2 DEF QuietShowsAll
<1> SUFFICES ASSUME walk.page > 0, Strict'
             PROVE  /\ Cardinality(Passed') <= walk'.left
                    /\ Finished' => Cardinality(Unshown') <= walk'.left
  BY <1>2, <1>3 DEF PassedAreShifted
<1>4. StrictOrder(q)'
  BY <1>2, QueryNext
<1>5. StrictOrder(q) /\ Strict
  BY <1>1, <1>4, OrderKept DEF Strict
<1>6. PICK unshown : unshown = Unshown
  OBVIOUS
<1>7. unshown \subseteq Visible /\ IsFiniteSet(unshown) /\ IsFiniteSet(Passed)
      /\ Cardinality(Passed) \in Nat /\ Cardinality(unshown) \in Nat /\ walk.left \in Nat
  BY <1>1, <1>6, UnshownFacts DEF Walk
<1>8. PICK k \in Nat : k = walk.page * q.size
  <2>1. walk.page \in Nat /\ q.size \in Nat
    BY <1>1, QueryFacts DEF Walk
  <2> QED
    BY <2>1, NextOffset
<1>9. Unshown' = unshown
  BY <1>2, <1>6 DEF Unshown, ShownRows
<1>10. Passed' = PassedOf(q, unshown, k)'
  BY <1>2, <1>8, <1>9, PassedNext
<1>11. Passed = PassedOf(q, unshown, k)
  BY <1>6, <1>8, PassedForm
<1>12. /\ Cardinality(Passed) <= walk.left
       /\ Finished => Cardinality(unshown) <= walk.left
  BY <1>1, <1>5, <1>6 DEF PassedAreShifted
<1>13. Finished' => Finished
  BY <1>2 DEF Finished
<1>14. CASE /\ walk' = [walk EXCEPT !.quiet = FALSE]
            /\ Matching(q) \subseteq Matching(q)'
  <2>1. walk'.left = walk.left
    BY <1>14, WalkChanged
  <2>2. Passed' \subseteq Passed
    BY <1>1, <1>4, <1>7, <1>10, <1>11, <1>14, MoreRows
  <2>3. Cardinality(Passed') <= Cardinality(Passed) /\ Cardinality(Passed') \in Nat
    BY <1>7, <2>2, FS_Subset, FS_CardinalityType
  <2> QED
    BY <1>7, <1>9, <1>12, <1>13, <2>1, <2>3
<1>15. CASE /\ walk' = [walk EXCEPT !.quiet = FALSE, !.left = walk.left + 1]
            /\ \E r : Matching(q)' = Matching(q) \ {r}
  <2>1. walk'.left = walk.left + 1
    BY <1>15, WalkChanged
  <2>2. PICK r : Matching(q)' = Matching(q) \ {r}
    BY <1>15
  <2>3. \A x, y \in PassedOf(q, unshown, k)' \ PassedOf(q, unshown, k) : x = y
    BY <1>1, <1>4, <1>7, <2>2, OneRowLess
  <2>4. Cardinality(Passed') <= Cardinality(Passed) + 1 /\ Cardinality(Passed') \in Nat
    BY <1>7, <1>10, <1>11, <2>3, OneMoreAtMost, FS_CardinalityType
  <2> QED
    BY <1>7, <1>9, <1>12, <1>13, <2>1, <2>4
<1> QED
  BY <1>14, <1>15

\* Without a walk there is nothing to show.
LEMMA NoWalkHolds ==
  ASSUME walk' = NoWalk
  PROVE  PassedAreShifted' /\ QuietShowsAll'
BY DEF NoWalk, PassedAreShifted, QuietShowsAll

\* A new row is not visible before its commit.
LEMMA InsertHolds ==
  ASSUME IInv, Insert
  PROVE  PassedAreShifted' /\ QuietShowsAll'
<1> DEFINE Row == [created : 0 .. MaxTime, status : Status]
           row == [created |-> now, status |-> "FLUSHED"]
<1>1. rows \in Seq(Row) /\ now \in 0 .. MaxTime
  BY DEF IInv, TypeOK
<1>2. row \in Row
  BY <1>1 DEF Status
<1>3. rows' = Append(rows, row) /\ walk' = walk
  BY DEF Insert
<1>4. row.status = "FLUSHED"
  OBVIOUS
<1> HIDE DEF Row, row
<1>5. /\ Len(rows) \in Nat /\ DOMAIN rows = 1 .. Len(rows)
      /\ rows' \in Seq(Row) /\ Len(rows') = Len(rows) + 1
      /\ \A i \in 1 .. Len(rows) : rows'[i] = rows[i]
      /\ rows'[Len(rows) + 1] = row
  BY <1>1, <1>2, <1>3, AppendProperties, LenProperties
<1>6. DOMAIN rows' = 1 .. Len(rows) + 1
  BY <1>5, LenProperties
<1>7. Visible' = Visible /\ \A i \in Visible : rows'[i] = rows[i]
  BY <1>4, <1>5, <1>6 DEF Visible
<1> QED
  BY <1>3, <1>7, SameHolds

\* A row with a new status, in the lists.
LEMMA NewStatus ==
  ASSUME TypeOK, NEW i \in DOMAIN rows, NEW status, rows' = [rows EXCEPT ![i].status = status]
  PROVE  /\ DOMAIN rows' = DOMAIN rows
         /\ \A j \in DOMAIN rows : j # i => rows'[j] = rows[j]
         /\ rows'[i].status = status
<1>1. DOMAIN rows = 1 .. Len(rows) /\ rows[i] \in [created : 0 .. MaxTime, status : Status]
  BY LenProperties, ElementOfSeq DEF TypeOK
<1> QED
  BY <1>1

\* A commit, a decision, or a row that is active again.
LEMMA StatusHolds ==
  ASSUME IInv, TypeOK', NEW i \in DOMAIN rows, Settle(i) \/ Close(i) \/ Reopen(i)
  PROVE  PassedAreShifted' /\ QuietShowsAll'
<1>1. TypeOK
  BY DEF IInv
<1>2. /\ DOMAIN rows \subseteq DOMAIN rows'
      /\ \A j \in DOMAIN rows : rows'[j].created = rows[j].created
      /\ Visible \subseteq Visible'
  BY <1>1, TableSteps
<1>3. CASE walk = NoWalk
  <2>1. walk' = NoWalk
    BY <1>1, <1>3, NoticedFacts DEF Settle, Close, Reopen
  <2> QED
    BY <2>1, NoWalkHolds
<1>4. CASE walk \in Walk
  <2>1. PICK q \in Query : q = walk.query
    BY <1>4 DEF Walk
  <2>2. ASSUME rows[i].status # "OPEN", rows' = [rows EXCEPT ![i].status = "OPEN"], Noticed(FALSE)
        PROVE  PassedAreShifted' /\ QuietShowsAll'
    <3>1. walk' = [walk EXCEPT !.quiet = FALSE]
      BY <1>1, <1>4, <2>2, NoticedFacts
    <3>2. Matching(q) \subseteq Matching(q)'
      <4>1. /\ DOMAIN rows' = DOMAIN rows /\ rows'[i].status = "OPEN"
            /\ \A j \in DOMAIN rows : j # i => rows'[j] = rows[j]
        BY <1>1, <2>2, NewStatus
      <4> QED
        BY <1>2, <4>1 DEF Matching, Visible
    <3> QED
      BY <1>2, <1>4, <2>1, <3>1, <3>2, ChangeHolds
  <2>3. CASE Settle(i)
    <3>1. CASE rows' = [rows EXCEPT ![i].status = "GONE"] /\ UNCHANGED walk
      <4>1. rows[i].status = "FLUSHED"
        BY <2>3 DEF Settle
      <4>2. /\ DOMAIN rows' = DOMAIN rows /\ rows'[i].status = "GONE"
            /\ \A j \in DOMAIN rows : j # i => rows'[j] = rows[j]
        BY <1>1, <3>1, NewStatus
      <4>3. Visible' = Visible /\ \A j \in Visible : rows'[j] = rows[j]
        BY <4>1, <4>2 DEF Visible
      <4> QED
        BY <3>1, <4>3, SameHolds
    <3> QED
      BY <2>2, <2>3, <3>1 DEF Settle
  <2>4. CASE Reopen(i)
    BY <2>2, <2>4 DEF Reopen
  <2>5. CASE Close(i)
    <3>1. /\ DOMAIN rows' = DOMAIN rows /\ rows'[i].status = "CLOSED"
          /\ \A j \in DOMAIN rows : j # i => rows'[j] = rows[j]
      BY <1>1, <2>5, NewStatus DEF Close, Outcome
    <3>2. Noticed(TRUE) /\ rows[i].status = "OPEN"
      BY <2>5 DEF Close
    <3>3. Visible' = Visible
      BY <3>1, <3>2 DEF Visible
    <3>4. CASE q.openOnly
      <4>1. Matching(q)' = Matching(q) \ {i}
        BY <3>1, <3>3, <3>4 DEF Matching, Visible
      <4>2. walk' = [walk EXCEPT !.quiet = FALSE, !.left = walk.left + 1]
        BY <1>1, <1>4, <2>1, <3>2, <3>4, NoticedFacts
      <4> QED
        BY <1>2, <1>4, <2>1, <4>1, <4>2, ChangeHolds
    <3>5. CASE ~q.openOnly
      <4>1. Matching(q) \subseteq Matching(q)'
        BY <3>3, <3>5 DEF Matching
      <4>2. walk' = [walk EXCEPT !.quiet = FALSE]
        BY <1>1, <1>4, <2>1, <3>2, <3>5, NoticedFacts
      <4> QED
        BY <1>2, <1>4, <2>1, <4>1, <4>2, ChangeHolds
    <3> QED
      BY <3>4, <3>5
  <2> QED
    BY <2>3, <2>4, <2>5
<1> QED
  BY <1>1, <1>3, <1>4, WalkCases

LEMMA NextInv == IInv /\ [Next]_vars => IInv'
<1> SUFFICES ASSUME IInv, [Next]_vars
             PROVE  IInv'
  OBVIOUS
<1>1. TypeOK /\ TypeOK'
  BY NextTypes DEF IInv
<1>2. CASE \E q \in Query : FirstPage(q)
  BY <1>1, <1>2, FirstPageHolds DEF IInv
<1>3. CASE NextPage
  BY <1>1, <1>3, NextPageHolds DEF IInv
<1>4. CASE Leave
  BY <1>1, <1>4, NoWalkHolds DEF IInv, Leave
<1>5. CASE Insert
  BY <1>1, <1>5, InsertHolds DEF IInv
<1>6. CASE \E i \in DOMAIN rows : Settle(i) \/ Close(i) \/ Reopen(i)
  BY <1>1, <1>6, StatusHolds DEF IInv
<1>7. CASE Tick \/ UNCHANGED vars
  <2>1. rows' = rows /\ walk' = walk
    BY <1>7 DEF Tick, vars
  <2>2. Visible' = Visible
    BY <2>1 DEF Visible
  <2> QED
    BY <1>1, <2>1, <2>2, SameHolds DEF IInv
<1> QED
  BY <1>2, <1>3, <1>4, <1>5, <1>6, <1>7 DEF Next

-----------------------------------------------------------------------------
(* The theorems.                                                           *)

\* The inductive invariant: types, walks that have passed no more unshown rows
\* than rows left the list, and quiet walks that show its first rows.
THEOREM Invariance == Spec => []IInv
<1>1. Init => IInv
  BY InitTypes, NoWalkHolds DEF Init, IInv, NoWalk, PassedAreShifted, QuietShowsAll
<1> QED
  BY <1>1, NextInv, PTL DEF Spec

\* The rows, the clock and the walk have their types.
THEOREM TypeCorrect == Spec => []TypeOK
<1>1. IInv => TypeOK
  BY DEF IInv
<1> QED
  BY <1>1, Invariance, PTL

\* A walk in a strict order misses no more rows than left the list meanwhile, for
\* lists, pages and walks of any length.
THEOREM MissedCorrect == Spec => []MissedAreShifted
<1>1. IInv => MissedAreShifted
  <2> SUFFICES ASSUME IInv, Finished, Strict
               PROVE  Cardinality((walk.from \cap Matching(walk.query)) \ ShownRows) <= walk.left
    BY DEF MissedAreShifted
  <2>1. TypeOK /\ PassedAreShifted /\ walk.page > 0
    BY DEF IInv, Finished
  <2>2. walk \in Walk
    BY <2>1, WalkCases
  <2>3. IsFiniteSet(Unshown) /\ Cardinality(Unshown) <= walk.left /\ walk.left \in Nat
    BY <2>1, <2>2, UnshownFacts DEF PassedAreShifted, Walk
  <2>4. (walk.from \cap Matching(walk.query)) \ ShownRows \in SUBSET Unshown
    BY DEF Unshown
  <2> QED
    BY <2>3, <2>4, FS_Subset, FS_CardinalityType
<1> QED
  BY <1>1, Invariance, PTL

\* A walk during which nothing changes shows exactly the list, whatever the size
\* of the pages and of the last one.
THEOREM QuietCorrect == Spec => []QuietWalkIsExact
<1>1. IInv => QuietWalkIsExact
  <2> SUFFICES ASSUME IInv, Finished, Strict, walk.quiet
               PROVE  walk.shown \in Orders(walk.query)
    BY DEF QuietWalkIsExact
  <2>1. TypeOK /\ QuietShowsAll /\ walk.page > 0
    BY DEF IInv, Finished
  <2>2. walk \in Walk
    BY <2>1, WalkCases
  <2>3. PICK q \in Query : q = walk.query
    BY <2>2 DEF Walk
  <2>4. PICK s \in Orders(q) :
          /\ walk.pages = TotalPages(Len(s), q.size)
          /\ walk.shown = SubSeq(s, 1, Lesser(walk.page * q.size, Len(s)))
    BY <2>1, <2>3 DEF QuietShowsAll
  <2>5. PICK page \in Nat \ {0} : page = walk.page
    BY <2>2 DEF Walk
  <2>6. Len(s) \in Nat /\ s \in Seq(Matching(q)) /\ q.size \in Nat \ {0} /\ page * q.size \in Nat
    BY <2>1, PageFacts, QueryFacts, NextOffset
  <2>7. page >= TotalPages(Len(s), q.size)
    BY <2>4, <2>5 DEF Finished
  <2>8. page * q.size >= Len(s)
    BY <2>6, <2>7, PagesCover
  <2>9. Lesser(page * q.size, Len(s)) = Len(s)
    BY <2>6, <2>8 DEF Lesser
  <2>10. walk.shown = s
    BY <2>4, <2>5, <2>6, <2>9, SubSeqFull
  <2> QED
    BY <2>3, <2>10
<1> QED
  BY <1>1, Invariance, PTL

=============================================================================
