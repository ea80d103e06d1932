----------------------------- MODULE PagesProofs -----------------------------
(***************************************************************************)
(* The listings are complete and repeat nothing, for any numbers of rows   *)
(* and any page sizes.  The lemmas are about a page: which rows the first  *)
(* n of a set are, when they are all of it, and where its last one is.     *)
(***************************************************************************)
EXTENDS Pages, FiniteSetTheorems, WellFoundedInduction, TLAPS

LEMMA RowSets ==
  ASSUME NEW S, S \subseteq Rows
  PROVE  /\ IsFiniteSet(S) /\ Cardinality(S) \in Nat /\ S \subseteq Nat
         /\ \A T \in SUBSET S :
               /\ Cardinality(T) \in Nat /\ Cardinality(T) <= Cardinality(S)
               /\ Cardinality(T) = Cardinality(S) => T = S
<1>1. IsFiniteSet(Rows)
  BY FS_Interval, PagesAssumption DEF Rows
<1>2. IsFiniteSet(S)
  BY <1>1, FS_Subset
<1>3. Cardinality(S) \in Nat
  BY <1>2, FS_CardinalityType
<1>4. S \subseteq Nat
  BY PagesAssumption DEF Rows
<1>5. ASSUME NEW T \in SUBSET S
      PROVE  /\ Cardinality(T) \in Nat /\ Cardinality(T) <= Cardinality(S)
             /\ Cardinality(T) = Cardinality(S) => T = S
  BY <1>2, FS_Subset, FS_CardinalityType
<1> QED
  BY <1>2, <1>3, <1>4, <1>5

\* A set of rows has a first one ...
LEMMA FirstRow ==
  ASSUME NEW S, S \subseteq Rows, S # {}
  PROVE  \E m \in S : \A i \in S : m <= i
<1> DEFINE R == OpToRel(<, Nat)
<1>1. S \subseteq Nat
  BY RowSets
<1>2. PICK m \in S : \A i \in S : <<i, m>> \notin R
  <2>1. IsWellFoundedOn(R, Nat)
    BY NatLessThanWellFounded
  <2> HIDE DEF R
  <2> QED
    BY <1>1, <2>1, WFMin
<1>3. ASSUME NEW i \in S PROVE m <= i
  <2>1. ~(i < m)
    BY <1>1, <1>2 DEF OpToRel
  <2> QED
    BY <1>1, <2>1
<1> QED
  BY <1>3

\* ... and a last one: the first of the numbers that no row of it exceeds.
LEMMA LastRow ==
  ASSUME NEW S, S \subseteq Rows, S # {}
  PROVE  LastOf(S) \in S /\ \A i \in S : i <= LastOf(S)
<1>1. S \subseteq Nat /\ MaxRows \in Nat /\ \A i \in S : i <= MaxRows /\ i \in Rows
  BY PagesAssumption DEF Rows
<1> DEFINE U == {n \in Rows : \A i \in S : i <= n}
<1>2. MaxRows \in U
  <2>1. PICK i \in S : TRUE
    OBVIOUS
  <2>2. MaxRows \in Rows
    BY <1>1, <2>1 DEF Rows
  <2> QED
    BY <1>1, <2>2
<1>3. PICK m \in U : \A n \in U : m <= n
  <2>1. U \subseteq Rows /\ U # {}
    BY <1>2
  <2> HIDE DEF U
  <2> QED
    BY <2>1, FirstRow
<1>4. m \in Rows /\ m \in Nat /\ \A i \in S : i <= m
  BY <1>3, PagesAssumption DEF Rows
<1>5. m \in S
  <2> SUFFICES ASSUME m \notin S PROVE FALSE
    OBVIOUS
  <2>1. \A i \in S : i <= m - 1
    BY <1>1, <1>4
  <2>2. m - 1 \in Rows
    <3>1. PICK i \in S : TRUE
      OBVIOUS
    <3>2. i \in Nat /\ 1 <= i /\ i <= m - 1
      BY <1>1, <2>1, <3>1 DEF Rows
    <3>3. m <= MaxRows
      BY <1>1, <1>4 DEF Rows
    <3> QED
      BY <1>1, <1>4, <3>2, <3>3 DEF Rows
  <2>3. m - 1 \in U
    BY <2>1, <2>2
  <2>4. m <= m - 1
    <3> HIDE DEF U
    <3> QED
      BY <1>3, <2>3
  <2> QED
    BY <1>4, <2>4
<1> QED
  BY <1>4, <1>5 DEF LastOf

\* A page leaves out no row before its last ...
LEMMA FirstRowsClosed ==
  ASSUME NEW S, S \subseteq Rows, NEW n \in Nat,
         NEW j \in FirstRows(S, n), NEW i \in S, i <= j
  PROVE  i \in FirstRows(S, n)
<1> DEFINE Before(m) == {k \in S : k < m}
<1>1. S \subseteq Nat
  BY RowSets
<1>2. Before(i) \subseteq Before(j) /\ Before(j) \subseteq Rows
  <2>1. i \in Nat /\ j \in Nat
    BY <1>1 DEF FirstRows
  <2>2. \A k \in S : k \in Nat /\ (k < i => k < j)
    BY <1>1, <2>1
  <2> QED
    BY <2>2
<1>3. Cardinality(Before(i)) <= Cardinality(Before(j))
      /\ Cardinality(Before(i)) \in Nat /\ Cardinality(Before(j)) \in Nat
  <2> HIDE DEF Before
  <2> QED
    BY <1>2, RowSets
<1>4. Cardinality(Before(j)) < n
  BY DEF FirstRows
<1>5. Cardinality(Before(i)) < n
  <2> HIDE DEF Before
  <2> QED
    BY <1>3, <1>4
<1> QED
  BY <1>5 DEF FirstRows

\* ... it is everything when there are no more rows than fit ...
LEMMA AllFit ==
  ASSUME NEW S, S \subseteq Rows, NEW n \in Nat, Cardinality(S) <= n
  PROVE  FirstRows(S, n) = S
<1> SUFFICES ASSUME NEW i \in S PROVE i \in FirstRows(S, n)
  BY DEF FirstRows
<1> DEFINE T == {k \in S : k < i}
<1>1. i \in Nat
  BY RowSets
<1>2. T \subseteq S /\ T # S
  BY <1>1
<1>3. Cardinality(T) < n
  <2> HIDE DEF T
  <2>1. /\ Cardinality(T) \in Nat /\ Cardinality(T) <= Cardinality(S)
        /\ Cardinality(T) # Cardinality(S) /\ Cardinality(S) \in Nat
    BY <1>2, RowSets
  <2> QED
    BY <2>1
<1> QED
  BY <1>3 DEF FirstRows

\* ... and when it is not full.
LEMMA NotFull ==
  ASSUME NEW S, S \subseteq Rows, NEW n \in Nat, Cardinality(FirstRows(S, n)) < n
  PROVE  FirstRows(S, n) = S
<1> DEFINE F == FirstRows(S, n)
           Out == S \ F
<1>1. F \subseteq S /\ F \subseteq Rows
  BY DEF FirstRows
<1> SUFFICES ASSUME Out # {} PROVE FALSE
  BY <1>1
<1>2. PICK i \in Out : \A k \in Out : i <= k
  <2>1. Out \subseteq Rows
    OBVIOUS
  <2> HIDE DEF Out
  <2> QED
    BY <2>1, FirstRow
<1>3. S \subseteq Nat
  BY RowSets
<1> DEFINE T == {k \in S : k < i}
<1>4. T \subseteq F
  <2> SUFFICES ASSUME NEW k \in S, k < i, k \notin F PROVE FALSE
    OBVIOUS
  <2>1. i <= k
    BY <1>2
  <2>2. i \in Nat /\ k \in Nat
    BY <1>2, <1>3
  <2> QED
    BY <2>1, <2>2
<1>5. Cardinality(T) < n
  <2> HIDE DEF T, F
  <2>1. Cardinality(T) \in Nat /\ Cardinality(T) <= Cardinality(F) /\ Cardinality(F) \in Nat
    BY <1>1, <1>4, RowSets
  <2>2. Cardinality(F) < n
    BY DEF F
  <2> QED
    BY <2>1, <2>2
<1> QED
  BY <1>2, <1>5 DEF FirstRows

-----------------------------------------------------------------------------
(* The invariant *)

ReaderSet == [pc     : {"first", "next", "done", "failed"},
              cursor : 0 .. MaxRows,
              shown  : [Rows -> 0 .. 2]]

LEMMA RowNumbers == \A i \in Rows : i \in Nat /\ i # 0 /\ i <= MaxRows
BY PagesAssumption DEF Rows

LEMMA InitPages == PagesInit => PagesInv
BY PagesAssumption, RowNumbers
DEF PagesInit, PagesInv, PagesTypeOK, NoRepeat, PagesComplete, ReadUpTo

\* A writer: what it makes visible behind the cursor is late.
LEMMA WriteInv ==
  ASSUME PagesInv, NEW i \in Rows, Write(i)
  PROVE  PagesInv'
<1>1. /\ UNCHANGED <<kind, reader>>
      /\ row' \in [Rows -> {"none", "open", "there", "gone"}]
      /\ late \subseteq late' /\ late' \subseteq Rows
  BY DEF Write, Flush, CommitRow, RollbackRow, AddLetter, Leave, Appears, PagesInv, PagesTypeOK
<1>2. ASSUME NEW k \in Rows, row'[k] = "there",
             reader.pc = "done" \/ (reader.pc = "next" /\ k <= reader.cursor)
      PROVE  row[k] = "there" \/ k \in late'
  BY <1>2 DEF Write, Flush, CommitRow, RollbackRow, AddLetter, Leave, Appears,
     PagesInv, PagesTypeOK
<1>3. PagesTypeOK' /\ NoRepeat'
  BY <1>1 DEF PagesInv, PagesTypeOK, NoRepeat
<1>4. PagesComplete'
  BY <1>1, <1>2 DEF PagesInv, PagesComplete
<1>5. reader.pc = "first" => reader.cursor = 0
  BY DEF PagesInv
<1>6. ASSUME reader.pc \in {"first", "next"} PROVE ReadUpTo(reader.cursor)'
  <2>1. ASSUME NEW k \in Rows, row'[k] = "there", k <= reader.cursor
        PROVE  reader.shown[k] > 0 \/ k \in late'
    BY <1>1, <1>2, <1>5, <1>6, <2>1, RowNumbers DEF PagesInv, ReadUpTo
  <2> QED
    BY <1>1, <1>6, <2>1 DEF PagesInv, ReadUpTo
<1> QED
  BY <1>1, <1>3, <1>4, <1>5, <1>6 DEF PagesInv

\* A page shows each of its rows once more, and they all come after the cursor.
LEMMA ShowOnce ==
  ASSUME PagesInv, reader.pc \in {"first", "next"},
         NEW items, items \subseteq AfterCursor
  PROVE  /\ Show(items) \in [Rows -> 0 .. 2]
         /\ \A i \in Rows : Show(items)[i] <= 1
         /\ \A i \in Rows : Show(items)[i] > 0 <=> reader.shown[i] > 0 \/ i \in items
<1>1. \A i \in Rows : reader.shown[i] \in 0 .. 2 /\ reader.shown[i] <= 1
  BY DEF PagesInv, PagesTypeOK, NoRepeat
<1>2. ASSUME NEW i \in items PROVE i \in Rows /\ reader.shown[i] = 0
  <2>1. i \in Rows /\ i > reader.cursor
    BY DEF AfterCursor
  <2>2. reader.cursor \in Nat /\ i \in Nat
    BY <2>1, RowNumbers, PagesAssumption DEF PagesInv, PagesTypeOK
  <2>3. ~(reader.shown[i] > 0)
    BY <2>1, <2>2 DEF PagesInv, ReadUpTo
  <2> QED
    BY <1>1, <2>1, <2>3
<1> QED
  BY <1>1, <1>2 DEF Show

\* A page that ends the listing shows what is left ...
LEMMA StopInv ==
  ASSUME PagesInv, reader.pc \in {"first", "next"}, UNCHANGED <<kind, row, late>>,
         Stop(AfterCursor)
  PROVE  PagesInv'
<1>1. /\ reader' \in ReaderSet /\ reader'.pc = "done" /\ reader'.cursor = reader.cursor
      /\ reader'.shown = Show(AfterCursor)
  BY ShowOnce DEF Stop, PagesInv, PagesTypeOK, ReaderSet
<1>2. reader.cursor \in 0 .. MaxRows /\ MaxRows \in Nat
  BY PagesAssumption DEF PagesInv, PagesTypeOK
<1>3. PagesTypeOK'
  <2>1. reader.cursor # 0 => reader.cursor \in Rows /\ reader.shown[reader.cursor] > 0
    BY <1>2 DEF PagesInv, PagesTypeOK, Rows
  <2>2. reader'.cursor # 0 => reader'.shown[reader'.cursor] > 0
    BY <1>1, <2>1, ShowOnce
  <2> QED
    BY <1>1, <2>2 DEF PagesInv, PagesTypeOK, ReaderSet
<1>4. NoRepeat'
  BY <1>1, ShowOnce DEF NoRepeat
<1>5. PagesComplete'
  <2>1. ASSUME NEW i \in Rows, row[i] = "there"
        PROVE  Show(AfterCursor)[i] > 0 \/ i \in late
    <3>1. CASE i <= reader.cursor
      BY <2>1, <3>1, ShowOnce DEF PagesInv, ReadUpTo
    <3>2. CASE i > reader.cursor
      BY <2>1, <3>2, ShowOnce DEF AfterCursor
    <3> QED
      BY <1>2, <3>1, <3>2, RowNumbers
  <2> QED
    BY <1>1, <2>1 DEF PagesComplete
<1> QED
  BY <1>1, <1>3, <1>4, <1>5 DEF PagesInv

\* ... and another moves the cursor to its last row.
LEMMA GoOnInv ==
  ASSUME PagesInv, reader.pc \in {"first", "next"}, UNCHANGED <<kind, row, late>>,
         NEW items, items \subseteq AfterCursor, items # {},
         \A j \in items : \A i \in AfterCursor : i <= j => i \in items,
         GoOn(items, LastOf(items))
  PROVE  PagesInv'
<1> DEFINE last == LastOf(items)
<1>1. /\ last \in items /\ last \in Rows /\ last > reader.cursor
      /\ \A i \in items : i <= last
  <2>1. AfterCursor \subseteq Rows
    BY DEF AfterCursor
  <2>2. last \in items /\ \A i \in items : i <= last
    BY <2>1, LastRow
  <2> HIDE DEF last
  <2> QED
    BY <2>1, <2>2 DEF AfterCursor
<1>2. last \in Nat /\ last # 0 /\ last \in 0 .. MaxRows /\ reader.cursor \in Nat
  <2> HIDE DEF last
  <2> QED
    BY <1>1, RowNumbers, PagesAssumption DEF PagesInv, PagesTypeOK
<1>3. reader' = [pc |-> "next", cursor |-> last, shown |-> Show(items)]
  BY DEF GoOn
<1> HIDE DEF last
<1>4. PagesTypeOK'
  BY <1>1, <1>2, <1>3, ShowOnce DEF PagesInv, PagesTypeOK
<1>5. NoRepeat'
  BY <1>3, ShowOnce DEF NoRepeat
<1>6. ReadUpTo(last)'
  <2>1. ASSUME NEW i \in Rows, Show(items)[i] > 0 PROVE i <= last
    <3>1. CASE i \in items
      BY <1>1, <3>1
    <3>2. CASE i \notin items
      <4>1. reader.shown[i] > 0
        BY <2>1, <3>2, ShowOnce
      <4>2. i <= reader.cursor
        BY <4>1 DEF PagesInv, ReadUpTo
      <4>3. last > reader.cursor /\ i \in Nat
        BY <1>1, RowNumbers
      <4> QED
        BY <1>2, <4>2, <4>3
    <3> QED
      BY <3>1, <3>2
  <2>2. ASSUME NEW i \in Rows, row[i] = "there", i <= last
        PROVE  Show(items)[i] > 0 \/ i \in late
    <3>1. CASE i <= reader.cursor
      BY <2>2, <3>1, ShowOnce DEF PagesInv, ReadUpTo
    <3>2. CASE i > reader.cursor
      BY <1>1, <2>2, <3>2, ShowOnce DEF AfterCursor
    <3> QED
      BY <1>2, <3>1, <3>2, RowNumbers
  <2> QED
    BY <1>3, <2>1, <2>2 DEF ReadUpTo
<1> QED
  BY <1>3, <1>4, <1>5, <1>6 DEF PagesInv, PagesComplete, ReadUpTo

LEMMA AfterIsRows == AfterCursor \subseteq Rows
BY DEF AfterCursor

LEMMA UsersPageInv ==
  ASSUME PagesInv, NEW limit \in Limits, UsersPage(limit)
  PROVE  PagesInv'
<1> DEFINE fetched == FirstRows(AfterCursor, limit + 1)
           items == FirstRows(fetched, limit)
<1>1. /\ reader.pc \in {"first", "next"} /\ UNCHANGED <<kind, row, late>>
      /\ limit \in Nat /\ limit + 1 \in Nat
  BY PagesAssumption DEF UsersPage, Reading
<1>2. items \subseteq fetched /\ fetched \subseteq AfterCursor /\ fetched \subseteq Rows
  BY AfterIsRows DEF FirstRows
<1>3. CASE Cardinality(fetched) <= limit /\ Stop(items)
  <2>1. items = fetched
    <3> HIDE DEF fetched
    <3> QED
      BY <1>1, <1>2, <1>3, AllFit
  <2>2. fetched = AfterCursor
    <3>1. Cardinality(fetched) \in Nat
      <4> HIDE DEF fetched
      <4> QED
        BY <1>2, RowSets
    <3>2. Cardinality(fetched) < limit + 1
      <4> HIDE DEF fetched
      <4> QED
        BY <1>1, <1>3, <3>1
    <3> QED
      BY <1>1, <3>2, AfterIsRows, NotFull
  <2> HIDE DEF items, fetched
  <2> QED
    BY <1>1, <1>3, <2>1, <2>2, StopInv
<1>4. CASE items # {} /\ GoOn(items, LastOf(items))
  <2>1. ASSUME NEW j \in items, NEW i \in AfterCursor, i <= j PROVE i \in items
    <3>1. j \in fetched
      BY <1>2
    <3>2. i \in fetched
      BY <1>1, <2>1, <3>1, AfterIsRows, FirstRowsClosed
    <3> HIDE DEF fetched
    <3> QED
      BY <1>1, <1>2, <2>1, <3>2, FirstRowsClosed
  <2> HIDE DEF items, fetched
  <2> QED
    BY <1>1, <1>2, <1>4, <2>1, GoOnInv
<1> QED
  BY <1>3, <1>4 DEF UsersPage, NextCursor

LEMMA UsersPageFailsInv ==
  ASSUME PagesInv, NEW limit \in Limits, UsersPageFails(limit)
  PROVE  PagesInv'
BY DEF UsersPageFails, Reading, PagesInv, PagesTypeOK, NoRepeat, PagesComplete, ReadUpTo

\* A page of limit rows that goes on, or ends because it is not full.
LEMMA PlainPage ==
  ASSUME PagesInv, reader.pc \in {"first", "next"}, UNCHANGED <<kind, row, late>>,
         NEW limit \in Nat, NEW items, items = FirstRows(AfterCursor, limit),
         \/ Cardinality(items) < limit /\ Stop(items)
         \/ items # {} /\ GoOn(items, LastOf(items))
  PROVE  PagesInv'
<1>1. items \subseteq AfterCursor
  BY DEF FirstRows
<1>2. CASE Cardinality(items) < limit /\ Stop(items)
  BY <1>2, AfterIsRows, NotFull, StopInv
<1>3. CASE items # {} /\ GoOn(items, LastOf(items))
  <2>1. ASSUME NEW j \in items, NEW i \in AfterCursor, i <= j PROVE i \in items
    BY <2>1, AfterIsRows, FirstRowsClosed
  <2> QED
    BY <1>1, <1>3, <2>1, GoOnInv
<1> QED
  BY <1>2, <1>3

LEMMA OrdersPageInv ==
  ASSUME PagesInv, NEW limit \in Limits, OrdersPage(limit)
  PROVE  PagesInv'
<1> DEFINE items == FirstRows(AfterCursor, limit)
<1>1. /\ reader.pc \in {"first", "next"} /\ UNCHANGED <<kind, row, late>>
      /\ limit \in Nat /\ limit > 0
  BY PagesAssumption DEF OrdersPage, Reading
<1>2. \/ Cardinality(items) < limit /\ Stop(items)
      \/ items # {} /\ GoOn(items, LastOf(items))
  <2>1. Cardinality({}) = 0
    BY FS_EmptySet
  <2>2. \/ items = {} /\ Stop(items)
        \/ items # {} /\ GoOn(items, LastOf(items))
    BY DEF OrdersPage
  <2> HIDE DEF items
  <2> QED
    BY <1>1, <2>1, <2>2
<1> QED
  BY <1>1, <1>2, PlainPage

LEMMA LettersPageInv ==
  ASSUME PagesInv, NEW limit \in Limits, LettersPage(limit)
  PROVE  PagesInv'
<1> DEFINE items == FirstRows(AfterCursor, limit)
<1>1. /\ reader.pc \in {"first", "next"} /\ UNCHANGED <<kind, row, late>>
      /\ limit \in Nat /\ limit > 0
  BY PagesAssumption DEF LettersPage, Reading
<1>2. \/ Cardinality(items) < limit /\ Stop(items)
      \/ items # {} /\ GoOn(items, LastOf(items))
  <2>1. Cardinality({}) = 0
    BY FS_EmptySet
  <2>2. \/ Cardinality(items) < limit /\ Stop(items)
        \/ ~(Cardinality(items) < limit) /\ GoOn(items, LastOf(items))
    BY DEF LettersPage, IsLastPage
  <2> HIDE DEF items
  <2> QED
    BY <1>1, <2>1, <2>2
<1> QED
  BY <1>1, <1>2, PlainPage

\* Pages.tla, PagesInv: it is inductive.
THEOREM PagesInductive == PagesInv /\ [PagesNext]_pagesVars => PagesInv'
<1> SUFFICES ASSUME PagesInv, [PagesNext]_pagesVars PROVE PagesInv'
  OBVIOUS
<1>1. CASE \E i \in Rows : Write(i)
  BY <1>1, WriteInv
<1>2. CASE \E limit \in Limits : ReadPage(limit)
  BY <1>2, UsersPageInv, UsersPageFailsInv, OrdersPageInv, LettersPageInv DEF ReadPage
<1>3. CASE UNCHANGED pagesVars
  BY <1>3 DEF pagesVars, PagesInv, PagesTypeOK, NoRepeat, PagesComplete, ReadUpTo
<1> QED
  BY <1>1, <1>2, <1>3 DEF PagesNext

\* service.py:139-173, users/service.py:53-62, dlq_manager.py:11-35.  The cursor
\* parts what was shown from what is to come, between any two pages.
THEOREM PagesInvariance == PagesSpec => []PagesInv
BY InitPages, PagesInductive, PTL DEF PagesSpec

\* The same lines: when a listing ends, only rows that became visible behind
\* the cursor were missed, for any number of rows and any page sizes.
THEOREM CompleteHolds == PagesSpec => []PagesComplete
<1>1. PagesInv => PagesComplete
  BY DEF PagesInv
<1> QED
  BY <1>1, PagesInvariance, PTL

\* The same lines: no row is on two pages.
THEOREM NoRepeatHolds == PagesSpec => []NoRepeat
<1>1. PagesInv => NoRepeat
  BY DEF PagesInv
<1> QED
  BY <1>1, PagesInvariance, PTL
=============================================================================
