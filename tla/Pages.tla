-------------------------------- MODULE Pages --------------------------------
(***************************************************************************)
(* The paged listings: the users, the pending orders for an admin and the  *)
(* dead letters.  Each page is a query of its own, from the id where the   *)
(* page before it ended; the rows come and go in between.                  *)
(*                                                                         *)
(* A row of a table takes its id when it is flushed and is visible when    *)
(* its transaction commits, so ids become visible out of their order; a    *)
(* dead letter gets its id from Redis when it is added.  An order leaves   *)
(* the listing when it is paid, a dead letter when it is replayed or       *)
(* trimmed; users stay.                                                    *)
(***************************************************************************)
EXTENDS Naturals, FiniteSets

CONSTANTS
    Kinds,      \* the listings looked at: users, orders, letters
    MaxRows,    \* bound: ids
    Limits,     \* page sizes that are asked for
    LastCursor  \* CursorParams.cursor: le

Rows == 1 .. MaxRows

ASSUME PagesAssumption ==
    /\ Kinds \subseteq {"users", "orders", "letters"}
    /\ MaxRows \in Nat /\ Limits \subseteq Nat /\ LastCursor \in Nat

VARIABLES
    kind,    \* the listing that is read
    row,
    reader,  \* the client that reads page after page; shown: how often a row was (stops at 2)
    late     \* history: rows that became visible behind the reader's cursor

pagesVars == <<kind, row, reader, late>>

\* service.py:53-62, 151-173, dlq_manager.py:11-35.  A listing goes on from an
\* id that it has shown.
PagesTypeOK ==
    /\ kind \in Kinds
    /\ row \in [Rows -> {"none", "open", "there", "gone"}]
    /\ reader \in [pc     : {"first", "next", "done", "failed"},
                   cursor : 0 .. MaxRows,
                   shown  : [Rows -> 0 .. 2]]
    /\ late \subseteq Rows
    /\ reader.cursor # 0 => reader.shown[reader.cursor] > 0

PagesInit ==
    /\ kind \in Kinds
    /\ row = [i \in Rows |-> "none"]
    /\ reader = [pc |-> "first", cursor |-> 0, shown |-> [i \in Rows |-> 0]]
    /\ late = {}

-----------------------------------------------------------------------------
(* Writers *)

\* The next id.
IsNextId(i) == row[i] = "none" /\ \A k \in Rows : k < i => row[k] # "none"

Appears(i) ==
    /\ row' = [row EXCEPT ![i] = "there"]
    /\ late' = IF \/ reader.pc \in {"done", "failed"}
                  \/ reader.pc = "next" /\ i <= reader.cursor
               THEN late \cup {i} ELSE late

\* The row of a user or of an intent is flushed ...
Flush(i) ==
    /\ kind # "letters"
    /\ IsNextId(i)
    /\ row' = [row EXCEPT ![i] = "open"]
    /\ UNCHANGED <<kind, reader, late>>

\* ... committed ...
CommitRow(i) ==
    /\ row[i] = "open"
    /\ Appears(i)
    /\ UNCHANGED <<kind, reader>>

\* ... or rolled back: its id is never used again.
RollbackRow(i) ==
    /\ row[i] = "open"
    /\ row' = [row EXCEPT ![i] = "gone"]
    /\ UNCHANGED <<kind, reader, late>>

\* XADD
AddLetter(i) ==
    /\ kind = "letters"
    /\ IsNextId(i)
    /\ Appears(i)
    /\ UNCHANGED <<kind, reader>>

Leave(i) ==
    /\ kind # "users"
    /\ row[i] = "there"
    /\ row' = [row EXCEPT ![i] = "gone"]
    /\ UNCHANGED <<kind, reader, late>>

-----------------------------------------------------------------------------
(* The reader *)

\* A plausible slip: the cursor is not excluded.
FromCursor == {i \in Rows : row[i] = "there" /\ i >= reader.cursor}

AfterCursor == {i \in Rows : row[i] = "there" /\ i > reader.cursor}

FirstRows(S, n) == {i \in S : Cardinality({k \in S : k < i}) < n}

LastOf(S) == CHOOSE i \in S : \A k \in S : k <= i

Show(items) == [i \in Rows |-> IF i \in items /\ reader.shown[i] < 2
                               THEN reader.shown[i] + 1 ELSE reader.shown[i]]

\* The client asks on from the cursor it got, or stops.
GoOn(items, cursor) == reader' = [pc |-> "next", cursor |-> cursor, shown |-> Show(items)]

Stop(items) == reader' = [reader EXCEPT !.pc = "done", !.shown = Show(items)]

Reading(k) ==
    /\ kind = k
    /\ reader.pc \in {"first", "next"}
    /\ UNCHANGED <<kind, row, late>>

\* A plausible slip: the page is not cut before its last id is taken.
LookedAhead(fetched, items) == LastOf(fetched)

NextCursor(fetched, items) == LastOf(items)

\* get_all_users: one row more than the page tells whether there is another.
UsersPage(limit) ==
    LET fetched == FirstRows(AfterCursor, limit + 1)
        items   == FirstRows(fetched, limit)
    IN  /\ Reading("users")
        /\ reader.cursor <= LastCursor
        /\ \/ Cardinality(fetched) <= limit /\ Stop(items)
           \/ /\ Cardinality(fetched) > limit /\ items # {}
              /\ GoOn(items, NextCursor(fetched, items))

\* A cursor that the parameters do not admit (422), or the last of no row (500).
UsersPageFails(limit) ==
    /\ Reading("users")
    /\ reader.cursor > LastCursor \/ (limit = 0 /\ AfterCursor # {})
    /\ reader' = [reader EXCEPT !.pc = "failed"]

\* get_pending_orders: the page after the last one is empty.
OrdersPage(limit) ==
    LET items == FirstRows(AfterCursor, limit)
    IN  /\ Reading("orders")
        /\ limit > 0
        /\ \/ items = {} /\ Stop({})
           \/ items # {} /\ GoOn(items, LastOf(items))

\* A plausible slip: a full page is the last one, too.
EndsEarly(items, limit) == Cardinality(items) <= limit

\* get_dead_letters: a page that is not full is the last one.
IsLastPage(items, limit) == Cardinality(items) < limit

LettersPage(limit) ==
    LET items == FirstRows(AfterCursor, limit)
    IN  /\ Reading("letters")
        /\ limit > 0
        /\ \/ IsLastPage(items, limit) /\ Stop(items)
           \/ ~IsLastPage(items, limit) /\ GoOn(items, LastOf(items))

Write(i) == Flush(i) \/ CommitRow(i) \/ RollbackRow(i) \/ AddLetter(i) \/ Leave(i)

ReadPage(limit) ==
    UsersPage(limit) \/ UsersPageFails(limit) \/ OrdersPage(limit) \/ LettersPage(limit)

PagesNext == (\E i \in Rows : Write(i)) \/ (\E limit \in Limits : ReadPage(limit))

PagesSpec == PagesInit /\ [][PagesNext]_pagesVars

-----------------------------------------------------------------------------
(* Properties *)

\* service.py:139-173, users/service.py:53-62, dlq_manager.py:11-35.  When a
\* listing ends, every row that is there was on one of its pages: rows that
\* leave between two pages shift no other row out of sight.  Only a row that
\* became visible behind the cursor is missed.
PagesComplete ==
    reader.pc = "done" =>
        \A i \in Rows : row[i] = "there" => reader.shown[i] > 0 \/ i \in late

\* No row is on two pages.
NoRepeat == \A i \in Rows : reader.shown[i] <= 1

\* What the reader has behind it: every row up to the cursor, and no other.
ReadUpTo(n) ==
    /\ \A i \in Rows : reader.shown[i] > 0 => i <= n
    /\ \A i \in Rows : row[i] = "there" /\ i <= n => reader.shown[i] > 0 \/ i \in late

\* service.py:139-173, users/service.py:53-62, dlq_manager.py:11-35.  The cursor
\* parts the rows that were shown from those to come, whatever the writers do
\* between two pages: the inductive invariant of the listings.
PagesInv ==
    /\ PagesTypeOK /\ NoRepeat /\ PagesComplete
    /\ reader.pc = "first" => reader.cursor = 0
    /\ reader.pc \in {"first", "next"} => ReadUpTo(reader.cursor)
=============================================================================
