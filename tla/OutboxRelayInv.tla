---------------------------- MODULE OutboxRelayInv ----------------------------
(***************************************************************************)
(* The inductive invariant of OutboxRelay: what the row of an event and    *)
(* the outcome a relay has in hand say of what was sent.                   *)
(***************************************************************************)
EXTENDS OutboxRelay

Row(e) == events[e]

Holds(r, e) == work[r][e].status # "NONE"

\* Given up for a cause.
GivenUp(e) == errors[e] = MaxRetries \/ (e \notin Valid /\ dlq[e] > 0)

\* A row is locked while it is PROCESSING, and can be tried again until it is
\* final.  Its count is never ahead of the errors there were.
RowOK(e) ==
    /\ Row(e).status = "NONE" => /\ stream[e] = 0 /\ dlq[e] = 0 /\ e \notin expired
                                 /\ \A r \in Relays : ~Holds(r, e)
    /\ Row(e).status = "PROCESSING" <=> Row(e).lock # "none"
    /\ Row(e).lock = "old" => e \in expired
    /\ Row(e).status \notin {"PUBLISHED", "FAILED"} => Row(e).retry < MaxRetries
    /\ Row(e).retry <= errors[e]
    /\ Row(e).status = "PUBLISHED" => stream[e] > 0
    /\ Row(e).status = "FAILED" => GivenUp(e)

\* The same of the outcome that r will write, perhaps late.
OutcomeOK(r, e) ==
    /\ ~Holds(r, e) => work[r][e] = NoWork
    /\ work[r][e].status \in {"CLAIMED", "PENDING"} => work[r][e].retry < MaxRetries
    /\ work[r][e].retry <= errors[e]
    /\ work[r][e].status = "PUBLISHED" => stream[e] > 0
    /\ work[r][e].status = "FAILED" => GivenUp(e)
    /\ work[r][e].status = "PENDING" => errors[e] > 0

\* While no lock was broken, or there is one relay only, who holds an event
\* holds it alone and its row waits for the outcome.
HolderOK(e) ==
    e \notin expired \/ (\A q, r \in Relays : q = r) =>
        /\ \A r \in Relays : Holds(r, e) => Row(e).status = "PROCESSING"
        /\ \A q, r \in Relays : Holds(q, e) /\ Holds(r, e) => q = r

\* What was not sent yet.
UnsentOK(e) ==
    e \notin expired /\ errors[e] = 0 =>
        /\ stream[e] + dlq[e] <= 1
        /\ Row(e).status = "PENDING" => stream[e] = 0 /\ dlq[e] = 0
        /\ \A r \in Relays : work[r][e].status = "CLAIMED" => stream[e] = 0 /\ dlq[e] = 0

EventOK(e) ==
    /\ RowOK(e) /\ HolderOK(e) /\ UnsentOK(e)
    /\ \A r \in Relays : OutcomeOK(r, e)

\* tasks.py:27-49, 78-215.  Rows, batches and what was sent fit together,
\* whichever relay reads a count, sends, dies or writes late.
OutboxInv == OutboxTypeOK /\ \A e \in Events : EventOK(e)
=============================================================================
