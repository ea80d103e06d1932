----------------------------- MODULE OutboxRelay -----------------------------
(***************************************************************************)
(* From the bank's notification to the stream.  The webhook stores the     *)
(* notification and its outbox event in one transaction; every minute each *)
(* API process runs the relay: claim a batch, send every event of it to    *)
(* Redis, write all the outcomes back.                                     *)
(*                                                                         *)
(* Redis may raise at any command, executed or not, without any bound.     *)
(* Times are abstract: locked_at is old or it is not.  The counters of     *)
(* what was sent stop at the largest value a property tells apart.         *)
(***************************************************************************)
EXTENDS Naturals, FiniteSets

CONSTANTS
    MaxEvents,   \* bound: notifications received
    Valid,       \* events whose payload validate_event_data accepts
    Relays,      \* API processes, one job at a time each
    BatchSize,   \* limit_s
    MaxRetries,  \* MAX_OUTBOX_RETRIES
    MaxCrashes   \* bound: relays that die, or cannot write their outcomes

Events == 1 .. MaxEvents

ASSUME OutboxAssumption ==
    /\ MaxEvents \in Nat /\ Valid \subseteq Events
    /\ BatchSize \in Nat \ {0} /\ MaxRetries \in Nat \ {0} /\ MaxCrashes \in Nat

VARIABLES
    events,    \* the rows of outbox_order_event
    work,      \* work[r][e]: what relay r knows of event e of its batch
    stream,    \* how often e was added to the stream (stops at 2) ...
    dlq,       \* ... and to the dead letter stream
    errors,    \* history: sends of e that raised (stops at MaxRetries)
    expired,   \* history: events whose lock grew old once
    crashes

outboxVars == <<events, work, stream, dlq, errors, expired, crashes>>

NoWork == [status |-> "NONE", retry |-> 0]

OutboxTypeOK ==
    /\ events \in [Events -> [status : {"NONE", "PENDING", "PROCESSING", "PUBLISHED", "FAILED"},
                              retry  : 0 .. MaxRetries,
                              lock   : {"none", "fresh", "old"}]]
    /\ work \in [Relays -> [Events ->
                    [status : {"NONE", "CLAIMED", "PENDING", "PUBLISHED", "FAILED"},
                     retry  : 0 .. MaxRetries]]]
    /\ stream \in [Events -> 0 .. 2] /\ dlq \in [Events -> 0 .. 2]
    /\ errors \in [Events -> 0 .. MaxRetries]
    /\ expired \subseteq Events
    /\ crashes \in 0 .. MaxCrashes

OutboxInit ==
    /\ events = [e \in Events |-> [status |-> "NONE", retry |-> 0, lock |-> "none"]]
    /\ work = [r \in Relays |-> [e \in Events |-> NoWork]]
    /\ stream = [e \in Events |-> 0] /\ dlq = [e \in Events |-> 0]
    /\ errors = [e \in Events |-> 0]
    /\ expired = {} /\ crashes = 0

\* One more, up to the limit.
Count(f, e, limit) == IF f[e] < limit THEN [f EXCEPT ![e] = @ + 1] ELSE f

-----------------------------------------------------------------------------
\* POST /transaction: the notification and its event are committed together.
\* created_at is the start of the transaction: events may appear out of order.
Intake(e) ==
    /\ events[e].status = "NONE"
    /\ events' = [events EXCEPT ![e].status = "PENDING"]
    /\ UNCHANGED <<work, stream, dlq, errors, expired, crashes>>

-----------------------------------------------------------------------------
Asleep(r) == \A e \in Events : work[r][e] = NoWork

\* A plausible slip: a lock need not be old to be broken.
AnyLock == {e \in Events : events[e].status \in {"PENDING", "PROCESSING"}}

\* A plausible slip: only pending events are claimed.
PendingOnly == {e \in Events : events[e].status = "PENDING"}

\* A plausible slip: failed events are claimed again.
FailedToo ==
    {e \in Events : \/ events[e].status \in {"PENDING", "FAILED"}
                    \/ events[e].status = "PROCESSING" /\ events[e].lock = "old"}

Claimable ==
    {e \in Events : \/ events[e].status = "PENDING"
                    \/ events[e].status = "PROCESSING" /\ events[e].lock = "old"}

\* The oldest claimable events.
Oldest == {e \in Claimable : Cardinality({d \in Claimable : d < e}) < BatchSize}

Claim(r) ==
    /\ Asleep(r)
    /\ Oldest # {}
    /\ events' = [e \in Events |->
                     IF e \in Oldest
                     THEN [events[e] EXCEPT !.status = "PROCESSING", !.lock = "fresh"]
                     ELSE events[e]]
    /\ work' = [work EXCEPT ![r] = [e \in Events |->
                     IF e \in Oldest
                     THEN [status |-> "CLAIMED", retry |-> events[e].retry]
                     ELSE NoWork]]
    /\ UNCHANGED <<stream, dlq, errors, expired, crashes>>

\* A plausible slip: one attempt too few.
OneTooFew(retry) ==
    [status |-> IF retry + 2 >= MaxRetries THEN "FAILED" ELSE "PENDING",
     retry  |-> retry + 1]

\* A plausible slip: no limit.
NeverGivesUp(retry) == [status |-> "PENDING", retry |-> retry + 1]

\* The outcome of a send that raised.
Raised(retry) ==
    [status |-> IF retry + 1 >= MaxRetries THEN "FAILED" ELSE "PENDING",
     retry  |-> retry + 1]

Outcome(r, e, o) == work' = [work EXCEPT ![r][e] = o]

\* A plausible slip: the error of the stream is swallowed.
SwallowError(r, e) == Outcome(r, e, [status |-> "PUBLISHED", retry |-> work[r][e].retry])

OutcomeOfError(r, e) == Outcome(r, e, Raised(work[r][e].retry))

Send(r, e) ==
    /\ work[r][e].status = "CLAIMED"
    /\ \/ /\ e \in Valid
          /\ stream' = Count(stream, e, 2)
          /\ Outcome(r, e, [status |-> "PUBLISHED", retry |-> work[r][e].retry])
          /\ UNCHANGED dlq
       \/ /\ e \notin Valid
          /\ dlq' = Count(dlq, e, 2)
          /\ Outcome(r, e, [status |-> "FAILED", retry |-> work[r][e].retry])
          /\ UNCHANGED stream
    /\ UNCHANGED <<events, errors, expired, crashes>>

\* XADD raises, executed or not.
SendFails(r, e) ==
    /\ work[r][e].status = "CLAIMED"
    /\ \/ UNCHANGED <<stream, dlq>>
       \/ e \in Valid /\ stream' = Count(stream, e, 2) /\ UNCHANGED dlq
       \/ e \notin Valid /\ dlq' = Count(dlq, e, 2) /\ UNCHANGED stream
    /\ OutcomeOfError(r, e)
    /\ errors' = Count(errors, e, MaxRetries)
    /\ UNCHANGED <<events, expired, crashes>>

\* The row that process_outbox_updates leaves behind for outcome o.
Written(row, o) ==
    IF o.status = "PUBLISHED"
    THEN [row EXCEPT !.status = "PUBLISHED", !.lock = "none"]
    ELSE [status |-> o.status, retry |-> o.retry, lock |-> "none"]

\* The outcomes of the whole batch, whoever holds the rows by now.
Finish(r) ==
    /\ ~Asleep(r)
    /\ \A e \in Events : work[r][e].status # "CLAIMED"
    /\ events' = [e \in Events |->
                     IF work[r][e].status = "NONE"
                     THEN events[e] ELSE Written(events[e], work[r][e])]
    /\ work' = [work EXCEPT ![r] = [e \in Events |-> NoWork]]
    /\ UNCHANGED <<stream, dlq, errors, expired, crashes>>

\* The process dies, or the outcomes cannot be committed.
Crash(r) ==
    /\ ~Asleep(r)
    /\ crashes < MaxCrashes
    /\ crashes' = crashes + 1
    /\ work' = [work EXCEPT ![r] = [e \in Events |-> NoWork]]
    /\ UNCHANGED <<events, stream, dlq, errors, expired>>

\* LOCK_TIMEOUT_MINUTES pass.
Expire(e) ==
    /\ events[e].status = "PROCESSING" /\ events[e].lock = "fresh"
    /\ events' = [events EXCEPT ![e].lock = "old"]
    /\ expired' = expired \cup {e}
    /\ UNCHANGED <<work, stream, dlq, errors, crashes>>

Relay(r) == Claim(r) \/ Finish(r) \/ \E e \in Events : Send(r, e) \/ SendFails(r, e)

OutboxNext ==
    \/ \E e \in Events : Intake(e) \/ Expire(e)
    \/ \E r \in Relays : Relay(r) \/ Crash(r)

OutboxSpec == OutboxInit /\ [][OutboxNext]_outboxVars

OutboxFairSpec ==
    /\ OutboxSpec
    /\ \A r \in Relays : WF_outboxVars(Relay(r))
    /\ \A e \in Events : WF_outboxVars(Expire(e))

-----------------------------------------------------------------------------
(* Properties *)

\* tasks.py:123-152, 162-184.  An event marked PUBLISHED is in the stream,
\* whatever Redis raised, whoever crashed and whichever relay wrote last.
PublishedIsSent == \A e \in Events : events[e].status = "PUBLISHED" => stream[e] > 0

\* tasks.py:84-145.  An event is given up for a cause: its payload is invalid
\* and in the dead letter stream, or it was really tried MAX_OUTBOX_RETRIES
\* times, although retry_count is read at the claim and written back after the
\* batch, perhaps over the count of another relay.
FailedForCause ==
    \A e \in Events :
        events[e].status = "FAILED" =>
            errors[e] = MaxRetries \/ (e \notin Valid /\ dlq[e] > 0)

\* tasks.py:27-49.  Two relays do not send one event twice: only an error of
\* Redis or an old lock can duplicate it.
SentOnce ==
    \A e \in Events : errors[e] = 0 /\ e \notin expired => stream[e] + dlq[e] <= 1

\* tasks.py:155-196.  A final status is final: no late outcome overwrites it
\* and the event is not sent again, unless its lock grew old while another
\* relay was at work on it.
Final ==
    [][ \A e \in Events :
          /\ events[e].status \in {"PUBLISHED", "FAILED"}
          /\ e \notin expired \/ Cardinality(Relays) = 1
          => /\ events'[e].status = events[e].status
             /\ stream'[e] = stream[e] /\ dlq'[e] = dlq[e] ]_outboxVars

\* tasks.py:15-39.  Every event ends PUBLISHED or FAILED, however often Redis
\* raises, and also when the relay that claimed it died.
EventsEnd ==
    \A e \in Events :
        events[e].status = "PENDING" ~> events[e].status \in {"PUBLISHED", "FAILED"}
=============================================================================
