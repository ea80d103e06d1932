------------------------------- MODULE Pipeline -------------------------------
(***************************************************************************)
(* The path of a notification, composed: the webhook stores it with its    *)
(* outbox event in one transaction, the relay sends the event, the worker  *)
(* takes it from the stream, an admin replays it from the dead letters.    *)
(* OutboxRelay and StreamWorker each own their part; a send of the relay   *)
(* is the XADD of the stream.  This module adds the webhook: the bank's    *)
(* forwarder posts a notification again when it got no answer, perhaps     *)
(* while the first request is still at work.                               *)
(***************************************************************************)
EXTENDS Naturals, FiniteSets

CONSTANTS
    MaxEvents, Valid, Relays, BatchSize, MaxOutboxRetries, MaxCrashes,
    Workers, Admins, MaxEntries, MaxLetters, PageSize, MaxRetries, MaxFaults,
    Requests,   \* webhook calls at the same time
    None

VARIABLES
    events, work, stream, dlq, errors, expired, crashes,
    entries, letters, worker, replay, done, runs, faults,
    request,    \* a webhook call and the transaction it has open
    told        \* history: notifications answered, with accepted or duplicate

outbox == <<events, work, stream, dlq, errors, expired, crashes>>
queue  == <<entries, letters, worker, replay, done, runs>>
intake == <<request, told>>

pipelineVars == <<outbox, queue, faults, intake>>

O == INSTANCE OutboxRelayInv WITH MaxRetries <- MaxOutboxRetries
Q == INSTANCE StreamWorkerInv WITH Payloads <- O!Events, NoAmount <- O!Events \ Valid

Events == O!Events

ASSUME PipelineAssumption ==
    /\ MaxEvents \in Nat /\ Valid \subseteq Events
    /\ BatchSize \in Nat \ {0} /\ MaxOutboxRetries \in Nat \ {0}
    /\ MaxEntries \in Nat /\ MaxLetters \in Nat /\ MaxCrashes \in Nat /\ MaxFaults \in Nat
    /\ PageSize \in Nat \ {0} /\ MaxRetries \in Nat \ {0}
    /\ None \notin Nat

NoRequest == [pc |-> "idle", sms |-> None]

\* service.py:262-326.  Two open transactions never hold one notification.
PipelineTypeOK ==
    /\ O!OutboxTypeOK /\ Q!StreamTypeOK
    /\ request \in [Requests -> [pc : {"idle", "insert", "event", "commit"},
                                 sms : Events \cup {None}]]
    /\ told \subseteq Events
    /\ \A p, q \in Requests :
          request[p].pc = "commit" /\ request[q].pc = "commit" /\ p # q
              => request[p].sms # request[q].sms

PipelineInit ==
    /\ O!OutboxInit /\ Q!StreamInit
    /\ request = [q \in Requests |-> NoRequest]
    /\ told = {}

-----------------------------------------------------------------------------
(* The webhook *)

At(q, pc) == request[q].pc = pc

Sms(q) == request[q].sms

Turn(q, r) == request' = [request EXCEPT ![q] = r]

Goto(q, pc) == Turn(q, [request[q] EXCEPT !.pc = pc])

End(q) == Turn(q, NoRequest)

Tell(e) == told' = told \cup {e}

Stored(e) == events[e].status # "NONE"

\* A text that was parsed; the forwarder posts it until it is answered.
Post(q, e) ==
    /\ At(q, "idle")
    /\ e \notin told
    /\ \A p \in Requests : At(p, "idle") \/ Sms(p) = e   \* others do not meet
    /\ Turn(q, [pc |-> "insert", sms |-> e])
    /\ UNCHANGED <<outbox, queue, faults, told>>

\* A plausible slip: without the constraint nobody waits.
NobodyElse(q) == FALSE

\* Another open transaction has flushed the same notification.
Undecided(q) ==
    \E p \in Requests \ {q} : Sms(p) = Sms(q) /\ request[p].pc \in {"event", "commit"}

\* A plausible slip: the flush does not wait.
KnownToAnyone(q) == Stored(Sms(q)) \/ Undecided(q)

\* The unique constraint refuses what is committed.
Duplicate(q) == Stored(Sms(q))

InsertSms(q) ==
    /\ At(q, "insert")
    /\ \/ Duplicate(q) /\ Tell(Sms(q)) /\ End(q)
       \/ ~Duplicate(q) /\ ~Undecided(q) /\ Goto(q, "event") /\ UNCHANGED told
    /\ UNCHANGED <<outbox, queue, faults>>

InsertEvent(q) ==
    /\ At(q, "event")
    /\ Goto(q, "commit")
    /\ UNCHANGED <<outbox, queue, faults, told>>

CommitIntake(q) ==
    /\ At(q, "commit")
    /\ O!Intake(Sms(q))
    /\ Tell(Sms(q))
    /\ End(q)
    /\ UNCHANGED <<queue, faults>>

\* The call dies or the database raises: rolled back, or committed and not told.
IntakeFails(q) ==
    /\ ~At(q, "idle")
    /\ Q!Fault
    /\ \/ UNCHANGED outbox
       \/ At(q, "commit") /\ O!Intake(Sms(q))
    /\ End(q)
    /\ UNCHANGED <<queue, told>>

-----------------------------------------------------------------------------
(* The relay sends, the stream receives *)

Send(r, e) ==
    /\ O!Send(r, e)
    /\ Q!Receive(e)
    /\ UNCHANGED <<worker, replay, done, runs, faults, intake>>

\* Redis raises, and has executed the command or has not.
SendFails(r, e) ==
    /\ O!SendFails(r, e)
    /\ \/ UNCHANGED <<stream, dlq>> /\ UNCHANGED <<entries, letters>>
       \/ /\ \/ e \in Valid /\ stream' = O!Count(stream, e, 2)
             \/ e \notin Valid /\ dlq' = O!Count(dlq, e, 2)
          /\ Q!Receive(e)
    /\ UNCHANGED <<worker, replay, done, runs, faults, intake>>

RelayStep(r) ==
    \/ (O!Claim(r) \/ O!Finish(r)) /\ UNCHANGED <<queue, faults, intake>>
    \/ \E e \in Events : Send(r, e) \/ SendFails(r, e)

RequestStep(q) == InsertSms(q) \/ InsertEvent(q) \/ CommitIntake(q)

PipelineNext ==
    \/ \E q \in Requests : RequestStep(q) \/ IntakeFails(q) \/ \E e \in Events : Post(q, e)
    \/ \E r \in Relays : RelayStep(r)
    \/ \E r \in Relays : O!Crash(r) /\ Q!Fault /\ UNCHANGED <<queue, intake>>
    \/ \E e \in Events : O!Expire(e) /\ UNCHANGED <<queue, faults, intake>>
    \/ Q!Consume /\ UNCHANGED <<outbox, intake>>

PipelineSpec == PipelineInit /\ [][PipelineNext]_pipelineVars

-----------------------------------------------------------------------------
(* Properties *)

\* Where a notification is: the farthest of the places that hold it.  What is
\* PUBLISHED is not held by the outbox any more: nobody sends it again.
Place(e) ==
    IF e \in done THEN "done"
    ELSE IF \E m \in Q!Entries : entries[m].payload = e /\ entries[m].state \in {"new", "pending"}
         THEN "stream"
    ELSE IF \E l \in Q!Letters : letters[l].payload = e /\ letters[l].state = "there"
         THEN "letters"
    ELSE IF events[e].status = "FAILED" THEN "failed"
    ELSE IF events[e].status \in {"PENDING", "PROCESSING"} THEN "outbox"
    ELSE "nowhere"

J == INSTANCE Journey
     WITH place     <- [e \in Events |-> Place(e)],
          OneRelay  <- \A q, r \in Relays : q = r,
          OneWorker <- \A v, w \in Workers : v = w

\* service.py:292-326, tasks.py:78-215, worker.py:74-142, dlq_manager.py:38-55.
\* The whole path implements the journey: no failure of a part and no duplicate
\* loses a notification that was stored.
NotificationKept == J!JourneySpec

\* service.py:262-326, router.py:106-118.  The forwarder may stop posting when
\* it was answered, accepted or duplicate: the notification is stored.  Retries
\* that race each other are never both refused.
AnswerIsTrue == \A e \in told : Stored(e)

\* tasks.py:84-145.  What was given up in the outbox and is in no other place
\* had its sends raised MAX_OUTBOX_RETRIES times.
FailedForCauseOnly ==
    \A e \in Events : Place(e) = "failed" => errors[e] = MaxOutboxRetries
=============================================================================
