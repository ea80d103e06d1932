----------------------------- MODULE PipelineInv -----------------------------
(***************************************************************************)
(* The inductive invariant of Pipeline: what the outbox and the stream     *)
(* keep each for itself, joined by what a send leaves in the stream.       *)
(***************************************************************************)
EXTENDS Pipeline

\* An open transaction is alone with its notification, which is not stored yet.
IntakeOK ==
    /\ \A q \in Requests : request[q].pc # "idle" => Sms(q) \in Events
    /\ \A q \in Requests : request[q].pc \in {"event", "commit"} =>
          ~Stored(Sms(q)) /\ ~Undecided(q)

\* What the relay sent has arrived, what has arrived was stored before, and
\* the handler does what has arrived and has an amount.
SentOK == \A e \in Events : stream[e] > 0 \/ dlq[e] > 0 => Q!Arrived(e)

ArrivedOK == \A e \in Events : Q!Arrived(e) => Stored(e)

DoneOK == \A e \in done : e \in Valid /\ Q!Arrived(e)

\* service.py:262-326, tasks.py:78-215, worker.py:74-160, dlq_manager.py:38-55.
\* What each part of the path relies on about the part before it.
PathInv ==
    /\ PipelineTypeOK
    /\ O!OutboxInv /\ Q!StreamInv /\ Q!HandOK
    /\ IntakeOK /\ SentOK /\ ArrivedOK /\ DoneOK
    /\ AnswerIsTrue
=============================================================================
