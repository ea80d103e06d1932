---------------------------- MODULE PipelineProofs ----------------------------
(***************************************************************************)
(* The path of a notification as a whole: PathInv is inductive, and the    *)
(* pipeline implements Journey, for any number of webhook calls, relays,   *)
(* workers, admins, events, retries and faults.                            *)
(*                                                                         *)
(* What the outbox and the stream keep for themselves is proved in their   *)
(* own modules and cited here; the first lemmas say that their definitions *)
(* are those of Pipeline.                                                  *)
(***************************************************************************)
EXTENDS PipelineInv, TLAPS

OP == INSTANCE OutboxRelayProofs WITH MaxRetries <- MaxOutboxRetries

QP == INSTANCE StreamWorkerProofs WITH Payloads <- O!Events, NoAmount <- O!Events \ Valid

LEMMA OutboxConstants == OP!OutboxAssumption
BY PipelineAssumption DEF OP!OutboxAssumption, OP!Events, Events, O!Events

LEMMA StreamConstants == QP!WorkerAssumption
<1>1. O!Events \subseteq Nat
  BY PipelineAssumption DEF O!Events
<1> QED
  BY <1>1, PipelineAssumption DEF QP!WorkerAssumption

-----------------------------------------------------------------------------
(* The outbox in the pipeline *)

LEMMA SameOutboxInv ==
  /\ O!OutboxInv <=> OP!OutboxInv
  /\ O!OutboxInit <=> OP!OutboxInit
BY DEF OP!OutboxInv, O!OutboxInv, OP!Events, O!Events, OP!OutboxTypeOK, O!OutboxTypeOK,
   O!EventOK, OP!EventOK, O!RowOK, OP!RowOK, O!HolderOK, OP!HolderOK, O!UnsentOK, OP!UnsentOK,
   O!OutcomeOK, OP!OutcomeOK, O!Holds, OP!Holds, O!Row, OP!Row, O!GivenUp, OP!GivenUp,
   O!NoWork, OP!NoWork, O!OutboxInit, OP!OutboxInit

LEMMA SameOutboxInvNext == O!OutboxInv' <=> OP!OutboxInv'
BY SameOutboxInv, PTL

LEMMA SameIntake ==
  ASSUME NEW e
  PROVE  (O!Intake(e) <=> OP!Intake(e)) /\ (O!Expire(e) <=> OP!Expire(e))
BY DEF O!Expire, OP!Expire, O!Intake, OP!Intake

LEMMA SameSend ==
  ASSUME NEW r, NEW e
  PROVE  (O!Send(r, e) <=> OP!Send(r, e)) /\ (O!SendFails(r, e) <=> OP!SendFails(r, e))
<1>1. O!Send(r, e) <=> OP!Send(r, e)
  BY DEF O!Send, OP!Send, O!Count, OP!Count, O!Outcome, OP!Outcome
<1>2. O!SendFails(r, e) <=> OP!SendFails(r, e)
  BY DEF O!SendFails, OP!SendFails, O!Count, OP!Count, O!Outcome, OP!Outcome,
     O!OutcomeOfError, OP!OutcomeOfError, O!Raised, OP!Raised
<1> QED
  BY <1>1, <1>2

LEMMA SameBatch ==
  ASSUME NEW r
  PROVE  /\ O!Claim(r) <=> OP!Claim(r)
         /\ O!Finish(r) <=> OP!Finish(r)
         /\ O!Crash(r) <=> OP!Crash(r)
<1>1. O!Oldest = OP!Oldest
  BY DEF O!Oldest, OP!Oldest, O!Claimable, OP!Claimable, O!Events, OP!Events,
     O!Cardinality, OP!Cardinality
<1>2. O!Asleep(r) <=> OP!Asleep(r)
  BY DEF O!Asleep, OP!Asleep, O!NoWork, OP!NoWork, O!Events, OP!Events
<1>3. \A row, o : O!Written(row, o) = OP!Written(row, o)
  BY Zenon DEF O!Written, OP!Written
<1>4. O!Claim(r) <=> OP!Claim(r)
  BY <1>1, <1>2, Zenon DEF O!Claim, OP!Claim, O!NoWork, OP!NoWork, O!Events, OP!Events
<1>5. O!Finish(r) <=> OP!Finish(r)
  BY <1>2, <1>3 DEF O!Finish, OP!Finish, O!NoWork, OP!NoWork, O!Events, OP!Events
<1>6. O!Crash(r) <=> OP!Crash(r)
  BY <1>2 DEF O!Crash, OP!Crash, O!NoWork, OP!NoWork, O!Events, OP!Events
<1> QED
  BY <1>4, <1>5, <1>6

LEMMA SameOutboxNext == O!OutboxNext <=> OP!OutboxNext
<1>1. O!Events = OP!Events
  BY DEF O!Events, OP!Events
<1>2. \A e : (O!Intake(e) <=> OP!Intake(e)) /\ (O!Expire(e) <=> OP!Expire(e))
  BY SameIntake
<1>3. \A r : /\ O!Claim(r) <=> OP!Claim(r)
             /\ O!Finish(r) <=> OP!Finish(r)
             /\ O!Crash(r) <=> OP!Crash(r)
  BY SameBatch
<1>4. \A r, e : (O!Send(r, e) <=> OP!Send(r, e)) /\ (O!SendFails(r, e) <=> OP!SendFails(r, e))
  BY SameSend
<1> QED
  BY <1>1, <1>2, <1>3, <1>4 DEF O!OutboxNext, OP!OutboxNext, O!Relay, OP!Relay

-----------------------------------------------------------------------------
(* The stream in the pipeline *)

LEMMA SameData ==
  /\ Q!Entries = QP!Entries /\ Q!Letters = QP!Letters /\ Q!Loop = QP!Loop
  /\ \A S : Q!Least(S) = QP!Least(S)
  /\ \A w : Q!Current(w) = QP!Current(w) /\ Q!Payload(w) = QP!Payload(w)
<1>1. Q!Entries = QP!Entries /\ Q!Letters = QP!Letters
  BY DEF Q!Entries, QP!Entries, Q!Letters, QP!Letters
<1>2. Q!Loop = QP!Loop
  BY <1>1 DEF Q!Loop, QP!Loop
<1>3. \A S : Q!Least(S) = QP!Least(S)
  BY Zenon DEF Q!Least, QP!Least
<1>4. \A w : Q!Current(w) = QP!Current(w)
  BY <1>3 DEF Q!Current, QP!Current
<1> QED
  BY <1>1, <1>2, <1>3, <1>4 DEF Q!Payload, QP!Payload

LEMMA SameStreamInv ==
  /\ Q!StreamInv <=> QP!StreamInv
  /\ Q!StreamInit <=> QP!StreamInit
  /\ Q!HandOK <=> QP!HandOK
  /\ \A p : Q!Arrived(p) <=> QP!Arrived(p)
<1>1. Q!StreamTypeOK <=> QP!StreamTypeOK
  BY SameData DEF Q!StreamTypeOK, QP!StreamTypeOK
<1>2. \A w : Q!WorkerOK(w) <=> QP!WorkerOK(w)
  BY SameData DEF Q!WorkerOK, QP!WorkerOK, Q!At, QP!At, Q!State, QP!State
<1>3. \A w : Q!AttemptsOK(w) <=> QP!AttemptsOK(w)
  BY SameData DEF Q!AttemptsOK, QP!AttemptsOK, Q!At, QP!At
<1>4. \A w : Q!OnceOK(w) <=> QP!OnceOK(w)
  BY SameData DEF Q!OnceOK, QP!OnceOK, Q!At, QP!At, Q!State, QP!State, Q!Settled, QP!Settled,
     Q!Unbroken, QP!Unbroken
<1>5. \A w : Q!CountsOK(w) <=> QP!CountsOK(w)
  BY SameData DEF Q!CountsOK, QP!CountsOK, Q!At, QP!At, Q!State, QP!State,
     Q!Unhandled, QP!Unhandled, Q!Unbroken, QP!Unbroken
<1>6. Q!ReadOK <=> QP!ReadOK
  BY DEF Q!ReadOK, QP!ReadOK
<1>7. \A p : (Q!Seen(p) <=> QP!Seen(p)) /\ (Q!Kept(p) <=> QP!Kept(p))
  BY SameData DEF Q!Seen, QP!Seen, Q!Kept, QP!Kept, Q!Waits, QP!Waits, Q!At, QP!At, Q!State, QP!State
<1>8. Q!StreamInv <=> QP!StreamInv
  BY <1>1, <1>2, <1>3, <1>4, <1>5, <1>6, <1>7 DEF Q!StreamInv, QP!StreamInv
<1>9. Q!StreamInit <=> QP!StreamInit
  BY SameData DEF Q!StreamInit, QP!StreamInit, Q!NoEntry, QP!NoEntry, Q!Absent, QP!Absent
<1>10. Q!HandOK <=> QP!HandOK
  BY DEF Q!HandOK, QP!HandOK, Q!State, QP!State
<1>11. \A p : Q!Arrived(p) <=> QP!Arrived(p)
  BY SameData DEF Q!Arrived, QP!Arrived, Q!State, QP!State
<1> QED
  BY <1>8, <1>9, <1>10, <1>11

LEMMA SameStreamInvNext ==
  /\ Q!StreamInv' <=> QP!StreamInv'
  /\ Q!HandOK' <=> QP!HandOK'
<1>1. (Q!StreamInv <=> QP!StreamInv) /\ (Q!HandOK <=> QP!HandOK)
  BY SameStreamInv
<1> QED
  BY <1>1, PTL

LEMMA SameArrivedNext == ASSUME NEW p PROVE Q!Arrived(p)' <=> QP!Arrived(p)'
BY SameData DEF Q!Arrived, QP!Arrived, Q!State, QP!State

LEMMA SameCommands ==
  /\ \A p : (Q!Xadd(p) <=> QP!Xadd(p)) /\ (Q!Bury(p) <=> QP!Bury(p))
  /\ \A m : Q!Xack(m) <=> QP!Xack(m)
  /\ \A s : Q!FirstOf(s) = QP!FirstOf(s)
  /\ \A e : Q!Deliver(e) = QP!Deliver(e)
  /\ \A m : (Q!ClaimEntry(m) <=> QP!ClaimEntry(m)) /\ Q!Claimed(m) = QP!Claimed(m)
  /\ Q!Fault <=> QP!Fault
<1>1. \A f, n : Q!IsNext(f, n) <=> QP!IsNext(f, n)
  BY Zenon DEF Q!IsNext, QP!IsNext
<1>2. \A p : (Q!Xadd(p) <=> QP!Xadd(p)) /\ (Q!Bury(p) <=> QP!Bury(p))
  BY <1>1, SameData, Zenon DEF Q!Xadd, QP!Xadd, Q!Bury, QP!Bury
<1>3. \A m : Q!Xack(m) <=> QP!Xack(m)
  BY Zenon DEF Q!Xack, QP!Xack
<1>4. \A s : Q!FirstOf(s) = QP!FirstOf(s)
  BY Zenon DEF Q!FirstOf, QP!FirstOf, Q!Cardinality, QP!Cardinality, Q!Entries, QP!Entries
<1>5. \A e : Q!Deliver(e) = QP!Deliver(e)
  BY Zenon DEF Q!Deliver, QP!Deliver, Q!UpTo, QP!UpTo
<1>6. \A m : Q!Claimed(m) = QP!Claimed(m)
  BY SameData DEF Q!Claimed, QP!Claimed
<1>7. \A m : Q!ClaimEntry(m) <=> QP!ClaimEntry(m)
  BY <1>5, <1>6, SameData DEF Q!ClaimEntry, QP!ClaimEntry
<1>8. Q!Fault <=> QP!Fault
  BY DEF Q!Fault, QP!Fault
<1> QED
  BY <1>2, <1>3, <1>4, <1>5, <1>6, <1>7, <1>8

LEMMA SameReceive == ASSUME NEW p PROVE Q!Receive(p) <=> QP!Receive(p)
BY SameCommands DEF Q!Receive, QP!Receive

LEMMA SameTurns ==
  /\ \A w, pc : Q!At(w, pc) <=> QP!At(w, pc)
  /\ \A w, r : Q!Turn(w, r) <=> QP!Turn(w, r)
  /\ \A w, pc : Q!Goto(w, pc) <=> QP!Goto(w, pc)
  /\ \A w, b, a, s : Q!Begin(w, b, a, s) <=> QP!Begin(w, b, a, s)
  /\ \A w : (Q!NextMessage(w) <=> QP!NextMessage(w)) /\ (Q!Again(w) <=> QP!Again(w))
  /\ \A w : Q!AfterError(w) <=> QP!AfterError(w)
<1>1. \A w, r : Q!Turn(w, r) <=> QP!Turn(w, r)
  BY Zenon DEF Q!Turn, QP!Turn
<1>2. \A w, pc : Q!Goto(w, pc) <=> QP!Goto(w, pc)
  BY <1>1, Zenon DEF Q!Goto, QP!Goto
<1>3. \A w, b, a, s : Q!Begin(w, b, a, s) <=> QP!Begin(w, b, a, s)
  BY <1>1, SameData, Zenon DEF Q!Begin, QP!Begin
<1>4. \A w : (Q!NextMessage(w) <=> QP!NextMessage(w)) /\ (Q!Again(w) <=> QP!Again(w))
  BY <1>1, <1>3, SameData DEF Q!NextMessage, QP!NextMessage, Q!Again, QP!Again
<1>5. \A w, pc : Q!At(w, pc) <=> QP!At(w, pc)
  BY DEF Q!At, QP!At
<1>6. \A w : Q!AfterError(w) <=> QP!AfterError(w)
  BY <1>4, <1>5, SameData DEF Q!AfterError, QP!AfterError, Q!Caught, QP!Caught
<1> QED
  BY <1>1, <1>2, <1>3, <1>4, <1>5, <1>6

LEMMA SameWork == ASSUME NEW w PROVE Q!Work(w) <=> QP!Work(w)
<1>1. Q!Scan(w) <=> QP!Scan(w)
  BY SameTurns, SameCommands, SameData, Zenon DEF Q!Scan, QP!Scan
<1>2. Q!ClaimNext(w) <=> QP!ClaimNext(w)
  BY SameTurns, SameCommands, SameData, Zenon DEF Q!ClaimNext, QP!ClaimNext
<1>3. Q!ClaimFails(w) <=> QP!ClaimFails(w)
  BY SameTurns, SameCommands, SameData DEF Q!ClaimFails, QP!ClaimFails
<1>4. Q!Read(w) <=> QP!Read(w)
  BY SameTurns, SameCommands, SameData DEF Q!Read, QP!Read
<1>5. Q!ReadFails(w) <=> QP!ReadFails(w)
  BY SameTurns, SameCommands, SameData DEF Q!ReadFails, QP!ReadFails
<1>6. Q!HandleMessage(w) <=> QP!HandleMessage(w)
  BY SameTurns, SameData DEF Q!HandleMessage, QP!HandleMessage, Q!UpTo, QP!UpTo
<1>7. Q!HandlerRaises(w) <=> QP!HandlerRaises(w)
  BY SameTurns, SameData DEF Q!HandlerRaises, QP!HandlerRaises, Q!UpTo, QP!UpTo,
     Q!Exhausted, QP!Exhausted
<1>8. Q!NoAmountField(w) <=> QP!NoAmountField(w)
  BY SameTurns, SameData DEF Q!NoAmountField, QP!NoAmountField
<1>9. Q!Acknowledge(w) <=> QP!Acknowledge(w)
  BY SameTurns, SameCommands, SameData DEF Q!Acknowledge, QP!Acknowledge
<1>10. Q!AckFails(w) <=> QP!AckFails(w)
  BY SameTurns, SameCommands, SameData DEF Q!AckFails, QP!AckFails
<1>11. Q!BuryMessage(w) <=> QP!BuryMessage(w)
  BY SameTurns, SameCommands, SameData DEF Q!BuryMessage, QP!BuryMessage
<1>12. Q!BuryFails(w) <=> QP!BuryFails(w)
  BY SameTurns, SameCommands, SameData DEF Q!BuryFails, QP!BuryFails
<1> QED
  BY <1>1, <1>2, <1>3, <1>4, <1>5, <1>6, <1>7, <1>8, <1>9, <1>10, <1>11, <1>12
  DEF Q!Work, QP!Work

LEMMA SameConsume == Q!Consume <=> QP!Consume
<1>1. \A w : Q!Work(w) <=> QP!Work(w)
  BY SameWork
<1>2. \A w : Q!Crash(w) <=> QP!Crash(w)
  BY SameTurns, SameCommands, SameData DEF Q!Crash, QP!Crash
<1>3. \A d : Q!MoveLetter(d) <=> QP!MoveLetter(d)
  BY SameCommands, Zenon DEF Q!MoveLetter, QP!MoveLetter
<1>4. \A d : (Q!Replay(d) <=> QP!Replay(d)) /\ (Q!ReplayFails(d) <=> QP!ReplayFails(d))
  BY <1>3, SameCommands DEF Q!Replay, QP!Replay, Q!ReplayFails, QP!ReplayFails
<1>5. \A d, l : Q!ReadLetter(d, l) <=> QP!ReadLetter(d, l)
  BY DEF Q!ReadLetter, QP!ReadLetter
<1>6. \A m : Q!Idle(m) <=> QP!Idle(m)
  BY Zenon DEF Q!Idle, QP!Idle
<1> QED
  BY <1>1, <1>2, <1>4, <1>5, <1>6, SameData DEF Q!Consume, QP!Consume

-----------------------------------------------------------------------------
(* The steps of the pipeline *)

RequestSet == [pc : {"idle", "insert", "event", "commit"}, sms : Events \cup {None}]

\* A step that leaves the streams alone ...
Quiet ==
    /\ [O!OutboxNext]_outbox
    /\ UNCHANGED <<stream, dlq, queue>>
    /\ faults' = faults \/ Q!Fault

\* ... or adds e to one of them.
Sent(r, e) ==
    /\ O!OutboxNext /\ work[r][e].status = "CLAIMED"
    /\ Q!Receive(e)
    /\ \A d \in Events \ {e} : stream'[d] = stream[d] /\ dlq'[d] = dlq[d]
    /\ UNCHANGED <<events, worker, replay, done, runs, faults, intake>>

LEMMA CountOther ==
  ASSUME PathInv, NEW e \in Events, NEW n, NEW d \in Events \ {e}
  PROVE  O!Count(stream, e, n)[d] = stream[d] /\ O!Count(dlq, e, n)[d] = dlq[d]
<1>1. stream \in [Events -> 0 .. 2] /\ dlq \in [Events -> 0 .. 2]
  BY DEF PathInv, PipelineTypeOK, O!OutboxTypeOK, Events
<1> QED
  BY <1>1 DEF O!Count

LEMMA RelaySteps ==
  ASSUME PathInv, NEW r \in Relays, RelayStep(r)
  PROVE  (Quiet /\ UNCHANGED intake) \/ \E e \in Events : Sent(r, e)
<1>1. CASE (O!Claim(r) \/ O!Finish(r)) /\ UNCHANGED <<queue, faults, intake>>
  <2>1. O!OutboxNext
    BY <1>1 DEF O!OutboxNext, O!Relay
  <2>2. UNCHANGED <<stream, dlq>>
    BY <1>1 DEF O!Claim, O!Finish
  <2> QED
    BY <1>1, <2>1, <2>2 DEF Quiet
<1>2. ASSUME NEW e \in Events, Send(r, e) PROVE Sent(r, e)
  <2>1. O!OutboxNext
    BY <1>2 DEF Send, O!OutboxNext, O!Relay, Events
  <2>2. /\ work[r][e].status = "CLAIMED" /\ UNCHANGED events
        /\ stream' \in {stream, O!Count(stream, e, 2)} /\ dlq' \in {dlq, O!Count(dlq, e, 2)}
    BY <1>2 DEF Send, O!Send
  <2> QED
    BY <1>2, <2>1, <2>2, CountOther DEF Send, Sent
<1>3. ASSUME NEW e \in Events, SendFails(r, e) PROVE (Quiet /\ UNCHANGED intake) \/ Sent(r, e)
  <2>1. O!OutboxNext
    BY <1>3 DEF SendFails, O!OutboxNext, O!Relay, Events
  <2>2. /\ work[r][e].status = "CLAIMED" /\ UNCHANGED events
        /\ stream' \in {stream, O!Count(stream, e, 2)} /\ dlq' \in {dlq, O!Count(dlq, e, 2)}
    BY <1>3 DEF SendFails, O!SendFails
  <2>3. CASE UNCHANGED <<stream, dlq>> /\ UNCHANGED <<entries, letters>>
    BY <1>3, <2>1, <2>3 DEF SendFails, Quiet, queue
  <2>4. CASE Q!Receive(e)
    BY <1>3, <2>1, <2>2, <2>4, CountOther DEF SendFails, Sent
  <2> QED
    BY <1>3, <2>3, <2>4 DEF SendFails
<1> QED
  BY <1>1, <1>2, <1>3 DEF RelayStep

LEMMA IntakeSteps ==
  ASSUME PathInv, NEW q \in Requests,
         RequestStep(q) \/ IntakeFails(q) \/ \E e \in Events : Post(q, e)
  PROVE  Quiet
<1>1. CASE UNCHANGED outbox /\ UNCHANGED queue /\ (faults' = faults \/ Q!Fault)
  BY <1>1 DEF Quiet, outbox
<1>2. CASE At(q, "commit") /\ O!Intake(Sms(q)) /\ UNCHANGED queue /\ (faults' = faults \/ Q!Fault)
  <2>1. Sms(q) \in Events
    BY <1>2 DEF PathInv, IntakeOK, At
  <2>2. O!OutboxNext /\ UNCHANGED <<stream, dlq>>
    BY <1>2, <2>1 DEF O!OutboxNext, O!Intake, Events
  <2> QED
    BY <1>2, <2>2 DEF Quiet
<1> QED
  BY <1>1, <1>2 DEF RequestStep, InsertSms, InsertEvent, CommitIntake, IntakeFails, Post

LEMMA StepKinds ==
  ASSUME PathInv, PipelineNext
  PROVE  \/ Quiet
         \/ \E r \in Relays, e \in Events : Sent(r, e)
         \/ Q!Consume /\ UNCHANGED <<outbox, intake>>
<1>1. CASE \E q \in Requests :
              RequestStep(q) \/ IntakeFails(q) \/ \E e \in Events : Post(q, e)
  BY <1>1, IntakeSteps
<1>2. CASE \E r \in Relays : RelayStep(r)
  BY <1>2, RelaySteps
<1>3. CASE \E r \in Relays : O!Crash(r) /\ Q!Fault /\ UNCHANGED <<queue, intake>>
  <2>1. O!OutboxNext /\ UNCHANGED <<stream, dlq>>
    BY <1>3 DEF O!OutboxNext, O!Crash
  <2> QED
    BY <1>3, <2>1 DEF Quiet
<1>4. CASE \E e \in Events : O!Expire(e) /\ UNCHANGED <<queue, faults, intake>>
  <2>1. O!OutboxNext /\ UNCHANGED <<stream, dlq>>
    BY <1>4 DEF O!OutboxNext, O!Expire, Events
  <2> QED
    BY <1>4, <2>1 DEF Quiet
<1>5. CASE Q!Consume /\ UNCHANGED <<outbox, intake>>
  BY <1>5
<1> QED
  BY <1>1, <1>2, <1>3, <1>4, <1>5 DEF PipelineNext

-----------------------------------------------------------------------------
(* The invariant, part by part *)

\* The outbox makes its own steps only, so that it keeps its invariant ...
LEMMA OutboxStep ==
  ASSUME PathInv, PipelineNext
  PROVE  [O!OutboxNext]_outbox
BY StepKinds DEF Quiet, Sent, outbox

LEMMA OutboxKept ==
  ASSUME PathInv, PipelineNext
  PROVE  O!OutboxInv'
<1>1. OP!OutboxInv
  BY SameOutboxInv DEF PathInv
<1>2. [OP!OutboxNext]_OP!outboxVars
  BY OutboxStep, SameOutboxNext DEF outbox, OP!outboxVars
<1>3. OP!OutboxInv'
  BY <1>1, <1>2, OutboxConstants, OP!OutboxInductive
<1> QED
  BY <1>3, SameOutboxInvNext

\* ... and what becomes of an event there is known.
LEMMA EventMoves ==
  ASSUME PathInv, PipelineNext, NEW e \in Events
  PROVE  /\ Stored(e) => Stored(e)'
         /\ ~Stored(e) => ~Stored(e)' \/ (O!Intake(e) /\ events'[e].status = "PENDING")
         /\ (\A q, r \in Relays : q = r) /\ events[e].status = "FAILED" =>
               events'[e].status = "FAILED"
<1>1. OP!OutboxInv
  BY SameOutboxInv DEF PathInv
<1>2. [OP!OutboxNext]_OP!outboxVars
  BY OutboxStep, SameOutboxNext DEF outbox, OP!outboxVars
<1>3. e \in OP!Events
  BY DEF OP!Events, Events, O!Events
<1>4. /\ events[e].status # "NONE" => events'[e].status # "NONE"
      /\ events[e].status = "NONE" =>
            events'[e].status = "NONE" \/ (OP!Intake(e) /\ events'[e].status = "PENDING")
      /\ OP!OneRelay /\ events[e].status = "FAILED" => events'[e].status = "FAILED"
  BY <1>1, <1>2, <1>3, OutboxConstants, OP!OutboxMoves
<1> QED
  BY <1>4, SameIntake DEF Stored, OP!OneRelay

LEMMA SentEvent ==
  ASSUME PathInv, NEW r \in Relays, NEW e \in Events, Sent(r, e)
  PROVE  /\ Stored(e)
         /\ (\A q, p \in Relays : q = p) => events[e].status # "FAILED"
<1>1. OP!OutboxInv
  BY SameOutboxInv DEF PathInv
<1>2. e \in OP!Events
  BY DEF OP!Events, Events, O!Events
<1>3. /\ events[e].status # "NONE"
      /\ OP!OneRelay => events[e].status # "FAILED"
  BY <1>1, <1>2, OutboxConstants, OP!SendMoves DEF Sent
<1> QED
  BY <1>3 DEF Stored, OP!OneRelay

LEMMA StreamFacts ==
  ASSUME PathInv
  PROVE  /\ QP!StreamInv /\ QP!HandOK
         /\ faults \in 0 .. MaxFaults
         /\ \A e : Q!Arrived(e) <=> QP!Arrived(e)
         /\ \A e : Q!Arrived(e)' <=> QP!Arrived(e)'
BY SameStreamInv, SameArrivedNext DEF PathInv, PipelineTypeOK, Q!StreamTypeOK

\* The stream, what was sent, what has arrived and what was done, when nothing
\* is sent ...
LEMMA QuietStream ==
  ASSUME PathInv, Quiet
  PROVE  /\ Q!StreamInv' /\ Q!HandOK'
         /\ \A e \in Events : Q!Arrived(e)' <=> Q!Arrived(e)
         /\ done' = done /\ stream' = stream /\ dlq' = dlq
<1>1. faults' \in 0 .. MaxFaults /\ faults' >= faults
  BY StreamFacts, PipelineAssumption DEF Quiet, Q!Fault
<1>2. UNCHANGED <<entries, letters, worker, replay, done, runs>>
  BY DEF Quiet, queue
<1>3. QP!StreamInv'
  BY <1>1, <1>2, StreamFacts, StreamConstants, QP!ElsewhereInv
<1>4. Q!HandOK'
  BY <1>2 DEF PathInv, Q!HandOK, Q!State
<1>5. \A e \in Events : Q!Arrived(e)' <=> Q!Arrived(e)
  BY <1>2 DEF Q!Arrived, Q!State
<1> QED
  BY <1>2, <1>3, <1>4, <1>5, SameStreamInvNext DEF Quiet

\* ... when an event is sent ...
LEMMA SentStream ==
  ASSUME PathInv, NEW r \in Relays, NEW e \in Events, Sent(r, e)
  PROVE  /\ Q!StreamInv' /\ Q!HandOK'
         /\ Q!Arrived(e)'
         /\ \A d \in Events \ {e} : Q!Arrived(d)' <=> Q!Arrived(d)
         /\ done' = done
<1>1. QP!Receive(e) /\ UNCHANGED <<worker, replay, done, runs, faults>> /\ e \in O!Events
  BY SameReceive DEF Sent, Events
<1>2. QP!StreamInv'
  BY <1>1, StreamFacts, StreamConstants, QP!ReceiveInv
<1>3. QP!SoftChange
  BY <1>1, StreamFacts, StreamConstants, QP!OthersSoft
<1>4. QP!HandOK'
  BY <1>1, <1>3, StreamFacts, StreamConstants, QP!HandSoft
<1>5. /\ QP!Arrived(e)'
      /\ \A d \in O!Events \ {e} : QP!Arrived(d)' <=> QP!Arrived(d)
  BY <1>1, StreamFacts, StreamConstants, QP!ReceiveMoves
<1> QED
  BY <1>1, <1>2, <1>4, <1>5, StreamFacts, SameStreamInvNext DEF Events

\* ... and when a worker or an admin is at work.
LEMMA ConsumeStream ==
  ASSUME PathInv, Q!Consume
  PROVE  /\ Q!StreamInv' /\ Q!HandOK'
         /\ \A e \in Events : Q!Arrived(e)' <=> Q!Arrived(e)
         /\ \A e \in Events : e \in done => e \in done'
         /\ \A e \in Events : e \in done' /\ e \notin done =>
               /\ e \in Valid /\ Q!Arrived(e)
               /\ (\A v, w \in Workers : v = w) =>
                     \E m \in Q!Entries : entries[m].payload = e /\ entries[m].state = "pending"
<1>1. QP!Consume /\ [QP!StreamNext]_QP!streamVars
  BY SameConsume DEF QP!StreamNext
<1>2. QP!StreamInv'
  BY <1>1, StreamFacts, StreamConstants, QP!StreamInductive
<1>3. QP!HandOK'
  BY <1>1, StreamFacts, StreamConstants, QP!HandConsume
<1>4. ASSUME NEW e \in Events
      PROVE  /\ Q!Arrived(e)' <=> Q!Arrived(e)
             /\ e \in done => e \in done'
             /\ e \in done' /\ e \notin done =>
                   /\ e \in Valid /\ Q!Arrived(e)
                   /\ (\A v, w \in Workers : v = w) =>
                         \E m \in Q!Entries : entries[m].payload = e /\ entries[m].state = "pending"
  <2>1. e \in O!Events
    BY DEF Events
  <2>2. /\ QP!Arrived(e)' <=> QP!Arrived(e)
        /\ e \in done => e \in done'
        /\ e \in done' /\ e \notin done =>
              /\ e \notin O!Events \ Valid /\ QP!Arrived(e)
              /\ QP!Alone =>
                    \E m \in QP!Entries : entries[m].payload = e /\ QP!State(m) = "pending"
    BY <1>1, <2>1, StreamFacts, StreamConstants, QP!ConsumeMoves
  <2> QED
    BY <2>1, <2>2, StreamFacts, SameData DEF QP!Alone, QP!State
<1> QED
  BY <1>2, <1>3, <1>4, SameStreamInvNext

LEMMA StreamKept ==
  ASSUME PathInv, PipelineNext
  PROVE  Q!StreamInv' /\ Q!HandOK'
BY StepKinds, QuietStream, SentStream, ConsumeStream

LEMMA SentKept ==
  ASSUME PathInv, PipelineNext
  PROVE  SentOK' /\ ArrivedOK' /\ DoneOK'
<1>1. \A e \in Events : Stored(e) => Stored(e)'
  BY EventMoves
<1>2. SentOK /\ ArrivedOK /\ DoneOK /\ done \subseteq Events
  BY DEF PathInv, PipelineTypeOK, Q!StreamTypeOK, Events
<1>3. done' \subseteq Events
  BY StreamKept DEF Q!StreamInv, Q!StreamTypeOK, Events
<1>4. CASE Quiet
  BY <1>1, <1>2, <1>4, QuietStream DEF SentOK, ArrivedOK, DoneOK
<1>5. ASSUME NEW r \in Relays, NEW e \in Events, Sent(r, e)
      PROVE  SentOK' /\ ArrivedOK' /\ DoneOK'
  <2>1. \A d \in Events \ {e} : stream'[d] = stream[d] /\ dlq'[d] = dlq[d]
    BY <1>5 DEF Sent
  <2> QED
    BY <1>1, <1>2, <1>5, <2>1, SentStream, SentEvent DEF SentOK, ArrivedOK, DoneOK
<1>6. CASE Q!Consume /\ UNCHANGED <<outbox, intake>>
  BY <1>1, <1>2, <1>3, <1>6, ConsumeStream DEF SentOK, ArrivedOK, DoneOK, outbox
<1> QED
  BY <1>4, <1>5, <1>6, StepKinds

\* The relay stores nothing and forgets nothing.
LEMMA RelayStored ==
  ASSUME PathInv, PipelineNext, NEW e \in Events,
         \/ \E r \in Relays : RelayStep(r) \/ O!Crash(r)
         \/ \E d \in Events : O!Expire(d)
  PROVE  Stored(e)' <=> Stored(e)
<1>1. OP!OutboxInv
  BY SameOutboxInv DEF PathInv
<1>2. [OP!OutboxNext]_OP!outboxVars
  BY OutboxStep, SameOutboxNext DEF outbox, OP!outboxVars
<1>3. e \in OP!Events /\ Events = OP!Events
  BY DEF OP!Events, Events, O!Events
<1>4. (\E r \in Relays : OP!Relay(r) \/ OP!Crash(r)) \/ (\E d \in OP!Events : OP!Expire(d))
  <2>1. ASSUME NEW r \in Relays, RelayStep(r) PROVE OP!Relay(r)
    BY <1>3, <2>1, SameBatch, SameSend DEF RelayStep, Send, SendFails, OP!Relay
  <2> QED
    BY <1>3, <2>1, SameBatch, SameIntake
<1> QED
  BY <1>1, <1>2, <1>3, <1>4, OutboxConstants, OP!OutboxMoves DEF Stored

\* A call that goes on, or ends.
LEMMA TurnOf ==
  ASSUME PathInv, NEW q \in Requests, NEW r \in RequestSet, Turn(q, r)
  PROVE  /\ request' \in [Requests -> RequestSet]
         /\ request'[q] = r /\ \A p \in Requests \ {q} : request'[p] = request[p]
BY DEF PathInv, PipelineTypeOK, RequestSet, Turn

\* The webhook's calls.
LEMMA IntakeKept ==
  ASSUME PathInv, PipelineNext
  PROVE  /\ request' \in [Requests -> RequestSet] /\ told' \subseteq Events
         /\ IntakeOK' /\ AnswerIsTrue'
<1>1. /\ request \in [Requests -> RequestSet] /\ told \subseteq Events
      /\ IntakeOK /\ AnswerIsTrue
      /\ \A e \in Events : Stored(e) => Stored(e)'
  BY EventMoves DEF PathInv, PipelineTypeOK, RequestSet
<1> DEFINE Goal == /\ request' \in [Requests -> RequestSet] /\ told' \subseteq Events
                   /\ IntakeOK' /\ AnswerIsTrue'
<1>2. ASSUME UNCHANGED intake, \A e \in Events : Stored(e)' <=> Stored(e) PROVE Goal
  <2>1. IntakeOK'
    BY <1>1, <1>2 DEF IntakeOK, Undecided, Sms, intake
  <2> QED
    BY <1>1, <1>2, <2>1 DEF AnswerIsTrue, intake
<1>3. ASSUME NEW q \in Requests, NEW e \in Events, Post(q, e) PROVE Goal
  <2>1. [pc |-> "insert", sms |-> e] \in RequestSet
    BY <1>3 DEF RequestSet
  <2>2. /\ request' \in [Requests -> RequestSet] /\ request'[q] = [pc |-> "insert", sms |-> e]
        /\ \A p \in Requests \ {q} : request'[p] = request[p]
    BY <1>3, <2>1, TurnOf DEF Post
  <2>3. UNCHANGED <<events, told>>
    BY <1>3 DEF Post, outbox
  <2>4. IntakeOK'
    BY <1>1, <1>3, <2>2, <2>3 DEF IntakeOK, Undecided, Sms, Stored
  <2> QED
    BY <1>1, <2>2, <2>3, <2>4 DEF AnswerIsTrue, Stored
<1>4. ASSUME NEW q \in Requests, InsertSms(q), ~Duplicate(q) PROVE Goal
  <2>1. /\ [request[q] EXCEPT !.pc = "event"] \in RequestSet
        /\ [request[q] EXCEPT !.pc = "event"].pc = "event"
        /\ [request[q] EXCEPT !.pc = "event"].sms = request[q].sms
    BY <1>1 DEF RequestSet
  <2>2. /\ request' \in [Requests -> RequestSet]
        /\ request'[q].pc = "event" /\ request'[q].sms = request[q].sms
        /\ \A p \in Requests \ {q} : request'[p] = request[p]
    BY <1>4, <2>1, TurnOf DEF InsertSms, Goto
  <2>3. /\ UNCHANGED <<events, told>> /\ ~Stored(Sms(q)) /\ ~Undecided(q) /\ Sms(q) \in Events
    BY <1>1, <1>4 DEF InsertSms, Duplicate, outbox, IntakeOK, At
  <2>4. IntakeOK'
    BY <1>1, <2>2, <2>3 DEF IntakeOK, Undecided, Sms, Stored
  <2> QED
    BY <1>1, <2>2, <2>3, <2>4 DEF AnswerIsTrue, Stored
<1>5. ASSUME NEW q \in Requests, InsertEvent(q) PROVE Goal
  <2>1. /\ [request[q] EXCEPT !.pc = "commit"] \in RequestSet
        /\ [request[q] EXCEPT !.pc = "commit"].pc = "commit"
        /\ [request[q] EXCEPT !.pc = "commit"].sms = request[q].sms
    BY <1>1 DEF RequestSet
  <2>2. /\ request' \in [Requests -> RequestSet]
        /\ request'[q].pc = "commit" /\ request'[q].sms = request[q].sms
        /\ \A p \in Requests \ {q} : request'[p] = request[p]
    BY <1>5, <2>1, TurnOf DEF InsertEvent, Goto
  <2>3. UNCHANGED <<events, told>> /\ request[q].pc = "event"
    BY <1>5 DEF InsertEvent, outbox, At
  <2>4. IntakeOK'
    BY <1>1, <2>2, <2>3 DEF IntakeOK, Undecided, Sms, Stored
  <2> QED
    BY <1>1, <2>2, <2>3, <2>4 DEF AnswerIsTrue, Stored
<1>6. ASSUME NEW q \in Requests, request[q].pc # "idle", End(q), NEW e, e = Sms(q),
             \/ UNCHANGED events
             \/ request[q].pc = "commit" /\ O!Intake(e),
             told' = told \/ (told' = told \cup {e} /\ Stored(e)')
      PROVE  Goal
  <2>1. NoRequest \in RequestSet /\ NoRequest.pc = "idle"
    BY DEF RequestSet, NoRequest
  <2>2. /\ request' \in [Requests -> RequestSet] /\ request'[q].pc = "idle"
        /\ \A p \in Requests \ {q} : request'[p] = request[p]
    BY <1>6, <2>1, TurnOf DEF End
  <2>3. e \in Events
    BY <1>1, <1>6 DEF IntakeOK
  <2>4. ASSUME NEW p \in Requests \ {q}, request[p].pc \in {"event", "commit"}
        PROVE  ~Stored(Sms(p))'
    <3>1. ~Stored(Sms(p)) /\ ~Undecided(p) /\ request'[p] = request[p] /\ Sms(p) \in Events
      BY <1>1, <2>2, <2>4 DEF IntakeOK
    <3>2. CASE UNCHANGED events
      BY <3>1, <3>2 DEF Stored, Sms
    <3>3. CASE request[q].pc = "commit" /\ O!Intake(e)
      <4>1. Sms(p) # e
        BY <1>6, <3>1, <3>3 DEF Undecided
      <4>2. events'[Sms(p)] = events[Sms(p)]
        BY <2>3, <3>1, <3>3, <4>1 DEF O!Intake, PathInv, PipelineTypeOK, O!OutboxTypeOK, Events
      <4> QED
        BY <3>1, <4>2 DEF Stored, Sms
    <3> QED
      BY <1>6, <3>2, <3>3
  <2>5. IntakeOK'
    BY <1>1, <2>2, <2>4 DEF IntakeOK, Undecided, Sms
  <2>6. AnswerIsTrue' /\ told' \subseteq Events
    BY <1>1, <1>6, <2>3 DEF AnswerIsTrue
  <2> QED
    BY <2>2, <2>5, <2>6
<1>7. ASSUME NEW e \in Events, O!Intake(e) PROVE Stored(e)'
  <2>1. events \in [O!Events -> [status : {"NONE", "PENDING", "PROCESSING", "PUBLISHED", "FAILED"},
                               retry : 0 .. MaxOutboxRetries, lock : {"none", "fresh", "old"}]]
    BY DEF PathInv, PipelineTypeOK, O!OutboxTypeOK
  <2>2. events'[e] = [events[e] EXCEPT !.status = "PENDING"]
    BY <1>7, <2>1 DEF O!Intake, Events
  <2> QED
    BY <2>1, <2>2 DEF Stored, Events
<1>8. ASSUME NEW q \in Requests,
             (InsertSms(q) /\ Duplicate(q)) \/ CommitIntake(q) \/ IntakeFails(q)
      PROVE  Goal
  <2>1. PICK e : e = Sms(q)
    OBVIOUS
  <2>2. request[q].pc # "idle" /\ e \in Events
    BY <1>1, <1>8, <2>1 DEF InsertSms, CommitIntake, IntakeFails, At, IntakeOK
  <2>3. CASE InsertSms(q) /\ Duplicate(q)
    <3>1. End(q) /\ UNCHANGED events /\ told' = told \cup {e}
      BY <2>1, <2>3 DEF InsertSms, Tell, outbox
    <3>2. Stored(e)'
      BY <1>1, <2>1, <2>2, <2>3 DEF Duplicate
    <3> HIDE DEF Goal
    <3> QED
      BY <1>6, <2>1, <2>2, <3>1, <3>2
  <2>4. CASE CommitIntake(q)
    <3>1. /\ End(q) /\ request[q].pc = "commit" /\ O!Intake(e)
          /\ told' = told \cup {e} /\ Stored(e)'
      BY <1>7, <2>1, <2>2, <2>4 DEF CommitIntake, Tell, At
    <3> HIDE DEF Goal
    <3> QED
      BY <1>6, <2>1, <2>2, <3>1
  <2>5. CASE IntakeFails(q)
    <3>1. /\ End(q) /\ told' = told
          /\ UNCHANGED events \/ (request[q].pc = "commit" /\ O!Intake(e))
      BY <2>1, <2>5 DEF IntakeFails, At, outbox
    <3> HIDE DEF Goal
    <3> QED
      BY <1>6, <2>1, <2>2, <3>1
  <2> QED
    BY <1>8, <2>3, <2>4, <2>5
<1> HIDE DEF Goal
<1>9. ASSUME \/ \E r \in Relays : RelayStep(r)
             \/ \E r \in Relays : O!Crash(r) /\ Q!Fault /\ UNCHANGED <<queue, intake>>
             \/ \E e \in Events : O!Expire(e) /\ UNCHANGED <<queue, faults, intake>>
      PROVE  Goal
  <2>1. UNCHANGED intake
    BY <1>9, RelaySteps DEF Sent
  <2>2. \A e \in Events : Stored(e)' <=> Stored(e)
    BY <1>9, RelayStored
  <2> QED
    BY <1>2, <2>1, <2>2
<1>10. ASSUME Q!Consume, UNCHANGED <<outbox, intake>> PROVE Goal
  <2>1. UNCHANGED intake /\ \A e \in Events : Stored(e)' <=> Stored(e)
    BY <1>10 DEF outbox, Stored
  <2> QED
    BY <1>2, <2>1
<1>11. ASSUME NEW q \in Requests,
              RequestStep(q) \/ IntakeFails(q) \/ \E e \in Events : Post(q, e)
       PROVE  Goal
  <2> QED
    BY <1>3, <1>4, <1>5, <1>8, <1>11 DEF RequestStep, InsertSms
<1>12. Goal
  BY <1>9, <1>10, <1>11 DEF PipelineNext
<1> QED
  BY <1>12 DEF Goal

LEMMA PathStutter == PathInv /\ UNCHANGED pipelineVars => PathInv'
<1> SUFFICES ASSUME PathInv, UNCHANGED pipelineVars PROVE PathInv'
  OBVIOUS
<1>1. UNCHANGED <<events, work, stream, dlq, errors, expired, crashes, entries, letters, worker,
                  replay, done, runs, faults, request, told>>
  BY DEF pipelineVars, outbox, queue, intake
<1>2. O!OutboxInv'
  <2>1. OP!OutboxInv /\ UNCHANGED OP!outboxVars
    BY <1>1, SameOutboxInv DEF PathInv, OP!outboxVars
  <2>2. OP!OutboxInv'
    BY <2>1, OutboxConstants, OP!OutboxInductive
  <2> QED
    BY <2>2, SameOutboxInvNext
<1>3. Quiet
  BY <1>1 DEF Quiet, outbox, queue
<1>4. Q!StreamInv' /\ Q!HandOK' /\ \A e \in Events : Q!Arrived(e)' <=> Q!Arrived(e)
  BY <1>3, QuietStream
<1>5. done \subseteq Events
  BY DEF PathInv, PipelineTypeOK, Q!StreamTypeOK, Events
<1>6. SentOK' /\ ArrivedOK' /\ DoneOK'
  BY <1>1, <1>4, <1>5 DEF PathInv, SentOK, ArrivedOK, DoneOK, Stored
<1>7. IntakeOK' /\ AnswerIsTrue'
  BY <1>1 DEF PathInv, IntakeOK, AnswerIsTrue, Undecided, Sms, Stored
<1>8. PipelineTypeOK'
  BY <1>1, <1>2, <1>4 DEF PathInv, PipelineTypeOK, O!OutboxInv, Q!StreamInv
<1> QED
  BY <1>2, <1>4, <1>6, <1>7, <1>8 DEF PathInv

LEMMA PathStep == PathInv /\ PipelineNext => PathInv'
<1> SUFFICES ASSUME PathInv, PipelineNext PROVE PathInv'
  OBVIOUS
<1>1. PipelineTypeOK'
  <2>1. O!OutboxTypeOK' /\ Q!StreamTypeOK'
    BY OutboxKept, StreamKept DEF O!OutboxInv, Q!StreamInv
  <2>2. request' \in [Requests -> RequestSet] /\ told' \subseteq Events /\ IntakeOK'
    BY IntakeKept
  <2>3. \A p, q \in Requests :
           request'[p].pc = "commit" /\ request'[q].pc = "commit" /\ p # q
               => request'[p].sms # request'[q].sms
    BY <2>2 DEF IntakeOK, Undecided, Sms
  <2> QED
    BY <2>1, <2>2, <2>3 DEF PipelineTypeOK, RequestSet
<1> QED
  BY <1>1, OutboxKept, StreamKept, SentKept, IntakeKept DEF PathInv

LEMMA PathStart == PipelineInit => PathInv
<1> SUFFICES ASSUME PipelineInit PROVE PathInv
  OBVIOUS
<1>1. O!OutboxInv
  BY SameOutboxInv, OutboxConstants, OP!InitInv DEF PipelineInit
<1>2. Q!StreamInv
  BY SameStreamInv, StreamConstants, QP!InitInv DEF PipelineInit
<1>3. /\ \A m \in Q!Entries : entries[m].state = "absent"
      /\ \A l \in Q!Letters : letters[l].state = "absent"
      /\ \A w \in Workers : worker[w].batch = {}
      /\ done = {}
  BY DEF PipelineInit, Q!StreamInit, Q!NoEntry, Q!Absent, Q!Loop
<1>4. /\ \A e \in Events : stream[e] = 0 /\ dlq[e] = 0
      /\ \A e \in Events : ~Stored(e)
  BY DEF PipelineInit, O!OutboxInit, Stored, Events
<1>5. /\ \A q \in Requests : request[q].pc = "idle"
      /\ request \in [Requests -> RequestSet] /\ told = {}
  BY DEF PipelineInit, NoRequest, RequestSet
<1>6. \A e : ~Q!Arrived(e)
  BY <1>3 DEF Q!Arrived, Q!State
<1>7. Q!HandOK
  BY <1>3 DEF Q!HandOK
<1>8. IntakeOK /\ SentOK /\ ArrivedOK /\ DoneOK /\ AnswerIsTrue
  BY <1>3, <1>4, <1>5, <1>6 DEF IntakeOK, SentOK, ArrivedOK, DoneOK, AnswerIsTrue
<1>9. PipelineTypeOK
  BY <1>1, <1>2, <1>5 DEF PipelineTypeOK, O!OutboxInv, Q!StreamInv, RequestSet
<1> QED
  BY <1>1, <1>2, <1>7, <1>8, <1>9 DEF PathInv

THEOREM PathInductive == PathInv /\ [PipelineNext]_pipelineVars => PathInv'
BY PathStep, PathStutter

\* service.py:262-326, tasks.py:78-215, worker.py:74-160, dlq_manager.py:38-55.
\* What each part of the path relies on about the part before it holds in every
\* state.
THEOREM PathInvariance == PipelineSpec => []PathInv
BY PathStart, PathInductive, PTL DEF PipelineSpec

\* service.py:262-326, router.py:106-118.  The webhook answers accepted or
\* duplicate only for what is stored, however its calls race.
THEOREM AnswerIsTrueHolds == PipelineSpec => []AnswerIsTrue
BY PathInvariance, PTL DEF PathInv

-----------------------------------------------------------------------------
(* Where a notification is *)

There == {"stream", "letters", "done"}

Before == {"nowhere", "outbox", "failed"}

OneRelay == \A q, r \in Relays : q = r

OneWorker == \A v, w \in Workers : v = w

\* What is PUBLISHED has arrived.
LEMMA StatusOf ==
  ASSUME PathInv, NEW e \in Events, ~Q!Arrived(e)
  PROVE  events[e].status \in {"NONE", "PENDING", "PROCESSING", "FAILED"}
<1>1. stream \in [Events -> 0 .. 2]
      /\ events[e].status \in {"NONE", "PENDING", "PROCESSING", "PUBLISHED", "FAILED"}
  BY DEF PathInv, PipelineTypeOK, O!OutboxTypeOK, Events
<1>2. ~(stream[e] > 0)
  BY DEF PathInv, SentOK
<1>3. events[e].status = "PUBLISHED" => stream[e] > 0
  BY DEF PathInv, O!OutboxInv, O!EventOK, O!RowOK, O!Row, Events
<1> QED
  BY <1>1, <1>2, <1>3

LEMMA StatusNext ==
  ASSUME PathInv', NEW e \in Events, ~Q!Arrived(e)'
  PROVE  events'[e].status \in {"NONE", "PENDING", "PROCESSING", "FAILED"}
<1>1. stream' \in [Events -> 0 .. 2]
      /\ events'[e].status \in {"NONE", "PENDING", "PROCESSING", "PUBLISHED", "FAILED"}
  BY DEF PathInv, PipelineTypeOK, O!OutboxTypeOK, Events
<1>2. ~(stream'[e] > 0)
  BY DEF PathInv, SentOK
<1>3. events'[e].status = "PUBLISHED" => stream'[e] > 0
  BY DEF PathInv, O!OutboxInv, O!EventOK, O!RowOK, O!Row, Events
<1> QED
  BY <1>1, <1>2, <1>3

\* What has arrived in the stream is there, what has not is before it.
LEMMA PlaceOf ==
  ASSUME PathInv, NEW e \in Events
  PROVE  /\ Q!Arrived(e) => Place(e) \in There
         /\ ~Q!Arrived(e) => /\ e \notin done
                             /\ Place(e) \in Before
                             /\ Place(e) = "failed" <=> events[e].status = "FAILED"
                             /\ Place(e) = "nowhere" <=> ~Stored(e)
<1>1. ASSUME Q!Arrived(e) PROVE Place(e) \in There
  <2>1. Q!Seen(e) /\ e \in O!Events
    BY <1>1 DEF Q!Arrived, Q!Seen, Events
  <2>2. Q!Kept(e)
    BY <2>1 DEF PathInv, Q!StreamInv
  <2> QED
    BY <2>2 DEF Q!Kept, Q!Waits, Q!State, Place, There
<1>2. ASSUME ~Q!Arrived(e)
      PROVE  /\ e \notin done
             /\ Place(e) \in Before
             /\ Place(e) = "failed" <=> events[e].status = "FAILED"
             /\ Place(e) = "nowhere" <=> ~Stored(e)
  <2>1. e \notin done
    BY <1>2 DEF PathInv, DoneOK
  <2>2. /\ ~ \E m \in Q!Entries : entries[m].payload = e /\ entries[m].state \in {"new", "pending"}
        /\ ~ \E l \in Q!Letters : letters[l].payload = e /\ letters[l].state = "there"
    BY <1>2 DEF Q!Arrived, Q!State
  <2>3. events[e].status \in {"NONE", "PENDING", "PROCESSING", "FAILED"}
    BY <1>2, StatusOf
  <2> QED
    BY <2>1, <2>2, <2>3 DEF Place, Before, Stored
<1> QED
  BY <1>1, <1>2

LEMMA PlaceDone ==
  ASSUME NEW e
  PROVE  Place(e) = "done" <=> e \in done
BY DEF Place

\* A notification is given up in the outbox, and nowhere after it, for a cause.
LEMMA FailedForCause == PathInv => FailedForCauseOnly
<1> SUFFICES ASSUME PathInv, NEW e \in Events, Place(e) = "failed"
             PROVE  errors[e] = MaxOutboxRetries
  BY DEF FailedForCauseOnly
<1>1. ~Q!Arrived(e) /\ events[e].status = "FAILED"
  BY PlaceOf DEF There
<1>2. O!GivenUp(e)
  BY <1>1 DEF PathInv, O!OutboxInv, O!EventOK, O!RowOK, O!Row, Events
<1>3. dlq \in [Events -> 0 .. 2]
  BY DEF PathInv, PipelineTypeOK, O!OutboxTypeOK, Events
<1> QED
  BY <1>1, <1>2, <1>3 DEF PathInv, SentOK, O!GivenUp

\* tasks.py:84-145.  What was given up in the outbox and is in no other place
\* had its sends raised MAX_OUTBOX_RETRIES times.
THEOREM FailedForCauseOnlyHolds == PipelineSpec => []FailedForCauseOnly
BY PathInvariance, FailedForCause, PTL

-----------------------------------------------------------------------------
(* The pipeline implements Journey *)

\* What a step does with one notification, before and after it has arrived.
LEMMA ArrivedMoves ==
  ASSUME PathInv, PipelineNext, NEW e \in Events, Q!Arrived(e)
  PROVE  /\ Q!Arrived(e)'
         /\ e \in done => e \in done'
         /\ e \in done' /\ e \notin done =>
               /\ e \in Valid
               /\ OneWorker => Place(e) = "stream"
<1>1. CASE Quiet
  BY <1>1, QuietStream
<1>2. CASE \E r \in Relays, d \in Events : Sent(r, d)
  BY <1>2, SentStream
<1>3. CASE Q!Consume /\ UNCHANGED <<outbox, intake>>
  BY <1>3, ConsumeStream DEF OneWorker, Place
<1> QED
  BY <1>1, <1>2, <1>3, StepKinds

LEMMA UnsentMoves ==
  ASSUME PathInv, PipelineNext, NEW e \in Events, ~Q!Arrived(e)
  PROVE  /\ e \notin done'
         /\ Q!Arrived(e)' => Stored(e) /\ (OneRelay => events[e].status # "FAILED")
<1>1. e \notin done
  BY DEF PathInv, DoneOK
<1>2. CASE Quiet
  BY <1>1, <1>2, QuietStream
<1>3. ASSUME NEW r \in Relays, NEW d \in Events, Sent(r, d)
      PROVE  /\ e \notin done'
             /\ Q!Arrived(e)' => Stored(e) /\ (OneRelay => events[e].status # "FAILED")
  <2>1. done' = done /\ (Q!Arrived(e)' => e = d)
    BY <1>3, SentStream
  <2>2. Stored(d) /\ (OneRelay => events[d].status # "FAILED")
    BY <1>3, SentEvent DEF OneRelay
  <2> QED
    BY <1>1, <2>1, <2>2
<1>4. CASE Q!Consume /\ UNCHANGED <<outbox, intake>>
  BY <1>1, <1>4, ConsumeStream
<1> QED
  BY <1>2, <1>3, <1>4, StepKinds

LEMMA PlaceOfNext ==
  ASSUME PathInv', NEW e \in Events
  PROVE  /\ Q!Arrived(e)' => Place(e)' \in There
         /\ ~Q!Arrived(e)' => /\ Place(e)' \in Before
                              /\ Place(e)' = "failed" <=> events'[e].status = "FAILED"
                              /\ Place(e)' = "nowhere" <=> ~Stored(e)'
         /\ Place(e)' = "done" <=> e \in done'
<1>1. Q!Arrived(e)' => Place(e)' \in There
  <2>1. ASSUME Q!Arrived(e)' PROVE Place(e)' \in There
    <3>1. Q!Seen(e)' /\ e \in O!Events
      BY <2>1 DEF Q!Arrived, Q!Seen, Events
    <3>2. Q!Kept(e)'
      BY <3>1 DEF PathInv, Q!StreamInv
    <3> QED
      BY <3>2 DEF Q!Kept, Q!Waits, Q!State, Place, There
  <2> QED
    BY <2>1
<1>2. ASSUME ~Q!Arrived(e)'
      PROVE  /\ Place(e)' \in Before
             /\ Place(e)' = "failed" <=> events'[e].status = "FAILED"
             /\ Place(e)' = "nowhere" <=> ~Stored(e)'
  <2>1. e \notin done'
    BY <1>2 DEF PathInv, DoneOK
  <2>2. /\ ~(\E m \in Q!Entries : entries[m].payload = e
                                  /\ entries[m].state \in {"new", "pending"})'
        /\ ~(\E l \in Q!Letters : letters[l].payload = e /\ letters[l].state = "there")'
    BY <1>2 DEF Q!Arrived, Q!State
  <2>3. events'[e].status \in {"NONE", "PENDING", "PROCESSING", "FAILED"}
    BY <1>2, StatusNext
  <2> QED
    BY <2>1, <2>2, <2>3 DEF Place, Before, Stored
<1>3. Place(e)' = "done" <=> e \in done'
  BY DEF Place
<1> QED
  BY <1>1, <1>2, <1>3

\* One notification, in one step.
LEMMA PlaceMoves ==
  ASSUME PathInv, PipelineNext, NEW e \in Events
  PROVE  /\ Place(e)' \in {"nowhere", "outbox", "stream", "letters", "failed", "done"}
         /\ \/ Place(e)' = Place(e)
            \/ /\ <<Place(e), Place(e)'>> \in J!Moves \cup J!Overtaken
               /\ Place(e)' = "done" => e \in Valid
<1>1. PathInv'
  BY PathStep
<1>2. CASE Q!Arrived(e)
  <2>1. /\ Q!Arrived(e)' /\ (e \in done => e \in done')
        /\ e \in done' /\ e \notin done => e \in Valid /\ (OneWorker => Place(e) = "stream")
    BY <1>2, ArrivedMoves
  <2>2. Place(e) \in There /\ Place(e)' \in There
    BY <1>1, <1>2, <2>1, PlaceOf, PlaceOfNext
  <2>3. (Place(e) = "done" <=> e \in done) /\ (Place(e)' = "done" <=> e \in done')
    BY <1>1, PlaceDone, PlaceOfNext
  <2>4. CASE Place(e)' = "done" /\ Place(e) # "done"
    BY <2>1, <2>2, <2>3, <2>4 DEF There, J!Moves, J!Overtaken, OneWorker
  <2>5. CASE Place(e)' # "done" \/ Place(e) = "done"
    BY <2>1, <2>2, <2>3, <2>5 DEF There, J!Moves
  <2> QED
    BY <2>2, <2>4, <2>5 DEF There
<1>3. CASE ~Q!Arrived(e) /\ Q!Arrived(e)'
  <2>1. e \notin done' /\ Stored(e) /\ (OneRelay => events[e].status # "FAILED")
    BY <1>3, UnsentMoves
  <2>2. Place(e) \in {"outbox", "failed"} /\ (OneRelay => Place(e) = "outbox")
    BY <1>3, <2>1, PlaceOf DEF Before
  <2>3. Place(e)' \in {"stream", "letters"}
    BY <1>1, <1>3, <2>1, PlaceOfNext DEF There
  <2> QED
    BY <2>2, <2>3 DEF J!Moves, J!Overtaken, OneRelay
<1>4. CASE ~Q!Arrived(e) /\ ~Q!Arrived(e)'
  <2>1. /\ Place(e) \in Before /\ Place(e)' \in Before
        /\ Place(e) = "failed" <=> events[e].status = "FAILED"
        /\ Place(e)' = "failed" <=> events'[e].status = "FAILED"
        /\ Place(e) = "nowhere" <=> ~Stored(e)
        /\ Place(e)' = "nowhere" <=> ~Stored(e)'
    BY <1>1, <1>4, PlaceOf, PlaceOfNext
  <2>2. /\ Stored(e) => Stored(e)'
        /\ ~Stored(e) => ~Stored(e)' \/ events'[e].status = "PENDING"
        /\ OneRelay /\ events[e].status = "FAILED" => events'[e].status = "FAILED"
    BY EventMoves DEF OneRelay
  <2>3. CASE Place(e) = "nowhere"
    BY <2>1, <2>2, <2>3 DEF Before, J!Moves
  <2>4. CASE Place(e) = "outbox"
    BY <2>1, <2>2, <2>4 DEF Before, J!Moves
  <2>5. CASE Place(e) = "failed"
    BY <2>1, <2>2, <2>5 DEF Before, J!Overtaken, OneRelay
  <2> QED
    BY <2>1, <2>3, <2>4, <2>5 DEF Before
<1> QED
  BY <1>2, <1>3, <1>4



LEMMA JourneyStart == PipelineInit => J!JourneyInit
<1> SUFFICES ASSUME PipelineInit, NEW e \in Events PROVE Place(e) = "nowhere"
  BY DEF J!JourneyInit
<1>1. PathInv /\ ~Q!Arrived(e)
  <2>1. /\ \A m \in Q!Entries : entries[m].state = "absent"
        /\ \A l \in Q!Letters : letters[l].state = "absent"
    BY DEF PipelineInit, Q!StreamInit, Q!NoEntry, Q!Absent
  <2> QED
    BY <2>1, PathStart DEF Q!Arrived, Q!State
<1>2. ~Stored(e)
  BY DEF PipelineInit, O!OutboxInit, Stored, Events
<1> QED
  BY <1>1, <1>2, PlaceOf

LEMMA PlaceStutter ==
  ASSUME UNCHANGED pipelineVars, NEW e
  PROVE  Place(e)' = Place(e)
<1>1. UNCHANGED <<entries, letters, done, events>>
  BY DEF pipelineVars, outbox, queue
<1> QED
  BY <1>1 DEF Place, Stored

LEMMA JourneyStep ==
  ASSUME PathInv, [PipelineNext]_pipelineVars
  PROVE  [J!Travel]_([e \in Events |-> Place(e)])
<1>1. CASE PipelineNext
  BY <1>1, PlaceMoves DEF J!Travel
<1>2. CASE UNCHANGED pipelineVars
  BY <1>2, PlaceStutter
<1> QED
  BY <1>1, <1>2

\* service.py:292-326, tasks.py:78-215, worker.py:74-142, dlq_manager.py:38-55.
\* The whole path implements the journey: whatever fails, is repeated or races,
\* a notification that was stored is always in one of the places where someone
\* goes on with it or can see it, and is handled only if it has an amount.
THEOREM NotificationKeptHolds == PipelineSpec => NotificationKept
<1>1. PathInv /\ [PipelineNext]_pipelineVars
        => [J!Travel]_([e \in Events |-> Place(e)])
  BY JourneyStep
<1> QED
  BY <1>1, JourneyStart, PathInvariance, PTL DEF PipelineSpec, NotificationKept, J!JourneySpec

-----------------------------------------------------------------------------
(* The parts in the path *)

\* tasks.py:15-215.  In the path the outbox does what OutboxRelay says and
\* nothing else, though its sends are now the XADDs of a stream that others read
\* and its intake is the commit of a webhook call.
THEOREM OutboxRefined == PipelineSpec => O!OutboxSpec
<1>1. PipelineInit => O!OutboxInit
  BY DEF PipelineInit
<1>2. PathInv /\ [PipelineNext]_pipelineVars => [O!OutboxNext]_O!outboxVars
  BY OutboxStep DEF pipelineVars, outbox, O!outboxVars
<1> QED
  BY <1>1, <1>2, PathInvariance, PTL DEF PipelineSpec, O!OutboxSpec

\* worker.py:74-142, dlq_manager.py:38-55, tasks.py:123-152.  In the path what
\* was sent is done or held by the stream or the dead letters, and what is
\* PUBLISHED was sent.
THEOREM PublishedIsThere ==
  PipelineSpec => [](Q!NothingLost /\ \A e \in Events :
                       events[e].status = "PUBLISHED" => Place(e) \in There)
<1>1. PathInv => Q!NothingLost
  BY DEF PathInv, Q!StreamInv, Q!NothingLost, Q!Kept, Q!Held, Q!Waits, Q!State
<1>2. ASSUME PathInv, NEW e \in Events, events[e].status = "PUBLISHED"
      PROVE  Place(e) \in There
  BY <1>2, StatusOf, PlaceOf
<1>3. PathInv => Q!NothingLost /\ \A e \in Events :
                   events[e].status = "PUBLISHED" => Place(e) \in There
  BY <1>1, <1>2
<1> QED
  BY <1>3, PathInvariance, PTL
=============================================================================
