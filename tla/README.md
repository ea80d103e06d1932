# A TLA+ model of payment reconciliation

The program matches card-to-card transfers to orders by their exact amount:
every pending order gets an amount nobody else has, a bank notification (SMS)
is forwarded to the program, and the pending order of that amount becomes paid.
This directory holds a model of that program, the TLC runs that check it and the
TLAPS proofs of its main safety properties. Paths are relative to `src/app/`.

## 1. Inventory

### Parts, state, operations

| part | code | state | operations |
|---|---|---|---|
| payment intents | `modules/order/models.py` | table `payment_intent` (with `orders`), unique `sms_transaction_id`, partial unique index on the amount of PENDING rows, row locks | insert, settle, confirm |
| amount pool | `modules/order/service.py`, `db/redis_db.py` | Redis sets `amounts`, `free_amounts`, `pending_orders` | SPOP, SMOVE, SADD, SDIFFSTORE |
| order creation | `create_order_service`, `create_order` | one database transaction and the amount in hand | allocate, fall back, insert, compensate, commit |
| payment handler | `handle_payment`, `process_pending_payment` | one database transaction per delivery | look up, lock, flush, commit, release |
| manual confirmation | `modules/admin/service.py`, `router.py` | one database transaction | lock, flush, release, commit |
| start of the API | `main.py` `lifespan` | cursor and buffer | seed, clear, scan, add, rebuild |
| intake | `receive_transaction`, `handle_transaction_service` | `sms_transactions`, `outbox_order_event` | store both in one transaction |
| outbox relay | `modules/order/tasks.py`, `scheduler.py` | event rows: status, `locked_at`, `retry_count` | claim, send, write back |
| stream and worker | `worker.py`, `modules/order/queue_manager.py` | Redis stream, consumer group with its pending list, dead letter stream | claim stale, read, handle, acknowledge, bury |
| dead letters | `modules/admin/dlq_manager.py` | dead letter stream | list, replay |
| sessions | `modules/users/*` | users, refresh tokens with families, grace entries in Redis | sign up, login, refresh |
| queries | `get_pending_orders`, `get_all_users`, `get_dead_letters` | none | keyset pages |

The API process (requests, admins, relay job) and the worker process share
PostgreSQL and Redis and nothing else. The path of a notification is: webhook ->
outbox row -> relay -> stream -> worker -> handler -> intent row -> free amount.

### What is hard here

* Two stores and no common transaction. Every await between a Redis command and
  a database statement is a point where other requests, deliveries and admins
  run, where a process can die, and where either store can raise after it has
  executed the command.
* Correctness rests on PostgreSQL rules the code never states: an insert waits
  for open transactions that decide the partial index, a SELECT FOR UPDATE tests
  its row again after the wait, a unique conflict shows at the flush.
* At-least-once delivery at three places (relay, pending list, replay), so that a
  notification can be handled again at any later time, also after its amount
  was given to somebody else.
* Amounts are reused: a late message about an old amount looks like a message
  about the new order.
* Time limits that are guesses about liveness: five minutes for a relay, six
  seconds for a worker, thirty seconds for the grace entry of a refresh token.
* A refresh token that is used twice is either a retry or a theft. The program
  tells them apart by a Redis entry that is written after the commit, and revokes
  a family with an UPDATE that does not see rows inserted meanwhile.
* Lists are read page by page, by id, while rows are committed out of the order of
  their ids and leave the list.

The full list, with the line where each hazard bites and the property that
covers it, is `hazards` in `PROJECT.json`.

## 2. Modules

| module | models | uses |
|---|---|---|
| `PaymentStore` | intent rows, indexes, row locks | |
| `AmountPool` | the three Redis sets; the budget of faults | |
| `OrderCreation` | `POST /orders/create-order` | both |
| `PaymentHandler` | one delivery | both |
| `AdminConfirm` | one confirmation | both |
| `Startup` | the lifespan until the API serves | both |
| `Reconciliation` | all of these over one store and one pool, customers, restarts; the properties | all four |
| `Ledger` | the abstract promise: intents that appear and are settled | |
| `ReconciliationInv`, `ReconciliationProofs` | the inductive invariant, the theorems | `Reconciliation` |
| `PoolProofs` | the theorems on who has an amount | `ReconciliationProofs` |
| `OutboxRelay` | intake (as one step) and relay | |
| `OutboxRelayInv`, `OutboxRelayProofs` | the inductive invariant, the theorems | `OutboxRelay` |
| `StreamWorker` | stream, consumer group, worker loop, replay | |
| `StreamWorkerInv`, `StreamWorkerProofs` | the inductive invariant, the theorems | `StreamWorker` |
| `Pipeline` | webhook, relay, stream, worker and replay, composed | instances of `OutboxRelayInv`, `StreamWorkerInv` |
| `PipelineInv`, `PipelineProofs` | the inductive invariant, the theorems | `Pipeline`; instances of `OutboxRelayProofs`, `StreamWorkerProofs` |
| `Journey` | the abstract promise for one notification on that path | |
| `RefreshTokens` | login, exchange, replay detection, grace entries, expiry | |
| `RefreshTokensInv`, `RefreshTokensProofs` | the inductive invariant, the theorems | `RefreshTokens` |
| `Pages` | the three listings with a cursor; their inductive invariant | |
| `PagesProofs` | the theorems | `Pages` |
| `MCReconciliation`, `MCOutbox`, `MCStream`, `MCTokens`, `MCPipeline` | values for TLC | |

### How state and actions correspond to the code

*One row per order.* An order and its intent are inserted by one flush and
marked PAID by one flush, so `intents[i]` stands for both. `NEW` is the row of a
transaction that is not committed: no other reader sees it, the index does.
`rowLock[i]` is what an open transaction holds: `"locked"` after the SELECT FOR
UPDATE, `"updated"` when PENDING -> PAID is flushed. `Conflict` is the immediate
IntegrityError, `Undecided` the wait. `orders.id` and the unused statuses
(REVIEWED, FAILED, EXPIRED of an order: no code sets them) are left out.

*Steps.* Every await that reaches a store is an action of its own, with `pc`
naming the next one: `SpopAmount`, `TrackAmount`, `InsertOrder`, `CommitOrder`
for a request; `CheckProcessed`, `SelectIntent`, `LockIntent`, `FlushPaid`,
`CommitPaid`, `ReleaseAmount` for a delivery; and so on. SELECT FOR UPDATE is two
steps, because the row it chose in its snapshot can change while it waits.
A step `...Fails` is the same command raising: for Redis, executed or not.

*Redis values.* The code ignores what SMOVE answers, so `Track`, `Untrack` and
`Release` do nothing when the member is not there. This is what makes an amount
leave `amounts` at its first use and never return (runs `tracked`, `pool`).

*Customers.* `payer` is a history variable: which intent the customer behind a
notification meant. A customer pays once, while the order is pending. A paid
notification may be delivered any number of times, by any worker: the module
does not assume the stream to be exactly-once or ordered, and `StreamWorker` and
`OutboxRelay` show why it is not.

*Failures.* `WorkerCrash` ends one delivery and rolls its transaction back.
`ApiCrash` ends all requests and confirmations, also a startup that raised, and
starts again. `Budget` bounds each kind of fault.

*Relay.* `work[r]` is the batch of relay `r` with the `retry_count` it read and
the outcomes it will write; `Finish` writes them whoever holds the rows now, as
`process_outbox_updates` does. Time is `Expire`: a lock becomes old at any
moment. Redis may raise at every send, without bound.

*Worker.* A batch is a set of entries handled in the order of their ids, which is
the order XPENDING and XREADGROUP give. `attempts` is 0 for a fresh message and
the count XPENDING told, which is the one before the claim, for a stale one. An
error in the claim, the read, an acknowledgement after success, or the burial of
a message without an amount leaves the loop (`Again`); errors inside
`_handle_failure` are caught and the next message is taken.

*Pipeline.* The webhook is in steps (`InsertSms` may wait on the unique constraint
for the open transaction of another call, `InsertEvent`, `CommitIntake`); a send
of the relay is at once the XADD of the stream, and a send that raised may have
been executed. The forwarder posts a notification until it is answered; calls that
meet are calls for the same notification, because others share nothing. All parts
draw on one budget `MaxFaults`, except the sends of the relay, which raise at will.
What the handler does is a success or a failure here; its steps are in
`PaymentHandler`.

*Refresh tokens.* `tokens[t]` is the row of the token with id `t`; a family is
named by its first token (the code draws a UUID). `parent` is history, no column
has it. `call[c].rows` are the rows the open transaction of a call has changed, and
so holds. The conditional UPDATE of `revoke_refresh_token` waits for the row and
tests its condition again (`Revoke`); the UPDATE of `revoke_token_family` takes the
rows of its snapshot one after the other (`StartSweep`, `SweepRow`), in the order
of their ids; where PostgreSQL would break a deadlock of two such calls, one of
them gets an error, which is `CallFails`. `clock` orders the ends of lifetimes: the
row of a token and its JWT end a moment apart. Nothing deletes or renames a user,
so the branches for a missing user, and for a row of another user, are not
reachable and are left out.

*Pages.* Ids are taken at the flush and become visible at the commit, in any order.
The reader asks with the cursor of the page before. The parameter checks of
`CursorParams` (limit 0 is admitted, a cursor over 20000 is not) are
`UsersPageFails`, with a small number in the place of 20000.

*Slips.* Definitions whose comment begins with "A plausible slip" are variants of
the operator that follows them. No specification uses them: they are there to show
that each property fails when the code is changed in such a way.

## 3. Runs

`CHECK_DEADLOCK FALSE` is set everywhere: ids are bounded, and a system whose
ids are used up, with all messages acknowledged, rests.

| run | question | instance |
|---|---|---|
| `faults` | `TypeOK`, `UniquePending`, `OneIntentPerSms`, `RightOrder`, `PayerInv`, `NotFoundOnlyIfSettled`, `LedgerSpec`; `PoolInv`: an amount has one owner, or it is free; `BootRebuild`: startup misses no pending intent | 3 intents, 3 amounts of which 2 are in the pool, seeded in two batches, pages of 1, buffer of 2, 2 requests, 2 deliveries, one fault of each kind, one restart |
| `admin` | `IInv`, `FreeNotHeld`, `LedgerSpec`, and `RequestsAnswered`, `DeliveriesEnd` under fairness, with an admin | 2 intents, 2 amounts of which 1 is in the pool, 2 requests, 2 deliveries, an admin, a Redis and a database fault |
| `relays` | `OutboxInv`, `PublishedIsSent`, `FailedForCause`, `SentOnce`, `Final`, `EventsEnd` | two relays, a valid and an invalid event, batches of 2, 2 retries, a crash, unbounded Redis errors |
| `stream` | `StreamInv`, `HandledOnce`, `NothingLost`, `BuriedAfterRetries`, `EntriesEnd` | one worker, two admins, two payloads of which one has no amount, 3 retries, one fault |
| `sessions` | `TokensInv`, `OneLive`, `SamePair`, `GivenIsStored`, `SessionKept`, `AlarmCloses`, `AlarmForCause`, `CallsEnd` | two calls, three tokens, one lifetime that ends, lapsing grace entries, one fault |
| `pages` | `PagesInv`, `PagesComplete`, `NoRepeat` | each listing, five rows, limits 0 to 2 |
| `pipeline` | `PathInv`, `AnswerIsTrue`, `FailedForCauseOnly`, `NotificationKept` | two webhook calls, a valid and an invalid notification, a relay, a worker, an admin, one retry each, one fault |
| `tracked`, `matched`, `pool`, `retries`, `replays` | five sentences of the repository's README that the code does not keep | smallest instance that shows it |

Why the bounds are enough to mean something: two intents of one amount are the
least at which an amount is used again; two deliveries and two notifications the
least at which an old delivery meets a new order; a third intent and amount let
startup's pages and a second pair of processes interfere. The pool is smaller than
the set of amounts so that an amount can come from Redis and from the fallback.
Two relays meet over two events, one of which each batch may miss; two retries
separate a count that is one too small from the right one. Three tokens are a
login and two exchanges, or two sessions and an exchange, so that an alarm for the
first token sweeps a family while its newest token is exchanged. Five rows with
pages of two give a first, a middle and a last page. In `pipeline` calls are
interchangeable, in `faults` requests, deliveries and notifications of one amount, and
the symmetry is used (neither run has liveness); one retry keeps the composition small,
the limits themselves are the questions of `relays` and `stream`. The proofs
remove the bounds for the safety properties of section 4.

`FreeNotHeld` is claimed only while Redis never raised, the API never
restarted, and, with an admin, no database fault followed the early release:
outside these the code does not promise it, and TLC shows how it fails (an
amount whose compensation was lost, a release that reaches a set rebuilt
meanwhile, a rollback after the admin's SMOVE). `BootRebuild` is claimed up to
the first restart, without Redis errors or a database error after an early
release, for the same reason.
`HandledOnce` is claimed for one worker (as deployed) whose commands succeed.
`AlarmCloses` excepts the tokens that were committed while their family was swept and
what these are exchanged for, and
`AlarmForCause` the moment between the commit of an exchange and its grace entry:
both are what the code does, and the findings `replays` and `retries`. The history
`spared` holds the excepted tokens; an alarm takes out those its statement saw, so
that an exception ends with the next alarm of the family. The exchange of an
excepted token needs a fourth row: that part is the theorem's alone.

### Abstract specifications

`LedgerSpec` (runs `faults`, `admin`; proved) says that intents only appear, with an
amount no pending intent has, and are settled once, each notification for one
intent. `NotificationKept` (run `pipeline`; proved) is `Journey`: a stored notification moves
from the outbox to the stream or the dead letters and between these two until it is
done, or is FAILED in the outbox; it is never nowhere. The mapping `Place` takes the
farthest place that holds it, as a repeated send leaves copies behind; a row that is
PUBLISHED holds nothing any more, since no relay takes it again.

`Journey` has two constants for how many processes there are. As deployed, one API
process runs the relay and one container the worker (`docker-compose.yml`), and then a
notification that was given up stays so, and what is done comes out of the stream.
With a second relay one that was overtaken by an old lock can still send what the
other has given up, or write its own outcome over it; with a second worker one can
handle a message that the other has buried. These are the moves `Overtaken`, and the
only ones that are added.

### Fairness

`FairSpec` assumes weak fairness of each request, delivery, confirmation and of
startup: they are coroutines and database sessions that go on when they can. Where
one waits (the `wait` step) it is for a PostgreSQL lock or index entry, which is
freed when the other transaction ends. Nothing is assumed of customers, deliveries
that have not begun, new requests, or faults. `OutboxFairSpec` assumes the job (an
interval of one minute, `scheduler.py:7-14`) and the passing of time.
`StreamFairSpec` assumes the worker's loop, which restarts itself
(`worker.py:152-160`), and the passing of time. `TokensFairSpec` assumes strong
fairness of the steps of each call: a call that waits for a row is enabled again
and again, and PostgreSQL hands a row to those that queue for it in their order.
`Pages` and `Pipeline` state no liveness: a client may stop asking, and the parts of
the pipeline have their own.

### Disagreements with the repository's README

* `tracked`: `README.md:94` "Active allocations are tracked separately." The first
  allocation moves the amount from `amounts` to `pending_orders`; the release moves
  it to `free_amounts`; at the second allocation there is nothing to move.
* `pool`: `README.md:93` "Redis maintains the pool of available amounts." After a
  restart, amounts that were used before are in no set, for good.
* `matched`: `README.md:77` "The transaction is matched to the correct order." Not
  after a confirmation by hand: the notification that comes later finds no intent
  marked with it, and settles the next order of that amount.
* `retries`: `README.md:215-216` "Legitimate retry requests (due to network instability)
  receive the same token pair instead of triggering a false replay attack alarm."
  The exchange is committed before its grace entry is set; a retry that is looked
  up in between finds neither a live token nor an entry, and revokes the family.
* `replays`: `README.md:193` "If a previously revoked token is reused, the system
  detects a potential replay attack and immediately invalidates the entire family,
  preventing unauthorized session extensions." The UPDATE of the family
  (`service.py:103`) does not see the row that an exchange at work has inserted and
  not committed. It waits for the exchanged token, revokes that, and leaves the
  successor, which can be exchanged until another alarm of the family begins.

## 4. Proofs

Each of six components has an inductive invariant `I` with `Init => I` and
`I /\ [Next]_vars => I'`, for every value of the constants; each listed property
follows from it. TLC checks the same invariant in a run (`admin`, `relays`, `stream`,
`sessions`, `pages`, `pipeline`), so what was proved is what was checked; `PoolInv`, a second one of the
first component, is checked in `faults`. The assumptions are those of
the modules, which TLC evaluates in every run, and what a theorem states.

### Orders and payments (`ReconciliationProofs`)

For any sets of amounts, notifications, requests, workers and admins, any number of
intents and any budgets of faults:

| theorem | statement |
|---|---|
| `Invariance` | `Spec => []IInv` |
| `TypeCorrect` | `Spec => []TypeOK` |
| `PendingUnique` | `Spec => []UniquePending` |
| `SmsUnique` | `Spec => []OneIntentPerSms` |
| `PayerInvariance` | without admins, `Spec => [](IInv /\ PayerInv)` |
| `OrderIsRight` | without admins, `Spec => []RightOrder` |
| `NothingDropped` | without admins, `Spec => NotFoundOnlyIfSettled` |
| `Implementation` | `Spec => LedgerSpec` |

`Admins = {}` where stated is necessary: with an admin the statement is false (run
`matched`).

*The invariant.* `UniquePending` is not inductive: it says nothing of rows that
are inserted and not committed. `UniqueLive` extends it to them, and holds because
an insert waits (`Undecided`). `CreatorsOK`, `HandlersOK` and `AdminsOK` tie each
process to its row: a request at its commit owns its NEW row, and a delivery or
confirmation that holds a lock holds it on a PENDING row of the right amount,
because the row is tested after the lock is granted. `LockExclusive` says that two
of them never hold one row. `OneIntentPerSms` needs `SmsClaimed`: a notification
whose flush went through is recorded nowhere, committed or flushed.

*The payer.* `RightOrder` needs more: every delivery either works on the intent
its customer meant or comes too late, being used already (`DeliveriesOK`), and
the intent of an unused notification is still pending (`UnusedPayer`). The last is
where the absence of admins matters.

*The ledger.* The mapping is `Committed`: open rows are hidden. Only `CommitOrder`,
`CommitPaid` and `CommitConfirmed` change it, each as one ledger action; every
other step stutters.

### The amounts (`PoolProofs`)

`PoolInvariance`, `FreeIsNotHeld` and `RestartRebuilds` prove `PoolInv`, `FreeNotHeld` and
`BootRebuild`, for the same constants and any pages, buffers and batches of the seeder.

*The invariant.* `FreeNotHeld` is about two stores that no step changes together, so
its strengthening says who has an amount in between: a request that popped it and
has not inserted yet (`Carries`), a live row (`Keeps`), a delivery that committed and has
not released (`Returns`), or nobody, and only then it may be free (`OneOwner`). Every
step leaves an amount where it is or passes it on, and there is one lemma for each
way: `FreeToRequest`, `RequestToIntent`, `IntentToDelivery`, `DeliveryToFree`, and
for the compensation and the early release by an admin `RequestToFree` and
`IntentToFree`. An admin between the release and the commit no longer keeps the
amount, although the row is live; the insert of a new owner waits for that row.

All of it holds while `Calm`: Redis did not raise, and no database error could follow an
admin's release. A restart ends what is said of free amounts (`Offered`), as
the release of an admin it interrupts stays, but not of the owners: `ScanOK` says
that the pending rows which the pages of the second start have passed are in the set or
the buffer. A page leaves out no row between the cursor and its last
(`PageFull`), and an empty one means that none is left (`PageEmpty`); both are facts
about cardinalities. What the worker does meanwhile takes an amount out of the set
only in `ReleaseAmount`, and then no pending row asks for it, as `OneOwner` has it.

### The relay (`OutboxRelayProofs`)

`OutboxInvariance`, `PublishedHolds`, `FailedHolds`, `SentOnceHolds` and `FinalHolds` prove
`OutboxInv`, `PublishedIsSent`, `FailedForCause`, `SentOnce` and (for a finite set of
relays) `Final`, with any numbers of relays, events, retries and crashes.

*The invariant.* Outcomes are written late, so everything said of a row must also
be said of each outcome in a relay's hand (`OutcomeOK`): a count it will write is not
ahead of the errors there were, and a status it will write has its cause. `SentOnce`
and `Final` rest on `HolderOK`: until the lock of an event grows old, or when there is
one relay, who holds the event holds it alone and the row stays PROCESSING; and
`UnsentOK` says which of these events were not sent yet.

### The worker (`StreamWorkerProofs`)

`StreamInvariance`, `NothingLostHolds`, `HandledOnceHolds` and `BuriedHolds` prove `StreamInv`,
`NothingLost`, `HandledOnce` (for a finite set of workers) and `BuriedAfterRetries`, with any
numbers of workers, admins, entries, letters, retries and faults.

*The invariant.* `NothingLost` is not inductive: an entry that is pending may be
acknowledged in the next step. `Kept` is: the payload is done, or a letter holds it,
or an entry that `Waits`, one that no worker has just buried; and a worker at its
acknowledgement after success has a payload that is done (`WorkerOK`). The burial
limit needs `AttemptsOK`: what was counted at a claim is below the deliveries there
are now. When nothing was broken off and the worker is alone, `OnceOK` has every
message of the batch pending and every handled one acknowledged, now or next, and
`CountsOK` makes the deliveries of an entry the failures of its handler, plus one
while it is in the batch. An admin's letter was there when it was read (`ReadOK`).

### Refresh tokens (`RefreshTokensProofs`)

`InvariantHolds`, `OneLiveHolds`, `SamePairHolds`, `GivenIsStoredHolds`, `SessionKeptHolds`,
`AlarmClosesHolds` and `AlarmHasCause` prove all safety properties of the run `sessions`,
with any numbers of calls, tokens and faults.

*The invariant.* `RowsOK` and `SuccessorsOK` are the shape of the table: parents lie in
the family, are committed and revoked, and have one successor. `CallOK` says what a
call knows at each step, in particular that the token it holds is live until its own
commit; `LocksOK` that a row has one holder and an uncommitted row a call that will
commit it, which makes the two exchanges of one token exclude each other. `SamePair`
needs `GivenOK`: every answer to a token is its successor. `AlarmCloses` needs
`SweepsOK`: a live token that a sweep at work will not reach is in `spared`, as it was
committed after the sweep began or comes from such a token. A commit keeps both: its
token is noted when a sweep of the family is at work, and when its parent, which is live
until then, is itself excepted. An alarm keeps both, as what it takes out of `spared` it
revokes.
`AlarmForCause` needs `GraceKept`: the entry of an exchanged token is there, or a call
is about to set it, or there is a cause.

### The listings (`PagesProofs`)

`PagesInvariance`, `CompleteHolds` and `NoRepeatHolds` prove `PagesInv`, `PagesComplete` and
`NoRepeat`, for any number of rows, any limit and any of the listings.

*The invariant.* `PagesComplete` speaks of the end of a listing. On the way there the
cursor must part the rows (`ReadUpTo`): those shown are up to it, and those up to it
that are there were shown or came late. A page keeps this because the rows it takes
are the first ones beyond the cursor: `FirstRowsClosed` says that it skips none,
`LastRow` that the next cursor is in it and the largest, and that the listing may stop
is `NotFull` (a page that is not full took all) or `AllFit` (nothing was left to look
ahead to). These are facts about cardinalities of finite sets, for every set of rows.

### The whole path (`PipelineProofs`)

For any numbers of webhook calls, relays, workers, admins, notifications, entries,
retries and faults:

| theorem | statement |
|---|---|
| `PathInvariance` | `PipelineSpec => []PathInv` |
| `AnswerIsTrueHolds` | `PipelineSpec => []AnswerIsTrue` |
| `FailedForCauseOnlyHolds` | `PipelineSpec => []FailedForCauseOnly` |
| `NotificationKeptHolds` | `PipelineSpec => NotificationKept`, the refinement of `Journey` |
| `OutboxRefined` | `PipelineSpec => O!OutboxSpec` |
| `PublishedIsThere` | `PipelineSpec => []`(`NothingLost`, and what is PUBLISHED is in the stream, a dead letter or done) |

*The invariant.* `OutboxInv` and `StreamInv` are not proved again: `PipelineProofs` has an
instance of each part's proofs, and its first lemmas say that the definitions of the
part in `Pipeline` are those its theorems are about (`SameOutboxInv`, `SameConsume` and
so on). `StepKinds` sorts the steps of the pipeline: those that are quiet for the
stream, a send (`Sent`), and those of the workers and admins (`Consume`). What
`PathInv` adds is what the parts rely on in each other. `IntakeOK`: an open
transaction that has passed its insert is alone with its notification, which is not
stored yet; this is the wait on the unique constraint, and makes the answer
"duplicate" true. `SentOK`: what the relay counts as sent has arrived. `ArrivedOK`:
what has arrived was stored before. `DoneOK`: what is done has arrived and has an
amount. `Q!HandOK` is about a worker that is alone: all it has in hand is pending, also
after a crash; it is what makes `done` follow `stream` and not `letters`.

*The journey.* `PlaceOf` reads `Place` off the invariant: a notification that has arrived
is in the stream, a letter or done (by `Kept` of `StreamInv`), one that has not is in the
outbox by its status, and cannot be PUBLISHED. `PlaceMoves` then has three cases: it has arrived before
the step (`ArrivedMoves`), arrives in it, which is a send (`UnsentMoves`), or has not
arrived after it, so that the status alone moves (`EventMoves`).
`FailedForCauseOnly` follows from the same lemma: what is only in the outbox has sent no
letter, so that of the two causes of FAILED the errors remain.

*Not a refinement of the stream.* `StreamWorker` alone bounds its sends (`Publish`), the
relay has bounds of its own; so of the stream its invariant is proved in the path, by
`ReceiveInv` for a send and `ElsewhereInv` for a fault of another part, and
not `StreamSpec`.

### Only model-checked

All liveness: `RequestsAnswered`, `DeliveriesEnd`, `EventsEnd`, `EntriesEnd` and `CallsEnd`
need `ENABLED` and fairness, which are outside the prover's reach. Every other
property of a passing run is stated by a theorem.

## 5. Not modelled

* SMS text parsing, password hashing, JWT encoding, settings and logging: no
  state that other steps depend on.
* Order deletion: deleting an order that has an intent makes SQLAlchemy set its
  NOT NULL `order_id` to NULL; the statement fails and is rolled back, and every
  order has an intent, so it changes nothing.
* An amount or a balance that exceeds the Integer columns: the driver refuses it
  before anything is written.
* Trimming of the stream at about 100000 entries; inspection calls of the
  consumer group that nobody uses; `revoke_all_tokens`, which has no caller.
* A claim of the relay that skips rows another claim has locked and so takes
  newer ones: `Claim` is atomic and takes the oldest. So no property is about two
  claims that race inside their statements.
* The window of the fallback: with a base amount it looks for a free amount among the
  next 500 only (`order/service.py:200`), the model among all `Amounts`.
* The order in which the UPDATE of a family locks its rows: the model takes them by
  id. Another order can deadlock with a second sweep; PostgreSQL then ends one of
  them with an error, which is `CallFails`.
* A payload with an amount that is neither missing, zero nor positive: the parser
  cannot produce it, and `NoAmount` is the amount of zero.
* Sign-ups that race for one user name or phone: one unique constraint, one insert
  and nothing else that is written; `Pages` has them as the writers of its rows.
* Liveness of the composed pipeline: that a stored notification is handled in the
  end follows from `EventsEnd` and `EntriesEnd` only in words.

## 6. Plan

1. (done) `PaymentStore`, `AmountPool` and the four processes; `Reconciliation`;
   the ledger; the invariant and the proofs.
2. (done) `OutboxRelay`, `StreamWorker`, their invariants and proofs.
3. (done) `Pipeline` and `Journey`; the invariant, the proof of the refinement.
4. (done) `RefreshTokens`, its invariant and proofs.
5. (done) `Pages`, its invariant and proofs.
6. (done) `PoolInv` and the proofs about the amounts.
7. (open) Lemmas that several proofs repeat, in a place of their own: record updates of a
   process, and the first or last member of a set of numbers.
