--------------------------- MODULE PaymentHandler ---------------------------
(***************************************************************************)
(* handle_payment and process_pending_payment: what the worker does with   *)
(* one delivery of a notification.  A delivery may happen any number of    *)
(* times and concurrently with another delivery of the same notification   *)
(* (a message left unacknowledged for six seconds is claimed again, an     *)
(* admin replays a dead letter, the relay publishes an event twice).       *)
(***************************************************************************)
EXTENDS PaymentStore, AmountPool

CONSTANT Workers   \* deliveries handled at the same time

VARIABLE handler

handlerVars == <<storeVars, poolVars, handler>>

NoDelivery == [pc |-> "idle", sms |-> None, intent |-> None]

Deliveries ==
    [pc     : {"idle", "check", "select", "lock", "flush", "commit", "release"},
     sms    : Sms \cup {None},
     intent : Intents \cup {None}]

HandlerTypeOK == handler \in [Workers -> Deliveries]

HandlerInit == handler = [w \in Workers |-> NoDelivery]

Handling(w, pc) == handler[w].pc = pc

Turn(w, h) == handler' = [handler EXCEPT ![w] = h]

Proceed(w, pc) == Turn(w, [handler[w] EXCEPT !.pc = pc])

\* Return, or raise: whether the delivery is acknowledged is the worker's.
Leave(w) == Turn(w, NoDelivery)

\* A plausible slip: the session is not rolled back.
NoRollback(w) == UNCHANGED rowLock

\* The end of the open transaction of w, if it holds its row.
Rollback(w) ==
    IF handler[w].pc \in {"flush", "commit"}
    THEN UnlockRow(handler[w].intent)
    ELSE UNCHANGED rowLock

Receive(w, s) ==
    /\ Handling(w, "idle")
    /\ Turn(w, [NoDelivery EXCEPT !.pc = "check", !.sms = s])
    /\ UNCHANGED <<storeVars, poolVars>>

\* A notification that settled an intent already is skipped.
CheckProcessed(w) ==
    /\ Handling(w, "check")
    /\ IF SmsUsed(handler[w].sms) THEN Leave(w) ELSE Proceed(w, "select")
    /\ UNCHANGED <<storeVars, poolVars>>

\* The rows SELECT ... FOR UPDATE finds in its snapshot.
Matching(s) == {i \in Intents : Pending(i) /\ intents[i].amount = SmsAmount[s]}

SelectIntent(w) ==
    /\ Handling(w, "select")
    /\ \/ \E i \in Matching(handler[w].sms) :
             Turn(w, [handler[w] EXCEPT !.pc = "lock", !.intent = i])
       \/ Matching(handler[w].sms) = {} /\ Leave(w)   \* PaymentIntentNotFoundError
    /\ UNCHANGED <<storeVars, poolVars>>

\* A plausible slip: the row is not tested again once it is locked.
LockUnchecked(w) ==
    /\ Handling(w, "lock")
    /\ LockRow(handler[w].intent)
    /\ Proceed(w, "flush")
    /\ UNCHANGED <<intents, poolVars>>

\* The row lock is granted; a row that changed meanwhile is tested again, and
\* no other row is looked for.
LockIntent(w) ==
    /\ Handling(w, "lock")
    /\ rowLock[handler[w].intent] = "free"
    /\ IF Pending(handler[w].intent)
       THEN LockRow(handler[w].intent) /\ Proceed(w, "flush")
       ELSE UNCHANGED rowLock /\ Leave(w)
    /\ UNCHANGED <<intents, poolVars>>

\* Another open transaction has flushed the same notification.
FlushedElsewhere(w) ==
    \E v \in Workers \ {w} : Handling(v, "commit") /\ handler[v].sms = handler[w].sms

\* The flush, under the unique index on sms_transaction_id.
FlushPaid(w) ==
    /\ Handling(w, "flush")
    /\ ~SmsUsed(handler[w].sms)
    /\ ~FlushedElsewhere(w)
    /\ FlushRow(handler[w].intent)
    /\ Proceed(w, "commit")
    /\ UNCHANGED <<intents, poolVars>>

\* DuplicatePaymentTransactionError
FlushConflict(w) ==
    /\ Handling(w, "flush")
    /\ SmsUsed(handler[w].sms)
    /\ Rollback(w)
    /\ Leave(w)
    /\ UNCHANGED <<intents, poolVars>>

CommitPaid(w) ==
    /\ Handling(w, "commit")
    /\ PayRow(handler[w].intent, handler[w].sms)
    /\ Proceed(w, "release")
    /\ UNCHANGED poolVars

ReleaseAmount(w) ==
    /\ Handling(w, "release")
    /\ Release(SmsAmount[handler[w].sms])
    /\ Leave(w)
    /\ UNCHANGED <<storeVars, faults>>

\* CriticalRejectMessage after the commit: the next delivery finds the
\* notification processed and does not release the amount.
ReleaseFails(w) ==
    /\ Handling(w, "release")
    /\ Fault("redis")
    /\ UNCHANGED poolSets \/ Release(SmsAmount[handler[w].sms])
    /\ Leave(w)
    /\ UNCHANGED storeVars

\* CriticalRejectMessage after an error of the database.
HandlerFails(w) ==
    /\ handler[w].pc \in {"check", "select", "lock", "flush", "commit"}
    /\ Fault("db")
    /\ Rollback(w)
    /\ Leave(w)
    /\ UNCHANGED <<intents, poolSets>>

\* The worker process dies; PostgreSQL rolls its transaction back.
WorkerCrash(w) ==
    /\ ~Handling(w, "idle")
    /\ Fault("worker")
    /\ Rollback(w)
    /\ Leave(w)
    /\ UNCHANGED <<intents, poolSets>>

Handle(w) ==
    \/ CheckProcessed(w)
    \/ SelectIntent(w) \/ LockIntent(w)
    \/ FlushPaid(w) \/ FlushConflict(w)
    \/ CommitPaid(w)
    \/ ReleaseAmount(w) \/ ReleaseFails(w)
    \/ HandlerFails(w) \/ WorkerCrash(w)
=============================================================================
