---------------------------- MODULE AdminConfirm ----------------------------
(***************************************************************************)
(* PATCH /order/{order_id}/payment/{payment_id}/confirm: an admin marks a  *)
(* pending intent PAID by hand.  Its amount is released in Redis after the *)
(* flush and before the commit, and no notification is recorded.           *)
(***************************************************************************)
EXTENDS PaymentStore, AmountPool

CONSTANT Admins   \* confirmations served at the same time

VARIABLE admin

adminVars == <<storeVars, poolVars, admin>>

NoConfirmation == [pc |-> "idle", intent |-> None]

Confirmations ==
    [pc     : {"idle", "lock", "flush", "release", "commit"},
     intent : Intents \cup {None}]

AdminTypeOK == admin \in [Admins -> Confirmations]

AdminInit == admin = [d \in Admins |-> NoConfirmation]

Confirming(d, pc) == admin[d].pc = pc

Step(d, r) == admin' = [admin EXCEPT ![d] = r]

Advance(d, pc) == Step(d, [admin[d] EXCEPT !.pc = pc])

Respond(d) == Step(d, NoConfirmation)

\* The end of the open transaction of d, if it holds its row.
Abandon(d) ==
    IF admin[d].pc \in {"flush", "release", "commit"}
    THEN UnlockRow(admin[d].intent)
    ELSE UNCHANGED rowLock

\* SELECT ... FOR UPDATE finds the pending row; any other id is a 404, which
\* changes nothing.
SelectPayment(d, i) ==
    /\ Confirming(d, "idle")
    /\ Pending(i)
    /\ Step(d, [pc |-> "lock", intent |-> i])
    /\ UNCHANGED <<storeVars, poolVars>>

LockPayment(d) ==
    /\ Confirming(d, "lock")
    /\ rowLock[admin[d].intent] = "free"
    /\ IF Pending(admin[d].intent)
       THEN LockRow(admin[d].intent) /\ Advance(d, "flush")
       ELSE UNCHANGED rowLock /\ Respond(d)
    /\ UNCHANGED <<intents, poolVars>>

FlushConfirmed(d) ==
    /\ Confirming(d, "flush")
    /\ FlushRow(admin[d].intent)
    /\ Advance(d, "release")
    /\ UNCHANGED <<intents, poolVars>>

ReleaseConfirmed(d) ==
    /\ Confirming(d, "release")
    /\ Release(intents[admin[d].intent].amount)
    /\ Advance(d, "commit")
    /\ UNCHANGED <<storeVars, faults>>

\* Redis raises: the transaction is rolled back, whatever Redis did.
ReleaseConfirmedFails(d) ==
    /\ Confirming(d, "release")
    /\ Fault("redis")
    /\ UNCHANGED poolSets \/ Release(intents[admin[d].intent].amount)
    /\ Abandon(d)
    /\ Respond(d)
    /\ UNCHANGED intents

CommitConfirmed(d) ==
    /\ Confirming(d, "commit")
    /\ PayRow(admin[d].intent, None)
    /\ Respond(d)
    /\ UNCHANGED poolVars

\* A database error; after the release the amount stays free.
ConfirmFails(d) ==
    /\ admin[d].pc \in {"lock", "flush", "commit"}
    /\ Fault("db")
    /\ Abandon(d)
    /\ Respond(d)
    /\ UNCHANGED <<intents, poolSets>>

Confirmation(d) ==
    \/ LockPayment(d)
    \/ FlushConfirmed(d)
    \/ ReleaseConfirmed(d) \/ ReleaseConfirmedFails(d)
    \/ CommitConfirmed(d)
    \/ ConfirmFails(d)
=============================================================================
