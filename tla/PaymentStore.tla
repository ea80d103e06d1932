---------------------------- MODULE PaymentStore ----------------------------
(***************************************************************************)
(* The PostgreSQL side of reconciliation: the payment_intent table with    *)
(* its two unique indexes and its row locks.  An order and its payment     *)
(* intent are inserted together and marked PAID together, so one row       *)
(* stands for both.                                                        *)
(*                                                                         *)
(* A row is NONE until it is inserted, NEW while the inserting transaction *)
(* is open (invisible to every other reader, but already in the index),    *)
(* then PENDING and at last PAID.  rowLock says what an open transaction   *)
(* holds on a row: "locked" after SELECT ... FOR UPDATE, "updated" once    *)
(* the change to PAID is flushed and not yet committed.                    *)
(***************************************************************************)
EXTENDS Naturals, FiniteSets

CONSTANTS
    Amounts,     \* exact amounts an intent can carry
    Sms,         \* rows of sms_transactions (one bank notification each)
    SmsAmount,   \* the amount each of them reports
    MaxIntents,  \* bound: how many intents are ever inserted
    None

ASSUME StoreAssumption ==
    /\ MaxIntents \in Nat
    /\ SmsAmount \in [Sms -> Amounts]
    /\ None \notin Amounts \cup Sms \cup Nat

VARIABLES
    intents,     \* the payment_intent rows
    rowLock      \* what an open transaction holds on each row

storeVars == <<intents, rowLock>>

Intents == 1 .. MaxIntents

Blank == [status |-> "NONE", amount |-> None, sms |-> None]

StoreTypeOK ==
    /\ intents \in [Intents -> [status : {"NONE", "NEW", "PENDING", "PAID"},
                                amount : Amounts \cup {None},
                                sms    : Sms \cup {None}]]
    /\ rowLock \in [Intents -> {"free", "locked", "updated"}]

StoreInit ==
    /\ intents = [i \in Intents |-> Blank]
    /\ rowLock = [i \in Intents |-> "free"]

-----------------------------------------------------------------------------
(* What a reader sees, and what the unique indexes answer.                 *)

Pending(i) == intents[i].status = "PENDING"

\* A plausible slip: the partial index is never created.
NoIndex(a) == FALSE

\* idx_pending_price: a committed PENDING row with the amount refuses the
\* insert at once ...
Conflict(a) ==
    \E i \in Intents : Pending(i) /\ intents[i].amount = a /\ rowLock[i] # "updated"

\* A plausible slip: an insert does not wait for the open transactions.
NeverUndecided(a) == FALSE

\* ... and a row whose open transaction may still leave or enter the index
\* makes the insert wait for the end of that transaction.
Undecided(a) ==
    \E i \in Intents : /\ intents[i].amount = a
                       /\ \/ intents[i].status = "NEW"
                          \/ Pending(i) /\ rowLock[i] = "updated"

\* A plausible slip: sms_transaction_id is not looked up before processing.
NeverUsed(s) == FALSE

\* Some committed intent already carries the notification.
SmsUsed(s) == \E i \in Intents : intents[i].sms = s

\* The sequence of payment_intent.id.
IsNextId(i) ==
    /\ intents[i].status = "NONE"
    /\ \A j \in Intents : intents[j].status = "NONE" => i <= j

-----------------------------------------------------------------------------
(* What a statement or the end of a transaction does to the rows.          *)

InsertRow(i, a) ==
    intents' = [intents EXCEPT ![i] = [status |-> "NEW", amount |-> a, sms |-> None]]

CommitRow(i) == intents' = [intents EXCEPT ![i].status = "PENDING"]

\* A plausible slip: the failed insert stays in an open transaction.
LeaveOpen(i) == UNCHANGED intents

RollbackRow(i) == intents' = [intents EXCEPT ![i] = Blank]

LockRow(i) == rowLock[i] = "free" /\ rowLock' = [rowLock EXCEPT ![i] = "locked"]

FlushRow(i) == rowLock' = [rowLock EXCEPT ![i] = "updated"]

UnlockRow(i) == rowLock' = [rowLock EXCEPT ![i] = "free"]

\* A plausible slip: the amount is stored in the notification's column.
PayWithAmount(i, s) ==
    /\ intents' = [intents EXCEPT ![i].status = "PAID", ![i].sms = intents[i].amount]
    /\ UnlockRow(i)

\* A plausible slip: the notification is not recorded on the intent.
PayWithoutSms(i, s) ==
    /\ intents' = [intents EXCEPT ![i].status = "PAID"]
    /\ UnlockRow(i)

\* Commit of PENDING -> PAID; s is None when an admin confirms by hand.
PayRow(i, s) ==
    /\ intents' = [intents EXCEPT ![i].status = "PAID", ![i].sms = s]
    /\ UnlockRow(i)
=============================================================================
