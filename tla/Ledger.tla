------------------------------- MODULE Ledger -------------------------------
(***************************************************************************)
(* What reconciliation promises, with no Redis, no locks and no failures:  *)
(* an intent appears with an amount no other pending intent has, and is    *)
(* settled once, by a notification of its own amount that settled nothing  *)
(* else, or by an admin.  This is what the partial unique index, the       *)
(* unique notification id and the row lock are there to guarantee.         *)
(***************************************************************************)
EXTENDS Naturals

CONSTANTS Amounts, Sms, SmsAmount, Intents, None

VARIABLE ledger   \* the committed intents

Free == [status |-> "NONE", amount |-> None, sms |-> None]

Init == ledger = [i \in Intents |-> Free]

Reserve(i, a) ==
    /\ ledger[i] = Free
    /\ \A j \in Intents : ledger[j].status = "PENDING" => ledger[j].amount # a
    /\ ledger' = [ledger EXCEPT ![i] = [status |-> "PENDING", amount |-> a, sms |-> None]]

Settle(i, s) ==
    /\ ledger[i].status = "PENDING"
    /\ ledger[i].amount = SmsAmount[s]
    /\ \A j \in Intents : ledger[j].sms # s
    /\ ledger' = [ledger EXCEPT ![i] = [status |-> "PAID", amount |-> SmsAmount[s], sms |-> s]]

Confirm(i) ==
    /\ ledger[i].status = "PENDING"
    /\ ledger' = [ledger EXCEPT ![i] = [@ EXCEPT !.status = "PAID"]]

Next ==
    \E i \in Intents :
        \/ \E a \in Amounts : Reserve(i, a)
        \/ \E s \in Sms : Settle(i, s)
        \/ Confirm(i)

Spec == Init /\ [][Next]_ledger
=============================================================================
