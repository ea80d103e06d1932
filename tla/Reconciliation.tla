--------------------------- MODULE Reconciliation ---------------------------
(***************************************************************************)
(* The whole of it: the API process (startup, requests, admins) and the    *)
(* worker over one database and one Redis, with the customers who pay.     *)
(*                                                                         *)
(* payer is history: which intent the customer behind a notification meant *)
(* to pay.  A customer pays once, while the order shows as pending, the    *)
(* exact amount asked for; the notification then reaches the worker any    *)
(* number of times.                                                        *)
(***************************************************************************)
EXTENDS OrderCreation, PaymentHandler, AdminConfirm, Startup

VARIABLE payer

processVars == <<request, handler, admin, boot, payer>>
vars == <<storeVars, poolVars, processVars>>

PoolTypeOK ==
    /\ amounts \subseteq Amounts /\ free_amounts \subseteq Amounts
    /\ pending_orders \subseteq Amounts
    /\ faults \in [FaultKinds -> Nat]

TypeOK ==
    /\ StoreTypeOK /\ PoolTypeOK
    /\ CreationTypeOK /\ HandlerTypeOK /\ AdminTypeOK /\ StartupTypeOK
    /\ payer \in [Sms -> Intents \cup {None}]

Init ==
    /\ StoreInit /\ PoolInit
    /\ CreationInit /\ HandlerInit /\ AdminInit /\ StartupInit
    /\ payer = [s \in Sms |-> None]

-----------------------------------------------------------------------------
Pay(s, i) ==
    /\ payer[s] = None
    /\ Pending(i) /\ intents[i].amount = SmsAmount[s]
    /\ \A t \in Sms : payer[t] # i
    /\ payer' = [payer EXCEPT ![s] = i]
    /\ UNCHANGED <<storeVars, poolVars, request, handler, admin, boot>>

Customer == \E s \in Sms, i \in Intents : Pay(s, i)

Deliver(w) ==
    /\ \E s \in Sms : payer[s] # None /\ Receive(w, s)
    /\ UNCHANGED <<request, admin, boot, payer>>

WorkerStep(w) == Handle(w) /\ UNCHANGED <<request, admin, boot, payer>>

Request(c) ==
    /\ Booting("up")
    /\ CreateOrder(c)
    /\ UNCHANGED <<handler, admin, boot, payer>>

CreatorStep(c) ==
    /\ Booting("up")
    /\ Creation(c)
    /\ UNCHANGED <<handler, admin, boot, payer>>

AdminSelect(d) ==
    /\ Booting("up")
    /\ \E i \in Intents : SelectPayment(d, i)
    /\ UNCHANGED <<request, handler, boot, payer>>

AdminStep(d) ==
    /\ Booting("up")
    /\ Confirmation(d)
    /\ UNCHANGED <<request, handler, boot, payer>>

BootStep == StartupStep /\ UNCHANGED <<request, handler, admin, payer>>

\* The rows whose lock an open transaction of the API process holds.
HeldByAdmin(i) ==
    \E d \in Admins : admin[d].intent = i /\ admin[d].pc \in {"flush", "release", "commit"}

\* The API process dies, or startup raises and it is started again: requests
\* and confirmations vanish, PostgreSQL rolls their transactions back.
ApiCrash ==
    /\ ~Booting("down")
    /\ Fault("restart")
    /\ boot' = Down
    /\ request' = [c \in Creators |-> NoRequest]
    /\ admin' = [d \in Admins |-> NoConfirmation]
    /\ intents' = [i \in Intents |->
                      IF intents[i].status = "NEW" THEN Blank ELSE intents[i]]
    /\ rowLock' = [i \in Intents |-> IF HeldByAdmin(i) THEN "free" ELSE rowLock[i]]
    /\ UNCHANGED <<poolSets, handler, payer>>

Next ==
    \/ Customer
    \/ \E w \in Workers : Deliver(w) \/ WorkerStep(w)
    \/ \E c \in Creators : Request(c) \/ CreatorStep(c)
    \/ \E d \in Admins : AdminSelect(d) \/ AdminStep(d)
    \/ BootStep
    \/ ApiCrash

Fairness ==
    /\ \A w \in Workers : WF_vars(WorkerStep(w))
    /\ \A c \in Creators : WF_vars(CreatorStep(c))
    /\ \A d \in Admins : WF_vars(AdminStep(d))
    /\ WF_vars(BootStep)

Spec == Init /\ [][Next]_vars

FairSpec == Spec /\ Fairness

-----------------------------------------------------------------------------
(* Properties *)

\* service.py:68-99, models.py:62-69.  Two customers are never asked for the
\* same amount at the same time, whatever Redis hands out, loses or restores
\* and whichever transactions are open.
UniquePending ==
    \A i, j \in Intents :
        Pending(i) /\ Pending(j) /\ intents[i].amount = intents[j].amount => i = j

\* service.py:230-260, models.py:59.  One notification settles at most one
\* intent, although it may be delivered again at any step of its own handling.
OneIntentPerSms ==
    \A i, j \in Intents :
        intents[i].sms # None /\ intents[i].sms = intents[j].sms => i = j

\* The order a notification settles is the one its customer meant to pay
\* (service.py:230-260), although the amount may have been given to a new
\* order while an old delivery was still being handled.
RightOrder ==
    \A i \in Intents : intents[i].sms # None => payer[intents[i].sms] = i

\* handlers.py:34-37.  A delivery that is acknowledged because no pending
\* intent was found drops no payment: another delivery settled it already.
NotFoundOnlyIfSettled ==
    [][ \A w \in Workers :
          handler[w].pc \in {"select", "lock"} /\ handler'[w].pc = "idle" /\ faults' = faults
              => SmsUsed(handler[w].sms) ]_vars

\* No Redis error, no restart of the API, and no database error that could
\* follow a release by an admin.
Undisturbed ==
    /\ Booting("up")
    /\ faults["redis"] = 0 /\ faults["restart"] = 0
    /\ faults["db"] = 0 \/ Admins = {}

\* An amount is not free in Redis while a pending intent holds it
\* (service.py:176-193, handlers.py:19-21, admin/service.py:39-43): the two
\* stores agree although no step changes both.
FreeNotHeld ==
    Undisturbed =>
        \A i \in Intents :
            Pending(i) /\ rowLock[i] # "updated" => intents[i].amount \notin free_amounts

\* main.py:27-42.  While Redis never raised and no database error could follow
\* a release by an admin, the first restart ends with the amount of every
\* pending intent tracked and not free, however many pages the scan took and
\* whatever the worker paid meanwhile.
BootRebuild ==
    [][ /\ Rebuild
        /\ faults["redis"] = 0 /\ faults["restart"] <= 1
        /\ faults["db"] = 0 \/ Admins = {}
        => \A i \in Intents :
              Pending(i) => intents[i].amount \in pending_orders' \ free_amounts' ]_vars

\* The committed rows are those of the abstract ledger.
Committed == [i \in Intents |-> IF intents[i].status = "NEW" THEN Blank ELSE intents[i]]

L == INSTANCE Ledger WITH ledger <- Committed

\* Every step of the system is a step of the ledger or leaves it alone.
LedgerSpec == L!Spec

\* Every request is answered: none waits for ever for a transaction that is
\* itself waiting (service.py:46-110).
RequestsAnswered == \A c \in Creators : request[c].pc # "idle" ~> request[c].pc = "idle"

\* Every delivery ends: row locks and index entries are always given back
\* (service.py:241, 248, handlers.py:29-47).
DeliveriesEnd == \A w \in Workers : ~Handling(w, "idle") ~> Handling(w, "idle")

\* README.md:94: "Active allocations are tracked separately."
ActiveAllocationsTracked ==
    Booting("up") =>
        \A i \in Intents :
            Pending(i) /\ rowLock[i] = "free" /\ intents[i].amount \in Pool
                => intents[i].amount \in pending_orders

\* README.md:77: "The transaction is matched to the correct order."
MatchedToCorrectOrder == RightOrder

\* No request, confirmation or delivery is under way.
Quiet ==
    /\ Booting("up")
    /\ \A c \in Creators : request[c].pc = "idle"
    /\ \A d \in Admins : Confirming(d, "idle")
    /\ \A w \in Workers : Handling(w, "idle")

=============================================================================
