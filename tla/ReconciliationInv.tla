-------------------------- MODULE ReconciliationInv --------------------------
(***************************************************************************)
(* The inductive invariant of Reconciliation: how the steps under way are  *)
(* tied to the rows they work on.                                          *)
(***************************************************************************)
EXTENDS Reconciliation

\* Rows of an open or committed intent that the partial index knows.
Live(i) == intents[i].status \in {"NEW", "PENDING"}

RowsOK ==
    \A i \in Intents :
        /\ intents[i].status = "NONE" => intents[i] = Blank
        /\ intents[i].status # "NONE" => intents[i].amount \in Amounts
        /\ intents[i].sms # None => intents[i].status = "PAID"

\* Waiting for one another keeps the amounts of live rows apart.
UniqueLive ==
    \A i, j \in Intents :
        Live(i) /\ Live(j) /\ intents[i].amount = intents[j].amount => i = j

\* A request that has inserted owns its open row.
CreatorsOK ==
    /\ \A c \in Creators :
          /\ request[c].pc \in {"track", "insert", "untrack", "give_back"}
                => request[c].amount \in Amounts
          /\ At(c, "commit") => /\ request[c].intent \in Intents
                                /\ intents[request[c].intent].status = "NEW"
    /\ \A c, d \in Creators :
          At(c, "commit") /\ At(d, "commit") /\ request[c].intent = request[d].intent
             => c = d

HandlerHolds(w) == handler[w].pc \in {"flush", "commit"}

\* A delivery works on a committed row of its own amount, and the row it has
\* locked stays pending under the lock.
HandlersOK ==
    \A w \in Workers :
        /\ ~Handling(w, "idle") => handler[w].sms \in Sms
        /\ handler[w].pc \in {"lock", "flush", "commit"}
              => /\ handler[w].intent \in Intents
                 /\ intents[handler[w].intent].status \in {"PENDING", "PAID"}
                 /\ intents[handler[w].intent].amount = SmsAmount[handler[w].sms]
        /\ HandlerHolds(w)
              => /\ Pending(handler[w].intent)
                 /\ rowLock[handler[w].intent] =
                       IF Handling(w, "flush") THEN "locked" ELSE "updated"

AdminHolds(d) == admin[d].pc \in {"flush", "release", "commit"}

AdminsOK ==
    \A d \in Admins :
        /\ ~Confirming(d, "idle")
              => /\ admin[d].intent \in Intents
                 /\ intents[admin[d].intent].status \in {"PENDING", "PAID"}
        /\ AdminHolds(d)
              => /\ Pending(admin[d].intent)
                 /\ rowLock[admin[d].intent] =
                       IF Confirming(d, "flush") THEN "locked" ELSE "updated"

\* A row lock has one holder.
LockExclusive ==
    /\ \A v, w \in Workers : HandlerHolds(v) /\ HandlerHolds(w)
                                /\ handler[v].intent = handler[w].intent => v = w
    /\ \A d, e \in Admins : AdminHolds(d) /\ AdminHolds(e)
                                /\ admin[d].intent = admin[e].intent => d = e
    /\ \A w \in Workers, d \in Admins :
          HandlerHolds(w) /\ AdminHolds(d) => handler[w].intent # admin[d].intent

\* A notification that was flushed is recorded nowhere else, committed or not.
SmsClaimed ==
    \A w \in Workers :
        Handling(w, "commit")
            => /\ ~SmsUsed(handler[w].sms)
               /\ \A v \in Workers :
                     Handling(v, "commit") /\ handler[v].sms = handler[w].sms => v = w

IInv ==
    /\ TypeOK
    /\ RowsOK /\ UniqueLive
    /\ CreatorsOK /\ HandlersOK /\ AdminsOK
    /\ LockExclusive
    /\ SmsClaimed /\ OneIntentPerSms

-----------------------------------------------------------------------------
(* Where every payment comes from, when no admin settles by hand: what the *)
(* proof of RightOrder needs on top of IInv.                               *)

Placed(i) == intents[i].status \in {"PENDING", "PAID"}

\* A customer pays an order of the amount asked for, and nobody else does.
PayersOK ==
    /\ \A s \in Sms : payer[s] # None
          => Placed(payer[s]) /\ intents[payer[s]].amount = SmsAmount[s]
    /\ \A s, t \in Sms : payer[s] # None /\ payer[s] = payer[t] => s = t

\* A delivery works for the customer who paid, or comes too late.
DeliveriesOK ==
    \A w \in Workers :
        /\ ~Handling(w, "idle") => payer[handler[w].sms] # None
        /\ handler[w].pc \in {"lock", "flush", "commit"}
              => payer[handler[w].sms] = handler[w].intent \/ SmsUsed(handler[w].sms)

PayerInv ==
    /\ PayersOK /\ DeliveriesOK /\ RightOrder
    /\ \A i \in Intents : intents[i].status = "PAID" => intents[i].sms # None

-----------------------------------------------------------------------------
(* Who has an amount, while Redis does not raise, until the API starts     *)
(* again: what the proofs of FreeNotHeld and BootRebuild need on top of    *)
(* IInv.                                                                   *)

Calm ==
    /\ faults["redis"] = 0
    /\ faults["db"] = 0 \/ Admins = {}
    /\ faults["restart"] = 0 \/ (faults["restart"] = 1 /\ ~Booting("up"))

\* Until the API is up there is only the worker, and the first time nothing.
Fresh ==
    ~Booting("up") =>
        /\ \A c \in Creators : At(c, "idle")
        /\ \A d \in Admins : Confirming(d, "idle")
        /\ faults["restart"] = 0 =>
              /\ \A i \in Intents : intents[i].status = "NONE"
              /\ \A s \in Sms : payer[s] = None
              /\ \A w \in Workers : Handling(w, "idle")

\* A request between its SPOP and the insert, or the compensation.
Carries(c, a) ==
    request[c].pc \in {"track", "insert", "untrack", "give_back"} /\ request[c].amount = a

\* An admin has released the amount and not committed yet.
Released(i) == \E d \in Admins : Confirming(d, "commit") /\ admin[d].intent = i

AsksFor(i, a) == Live(i) /\ intents[i].amount = a

Keeps(i, a) == AsksFor(i, a) /\ ~Released(i)

\* A delivery has committed and not released the amount yet.
Returns(w, a) == Handling(w, "release") /\ SmsAmount[handler[w].sms] = a

\* Free until the API restarts: what was released by an admin whom the
\* restart interrupts is free although its intent is pending again.
Offered(a) == a \in free_amounts /\ faults["restart"] = 0

\* One request, intent or delivery has the amount, or it may be free.
OneOwner(a) ==
    /\ \A c, d \in Creators : Carries(c, a) /\ Carries(d, a) => c = d
    /\ \A v, w \in Workers : Returns(v, a) /\ Returns(w, a) => v = w
    /\ \A c \in Creators, i \in Intents : ~(Carries(c, a) /\ Keeps(i, a))
    /\ \A c \in Creators, w \in Workers : ~(Carries(c, a) /\ Returns(w, a))
    /\ \A i \in Intents, w \in Workers : ~(AsksFor(i, a) /\ Returns(w, a))
    /\ Offered(a) =>
          /\ \A c \in Creators : ~Carries(c, a)
          /\ \A i \in Intents : ~Keeps(i, a)
          /\ \A w \in Workers : ~Returns(w, a)

\* The pending intents that the pages of startup have passed are tracked, or
\* in the buffer.
Tracked(i) == intents[i].amount \in pending_orders

ScanOK ==
    /\ boot.pc \in {"down", "seed", "clear"} => boot.cursor = 0
    /\ \A i \in Intents :
          Pending(i) =>
              /\ boot.pc \in {"scan", "add"} /\ i <= boot.cursor
                    => Tracked(i) \/ intents[i].amount \in boot.buffer
              /\ Booting("add_last") => Tracked(i) \/ intents[i].amount \in boot.buffer
              /\ Booting("diff") => Tracked(i)

\* service.py:176-193, handlers.py:19-21, admin/service.py:39-43, main.py:27-42.
\* An amount passes from one to the next, through two stores without a common
\* step, and startup loses sight of none that a pending intent has.
PoolInv ==
    Calm =>
        /\ Fresh
        /\ \A c \in Creators : request[c].source = "REDIS" /\ ~At(c, "fallback")
        /\ \A a \in Amounts : OneOwner(a)
        /\ ScanOK
=============================================================================
