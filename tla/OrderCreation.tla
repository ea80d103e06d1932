---------------------------- MODULE OrderCreation ----------------------------
(***************************************************************************)
(* POST /orders/create-order: take an amount out of Redis (or choose one   *)
(* in PostgreSQL when Redis raises), insert the order with its intent, put *)
(* the amount back when the insert fails, commit.  Each await is a step of *)
(* its own: requests interleave with each other, with the worker and with  *)
(* the admins between any two of them.                                     *)
(***************************************************************************)
EXTENDS PaymentStore, AmountPool

CONSTANTS
    Creators,    \* requests served at the same time
    MaxAttempts  \* max_retries of create_order_service

ASSUME CreationAssumption == Pool \subseteq Amounts /\ MaxAttempts \in Nat \ {0}

VARIABLE request

creationVars == <<storeVars, poolVars, request>>

NoRequest ==
    [pc |-> "idle", amount |-> None, source |-> "REDIS", attempt |-> 1, intent |-> None]

Requests ==
    [pc      : {"idle", "spop", "track", "fallback", "insert", "commit",
                "untrack", "give_back"},
     amount  : Amounts \cup {None},
     source  : {"REDIS", "POSTGRES"},
     attempt : 1 .. MaxAttempts,
     intent  : Intents \cup {None}]

CreationTypeOK == request \in [Creators -> Requests]

CreationInit == request = [c \in Creators |-> NoRequest]

At(c, pc) == request[c].pc = pc

Become(c, r) == request' = [request EXCEPT ![c] = r]

Goto(c, pc) == Become(c, [request[c] EXCEPT !.pc = pc])

\* The response, whichever it is.
Answer(c) == Become(c, NoRequest)

\* The insert gets its amount.
Allocated(c, a, source) ==
    Become(c, [request[c] EXCEPT !.pc = "insert", !.amount = a, !.source = source])

\* Bound: a request starts only while a row is left for it.
RowsLeft ==
    Cardinality({c \in Creators : request[c].pc \notin {"idle", "commit"}})
        < Cardinality({i \in Intents : intents[i].status = "NONE"})

CreateOrder(c) ==
    /\ At(c, "idle")
    /\ RowsLeft
    /\ Goto(c, "spop")
    /\ UNCHANGED <<storeVars, poolVars>>

-----------------------------------------------------------------------------
(* get_unique_amount *)

SpopAmount(c) ==
    /\ At(c, "spop")
    /\ \E a \in free_amounts :
          /\ Pop(a)
          /\ Become(c, [request[c] EXCEPT !.pc = "track", !.amount = a])
    /\ UNCHANGED <<storeVars, faults>>

\* 409: nothing is free.
NoFreeAmount(c) ==
    /\ At(c, "spop")
    /\ free_amounts = {}
    /\ Answer(c)
    /\ UNCHANGED <<storeVars, poolVars>>

\* The popped amount is lost when Redis executed the SPOP and then raised.
SpopFails(c) ==
    /\ At(c, "spop")
    /\ Fault("redis")
    /\ UNCHANGED poolSets \/ \E a \in free_amounts : Pop(a)
    /\ Goto(c, "fallback")
    /\ UNCHANGED storeVars

TrackAmount(c) ==
    /\ At(c, "track")
    /\ Track(request[c].amount)
    /\ Allocated(c, request[c].amount, "REDIS")
    /\ UNCHANGED <<storeVars, faults>>

\* The popped amount is forgotten.
TrackFails(c) ==
    /\ At(c, "track")
    /\ Fault("redis")
    /\ UNCHANGED poolSets \/ Track(request[c].amount)
    /\ Become(c, [request[c] EXCEPT !.pc = "fallback", !.amount = None])
    /\ UNCHANGED storeVars

\* get_unique_amount_from_postgres: any amount of the window without a
\* committed PENDING intent.
Candidates == {a \in Amounts : ~\E i \in Intents : Pending(i) /\ intents[i].amount = a}

ChooseFallback(c) ==
    /\ At(c, "fallback")
    /\ \/ \E a \in Candidates : Allocated(c, a, "POSTGRES")
       \/ Candidates = {} /\ Answer(c)
    /\ UNCHANGED <<storeVars, poolVars>>

FallbackFails(c) ==
    /\ At(c, "fallback")
    /\ Fault("db")
    /\ Answer(c)
    /\ UNCHANGED <<storeVars, poolSets>>

-----------------------------------------------------------------------------
(* create_order_service and the commit of the route *)

InsertOrder(c) ==
    /\ At(c, "insert")
    /\ ~Conflict(request[c].amount)
    /\ ~Undecided(request[c].amount)
    /\ \E i \in Intents :
          /\ IsNextId(i)
          /\ InsertRow(i, request[c].amount)
          /\ Become(c, [request[c] EXCEPT !.pc = "commit", !.intent = i])
    /\ UNCHANGED <<rowLock, poolVars>>

\* IntegrityError: an amount from Redis is put back, one from PostgreSQL is
\* replaced while attempts remain.
InsertConflict(c) ==
    /\ At(c, "insert")
    /\ Conflict(request[c].amount)
    /\ \/ /\ request[c].source = "REDIS"
          /\ Goto(c, "untrack")
       \/ /\ request[c].source = "POSTGRES"
          /\ request[c].attempt < MaxAttempts
          /\ Become(c, [NoRequest EXCEPT !.pc = "spop",
                                         !.attempt = request[c].attempt + 1])
       \/ /\ request[c].source = "POSTGRES"
          /\ request[c].attempt = MaxAttempts
          /\ Answer(c)
    /\ UNCHANGED <<storeVars, poolVars>>

\* Any other error of the insert (DatabaseError).
InsertFails(c) ==
    /\ At(c, "insert")
    /\ Fault("db")
    /\ IF request[c].source = "REDIS" THEN Goto(c, "untrack") ELSE Answer(c)
    /\ UNCHANGED <<storeVars, poolSets>>

CommitOrder(c) ==
    /\ At(c, "commit")
    /\ CommitRow(request[c].intent)
    /\ Answer(c)
    /\ UNCHANGED <<rowLock, poolVars>>

\* The commit is outside the compensation: the amount is not put back.
CommitFails(c) ==
    /\ At(c, "commit")
    /\ Fault("db")
    /\ RollbackRow(request[c].intent)
    /\ Answer(c)
    /\ UNCHANGED <<rowLock, poolSets>>

\* The compensation: SMOVE pending_orders amounts, then SADD free_amounts.
UntrackAmount(c) ==
    /\ At(c, "untrack")
    /\ Untrack(request[c].amount)
    /\ Goto(c, "give_back")
    /\ UNCHANGED <<storeVars, faults>>

GiveBackAmount(c) ==
    /\ At(c, "give_back")
    /\ GiveBack(request[c].amount)
    /\ Answer(c)
    /\ UNCHANGED <<storeVars, faults>>

CompensationFails(c) ==
    /\ Fault("redis")
    /\ \/ /\ At(c, "untrack")
          /\ UNCHANGED poolSets \/ Untrack(request[c].amount)
       \/ /\ At(c, "give_back")
          /\ UNCHANGED poolSets \/ GiveBack(request[c].amount)
    /\ Answer(c)
    /\ UNCHANGED storeVars

Creation(c) ==
    \/ SpopAmount(c) \/ NoFreeAmount(c) \/ SpopFails(c)
    \/ TrackAmount(c) \/ TrackFails(c)
    \/ ChooseFallback(c) \/ FallbackFails(c)
    \/ InsertOrder(c) \/ InsertConflict(c) \/ InsertFails(c)
    \/ CommitOrder(c) \/ CommitFails(c)
    \/ UntrackAmount(c) \/ GiveBackAmount(c) \/ CompensationFails(c)
=============================================================================
