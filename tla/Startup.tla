------------------------------- MODULE Startup -------------------------------
(***************************************************************************)
(* The lifespan of the API process: seed the range of amounts if it is not *)
(* there, rebuild pending_orders from the pending intents page by page,    *)
(* and make free_amounts the difference.  No request is served before it   *)
(* ends, but the worker is another process and goes on paying intents.     *)
(***************************************************************************)
EXTENDS PaymentStore, AmountPool, Sequences

CONSTANTS
    Batches,     \* the seeder's SADDs, in order
    PageSize,    \* limit of get_all_pending_orders
    BufferSize   \* REDIS_BUFFER

ASSUME StartupAssumption ==
    /\ Batches \in Seq(SUBSET Pool) /\ Batches # <<>>
    /\ UNION {Batches[n] : n \in DOMAIN Batches} = Pool
    /\ PageSize \in Nat \ {0} /\ BufferSize \in Nat \ {0}

VARIABLE boot

startupVars == <<storeVars, poolVars, boot>>

Down == [pc |-> "down", batch |-> 1, cursor |-> 0, buffer |-> {}]

StartupTypeOK ==
    boot \in [pc     : {"down", "seed", "clear", "scan", "add", "add_last", "diff", "up"},
              batch  : DOMAIN Batches,
              cursor : 0 .. MaxIntents,
              buffer : SUBSET Amounts]

StartupInit == boot = Down

Booting(pc) == boot.pc = pc

Boot(pc) == boot' = [boot EXCEPT !.pc = pc]

\* is_exist_range_amount: any member is taken for the whole range.
SeedOrSkip ==
    /\ Booting("down")
    /\ IF amounts = {} THEN Boot("seed") ELSE Boot("clear")
    /\ UNCHANGED <<storeVars, poolVars>>

SeedBatch ==
    /\ Booting("seed")
    /\ amounts' = amounts \cup Batches[boot.batch]
    /\ IF boot.batch = Len(Batches)
       THEN boot' = [boot EXCEPT !.pc = "clear", !.batch = 1]
       ELSE boot' = [boot EXCEPT !.batch = @ + 1]
    /\ UNCHANGED <<storeVars, free_amounts, pending_orders, faults>>

ClearPending ==
    /\ Booting("clear")
    /\ pending_orders' = {}
    /\ Boot("scan")
    /\ UNCHANGED <<storeVars, amounts, free_amounts, faults>>

\* A plausible slip: the page is read from the row after the next one.
SkippingPage(cursor) ==
    {i \in Intents : /\ Pending(i) /\ i > cursor + 1
                     /\ Cardinality({j \in Intents : Pending(j) /\ cursor < j /\ j < i})
                            < PageSize}

\* One page of get_all_pending_orders.
Page(cursor) ==
    {i \in Intents : /\ Pending(i) /\ i > cursor
                     /\ Cardinality({j \in Intents : Pending(j) /\ cursor < j /\ j < i})
                            < PageSize}

ScanPage ==
    /\ Booting("scan")
    /\ \/ /\ Page(boot.cursor) = {}
          /\ Boot(IF boot.buffer = {} THEN "diff" ELSE "add_last")
       \/ \E last \in Page(boot.cursor) :
             LET buffer == boot.buffer \cup {intents[i].amount : i \in Page(boot.cursor)}
             IN  /\ \A i \in Page(boot.cursor) : i <= last
                 /\ boot' = [boot EXCEPT
                        !.cursor = last,
                        !.buffer = buffer,
                        !.pc = IF Cardinality(buffer) >= BufferSize THEN "add" ELSE "scan"]
    /\ UNCHANGED <<storeVars, poolVars>>

\* SADD pending_orders *buffer
AddBuffer ==
    /\ boot.pc \in {"add", "add_last"}
    /\ pending_orders' = pending_orders \cup boot.buffer
    /\ boot' = [boot EXCEPT !.pc = IF @ = "add" THEN "scan" ELSE "diff", !.buffer = {}]
    /\ UNCHANGED <<storeVars, amounts, free_amounts, faults>>

\* SDIFFSTORE free_amounts amounts pending_orders
Rebuild ==
    /\ Booting("diff")
    /\ free_amounts' = amounts \ pending_orders
    /\ boot' = [Down EXCEPT !.pc = "up"]
    /\ UNCHANGED <<storeVars, amounts, pending_orders, faults>>

StartupStep ==
    \/ SeedOrSkip \/ SeedBatch
    \/ ClearPending \/ ScanPage \/ AddBuffer
    \/ Rebuild
=============================================================================
