----------------------------- MODULE AmountPool -----------------------------
(***************************************************************************)
(* The Redis side of amount allocation: the three sets the application     *)
(* keeps, and the single commands it sends to them.  SMOVE does nothing    *)
(* when the member is not in the source set; the code never looks at its   *)
(* answer.                                                                 *)
(*                                                                         *)
(* Also the faults the environment may inject: a Redis command may raise   *)
(* after it was executed or before, a database statement or commit may     *)
(* fail, the worker may die, the API may restart.  Each kind has a budget. *)
(***************************************************************************)
EXTENDS Naturals

CONSTANTS
    Pool,        \* the amounts the seeder puts in Redis
    Budget       \* bound: how many faults of each kind a behaviour has

FaultKinds == {"redis", "db", "worker", "restart"}

ASSUME BudgetAssumption == Budget \in [FaultKinds -> Nat]

VARIABLES
    amounts, free_amounts, pending_orders,   \* the Redis sets
    faults                                   \* faults spent so far, by kind

poolSets == <<amounts, free_amounts, pending_orders>>
poolVars == <<amounts, free_amounts, pending_orders, faults>>

PoolInit ==
    /\ amounts = {} /\ free_amounts = {} /\ pending_orders = {}
    /\ faults = [k \in FaultKinds |-> 0]

Fault(k) ==
    /\ faults[k] < Budget[k]
    /\ faults' = [faults EXCEPT ![k] = @ + 1]

-----------------------------------------------------------------------------
\* A plausible slip: SRANDMEMBER instead of SPOP.
Peek(a) == UNCHANGED poolSets

(* SPOP free_amounts *)
Pop(a) ==
    /\ free_amounts' = free_amounts \ {a}
    /\ UNCHANGED <<amounts, pending_orders>>

(* SMOVE amounts pending_orders a *)
Track(a) ==
    /\ amounts' = amounts \ {a}
    /\ pending_orders' = pending_orders \cup ({a} \cap amounts)
    /\ UNCHANGED free_amounts

(* SMOVE pending_orders amounts a *)
Untrack(a) ==
    /\ amounts' = amounts \cup ({a} \cap pending_orders)
    /\ pending_orders' = pending_orders \ {a}
    /\ UNCHANGED free_amounts

(* SADD free_amounts a *)
GiveBack(a) ==
    /\ free_amounts' = free_amounts \cup {a}
    /\ UNCHANGED <<amounts, pending_orders>>

(* SMOVE pending_orders free_amounts a *)
Release(a) ==
    /\ free_amounts' = free_amounts \cup ({a} \cap pending_orders)
    /\ pending_orders' = pending_orders \ {a}
    /\ UNCHANGED amounts
=============================================================================
