-------------------------- MODULE MCReconciliation --------------------------
(* Instances of Reconciliation for TLC. *)
EXTENDS ReconciliationInv, TLC

CONSTANTS c1, c2, w1, w2, d1, s1, s2

\* Two customers deposit the same amount, one after the other.
SameAmount == [s \in Sms |-> 1]

Interchangeable == Permutations(Creators) \cup Permutations(Workers) \cup Permutations(Sms)

OneBatch == <<Pool>>

TwoBatches == <<{1}, {2}>>

Faults(r, d, w, a) == [redis |-> r, db |-> d, worker |-> w, restart |-> a]

NoFaults   == Faults(0, 0, 0, 0)
OneRestart == Faults(0, 0, 0, 1)
StoresFail == Faults(1, 1, 0, 0)
OneOfEach  == Faults(1, 1, 1, 1)
=============================================================================
