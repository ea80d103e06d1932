--------------------------- MODULE StreamWorkerProofs ---------------------------
(***************************************************************************)
(* StreamInv is inductive; the safety properties of StreamWorker follow    *)
(* for any numbers of workers, admins, entries, letters and faults.        *)
(***************************************************************************)
EXTENDS StreamWorkerInv, FiniteSetTheorems, WellFoundedInduction, TLAPS

EntrySet == [state     : {"absent", "new", "pending", "acked"},
             payload   : Payloads \cup {None},
             delivered : 0 .. MaxRetries + 1,
             idle      : BOOLEAN]

LetterSet == [state   : {"absent", "there", "deleted"},
              payload : Payloads \cup {None}]

WorkerSet == [pc       : {"scan", "claim", "read", "handle", "ack", "bury", "ack_buried"},
              todo     : SUBSET Entries,
              batch    : SUBSET Entries,
              stale    : BOOLEAN,
              attempts : [Entries -> 0 .. MaxRetries + 1]]

RunSet == [ok : 0 .. 2, failed : 0 .. MaxRetries + 2]

LEMMA TypeParts ==
  StreamTypeOK <=>
    /\ entries \in [Entries -> EntrySet] /\ letters \in [Letters -> LetterSet]
    /\ \A m \in Entries : entries[m].state # "absent" => entries[m].payload \in Payloads
    /\ \A l \in Letters : letters[l].state # "absent" => letters[l].payload \in Payloads
    /\ worker \in [Workers -> WorkerSet]
    /\ replay \in [Admins -> Letters \cup {None}]
    /\ done \subseteq Payloads
    /\ runs \in [Entries -> RunSet]
    /\ faults \in 0 .. MaxFaults
BY DEF StreamTypeOK, EntrySet, LetterSet, WorkerSet, RunSet

LEMMA NextTypeParts ==
  StreamTypeOK' <=>
    /\ entries' \in [Entries -> EntrySet] /\ letters' \in [Letters -> LetterSet]
    /\ \A m \in Entries : entries'[m].state # "absent" => entries'[m].payload \in Payloads
    /\ \A l \in Letters : letters'[l].state # "absent" => letters'[l].payload \in Payloads
    /\ worker' \in [Workers -> WorkerSet]
    /\ replay' \in [Admins -> Letters \cup {None}]
    /\ done' \subseteq Payloads
    /\ runs' \in [Entries -> RunSet]
    /\ faults' \in 0 .. MaxFaults
BY DEF StreamTypeOK, EntrySet, LetterSet, WorkerSet, RunSet

-----------------------------------------------------------------------------
(* The operators *)

LEMMA LeastIn ==
  ASSUME NEW S, S \subseteq Entries, S # {}
  PROVE  Least(S) \in S /\ \A n \in S : Least(S) <= n
<1> DEFINE R == OpToRel(<, Nat)
<1>1. S \subseteq Nat
  BY WorkerAssumption DEF Entries
<1>2. PICK m \in S : \A n \in S : <<n, m>> \notin R
  <2>1. IsWellFoundedOn(R, Nat)
    BY NatLessThanWellFounded
  <2> HIDE DEF R
  <2> QED
    BY <1>1, <2>1, WFMin
<1>3. ASSUME NEW n \in S PROVE m <= n
  <2>1. ~(n < m)
    BY <1>1, <1>2 DEF OpToRel
  <2> QED
    BY <1>1, <2>1
<1> QED
  BY <1>3 DEF Least

LEMMA LoopType ==
  /\ Loop \in WorkerSet
  /\ Loop.pc = "scan" /\ Loop.batch = {} /\ Loop.todo = {}
  /\ \A m \in Entries : Loop.attempts[m] = 0
BY WorkerAssumption DEF Loop, WorkerSet

\* The record that Begin leaves.
Begun(batch, attempts, stale) ==
    [Loop EXCEPT !.batch = batch, !.attempts = attempts, !.stale = stale,
        !.pc = IF batch # {} THEN "handle" ELSE IF stale THEN "read" ELSE "scan"]

LEMMA Delivered ==
  ASSUME NEW e \in EntrySet
  PROVE  /\ Deliver(e) \in EntrySet
         /\ Deliver(e).state = "pending" /\ Deliver(e).payload = e.payload
         /\ Deliver(e).delivered = IF e.delivered < MaxRetries + 1
                                   THEN e.delivered + 1 ELSE e.delivered
<1> DEFINE d == UpTo(e.delivered, MaxRetries + 1)
<1>1. /\ Deliver(e) \in EntrySet \/ d \notin 0 .. MaxRetries + 1
      /\ Deliver(e).state = "pending" /\ Deliver(e).payload = e.payload
      /\ Deliver(e).delivered = d
  <2>1. Deliver(e) = [e EXCEPT !.state = "pending", !.idle = FALSE, !.delivered = d]
    BY DEF Deliver
  <2> HIDE DEF d
  <2> QED
    BY <2>1 DEF EntrySet
<1>2. UpTo(e.delivered, MaxRetries + 1) \in 0 .. MaxRetries + 1
  BY WorkerAssumption DEF EntrySet, UpTo
<1> QED
  BY <1>1, <1>2 DEF EntrySet, UpTo

\* What an XADD adds.
LEMMA Xadded ==
  ASSUME entries \in [Entries -> EntrySet], NEW p \in Payloads, Xadd(p)
  PROVE  \E n \in Entries :
            /\ State(n) = "absent"
            /\ entries' \in [Entries -> EntrySet]
            /\ State(n)' = "new" /\ entries'[n].payload = p
            /\ entries'[n].delivered = entries[n].delivered
            /\ \A m \in Entries \ {n} : entries'[m] = entries[m]
<1>1. PICK n \in Entries :
          /\ IsNext(entries, n)
          /\ entries' = [entries EXCEPT ![n].state = "new", ![n].payload = p]
  BY DEF Xadd
<1>2. entries[n] \in EntrySet /\ entries'[n] = [entries[n] EXCEPT !.state = "new", !.payload = p]
  BY <1>1
<1>3. /\ entries'[n] \in EntrySet /\ entries'[n].state = "new" /\ entries'[n].payload = p
      /\ entries'[n].delivered = entries[n].delivered
  BY <1>2 DEF EntrySet
<1>4. \A m \in Entries \ {n} : entries'[m] = entries[m]
  BY <1>1
<1>5. entries' \in [Entries -> EntrySet]
  BY <1>1, <1>3, <1>4
<1> QED
  BY <1>1, <1>3, <1>4, <1>5 DEF IsNext, State

LEMMA Buried ==
  ASSUME letters \in [Letters -> LetterSet], NEW p \in Payloads, Bury(p)
  PROVE  \E k \in Letters :
            /\ letters[k].state = "absent"
            /\ letters' \in [Letters -> LetterSet]
            /\ letters'[k].state = "there" /\ letters'[k].payload = p
            /\ \A l \in Letters \ {k} : letters'[l] = letters[l]
<1>1. PICK k \in Letters :
          /\ IsNext(letters, k)
          /\ letters' = [letters EXCEPT ![k] = [state |-> "there", payload |-> p]]
  BY DEF Bury
<1>2. [state |-> "there", payload |-> p] \in LetterSet
  BY DEF LetterSet
<1> QED
  BY <1>1, <1>2 DEF IsNext

-----------------------------------------------------------------------------
(* A step of a worker *)

LEMMA HandFacts ==
  ASSUME StreamInv, NEW w \in Workers,
         worker[w].pc \in {"handle", "ack", "bury", "ack_buried"}
  PROVE  /\ Current(w) \in worker[w].batch /\ Current(w) \in Entries
         /\ State(Current(w)) # "absent" /\ Payload(w) \in Payloads
<1>1. /\ worker[w].batch \subseteq Entries /\ worker[w].batch # {}
      /\ \A m \in worker[w].batch : State(m) # "absent"
      /\ \A m \in Entries : entries[m].state # "absent" => entries[m].payload \in Payloads
  BY TypeParts DEF StreamInv, WorkerOK, WorkerSet
<1>2. Current(w) \in worker[w].batch
  BY <1>1, LeastIn DEF Current
<1> QED
  BY <1>1, <1>2 DEF Payload, State

\* No entry is lost or rewritten, and deliveries only grow.
Grown ==
    \A m \in Entries :
        /\ entries'[m].payload = entries[m].payload
        /\ State(m) # "absent" => State(m)' # "absent"
        /\ entries'[m].delivered >= entries[m].delivered

\* What step q of a worker must know.
StepOK(q) ==
    /\ q.pc \in {"handle", "ack", "bury", "ack_buried"} => q.batch # {}
    /\ q.pc = "claim" => q.todo # {}
    /\ q.pc \in {"scan", "read"} => q.batch = {}
    /\ \A m \in q.batch \cup q.todo : State(m)' # "absent"
    /\ q.pc = "ack" => entries'[Least(q.batch)].payload \in done'
    /\ \A m \in Entries : q.attempts[m] <= entries'[m].delivered
    /\ \A m \in q.batch :
          q.attempts[m] < entries'[m].delivered \/ q.attempts[m] > MaxRetries
    /\ q.pc = "bury" /\ entries'[Least(q.batch)].payload \notin NoAmount =>
          entries'[Least(q.batch)].delivered = MaxRetries + 1

\* An entry leaves the stream when it is done, or buried by w.
Leaves(w, m) ==
    entries[m].payload \in done' \/ (At(w, "ack_buried") /\ Current(w) = m)

LEMMA WorkInv ==
  ASSUME StreamInv, NEW w \in Workers, NEW q \in WorkerSet, Turn(w, q), StepOK(q),
         entries' \in [Entries -> EntrySet], runs' \in [Entries -> RunSet],
         faults' \in 0 .. MaxFaults, faults' >= faults, UNCHANGED replay,
         done \subseteq done', done' \subseteq Payloads, Grown,
         \A m \in Entries : State(m) \in {"new", "pending"} =>
             State(m)' \in {"new", "pending"} \/ Leaves(w, m),
         \A m \in Entries : State(m)' # "absent" => State(m) # "absent",
         \/ UNCHANGED letters
         \/ Bury(Payload(w)) /\ worker[w].pc = "bury",
         q.pc = "ack_buried" => Bury(Payload(w)) /\ worker[w].pc = "bury"
                                /\ q.batch = worker[w].batch,
         OnceOK(w)', CountsOK(w)'
  PROVE  StreamInv'
<1>1. /\ worker'[w] = q /\ \A v \in Workers \ {w} : worker'[v] = worker[v]
      /\ worker' \in [Workers -> WorkerSet]
  BY TypeParts DEF Turn, StreamInv
<1>2. \/ letters' = letters
      \/ \E k \in Letters :
            /\ letters[k].state = "absent" /\ Payload(w) \in Payloads
            /\ letters' \in [Letters -> LetterSet]
            /\ letters'[k].state = "there" /\ letters'[k].payload = Payload(w)
            /\ \A l \in Letters \ {k} : letters'[l] = letters[l]
  BY HandFacts, Buried, TypeParts DEF StreamInv
<1>3. StreamTypeOK'
  <2>1. /\ letters' \in [Letters -> LetterSet]
        /\ \A l \in Letters : letters'[l].state # "absent" => letters'[l].payload \in Payloads
    BY <1>2, TypeParts DEF StreamInv
  <2>2. \A m \in Entries : entries'[m].state # "absent" => entries'[m].payload \in Payloads
    BY TypeParts DEF StreamInv, Grown, State
  <2> QED
    BY <1>1, <2>1, <2>2, NextTypeParts, TypeParts DEF StreamInv
<1>4. ASSUME NEW v \in Workers \ {w}
      PROVE  WorkerOK(v)' /\ AttemptsOK(v)' /\ OnceOK(v)' /\ CountsOK(v)'
  <2>1. worker'[v] = worker[v] /\ worker[v] \in WorkerSet /\ WorkerOK(v) /\ AttemptsOK(v)
    BY <1>1, TypeParts DEF StreamInv
  <2>2. worker[v].batch \subseteq Entries /\ worker[v].todo \subseteq Entries
    BY <2>1 DEF WorkerSet
  <2>3. worker[v].pc \in {"handle", "ack", "bury", "ack_buried"} =>
           Current(v) \in Entries
    BY HandFacts
  <2>4. WorkerOK(v)'
    BY <2>1, <2>2, <2>3 DEF WorkerOK, At, Payload, Current, Grown
  <2>5. AttemptsOK(v)'
    <3>1. ASSUME NEW m \in Entries
          PROVE  /\ entries'[m].delivered >= entries[m].delivered
                 /\ entries[m].delivered \in 0 .. MaxRetries + 1
                 /\ entries'[m].delivered \in 0 .. MaxRetries + 1
                 /\ worker[v].attempts[m] \in 0 .. MaxRetries + 1
                 /\ MaxRetries \in Nat
      BY <2>1, TypeParts, WorkerAssumption DEF Grown, WorkerSet, EntrySet, StreamInv
    <3>2. \A m \in Entries : entries'[m].payload = entries[m].payload
      BY DEF Grown
    <3>3. worker'[v].attempts = worker[v].attempts /\ worker'[v].batch = worker[v].batch
          /\ (At(v, "bury")' <=> At(v, "bury")) /\ Current(v)' = Current(v)
      BY <2>1 DEF At, Current
    <3>4. \A m \in Entries : worker'[v].attempts[m] <= entries'[m].delivered
      BY <2>1, <3>1, <3>3 DEF AttemptsOK
    <3>5. \A m \in worker'[v].batch :
             worker'[v].attempts[m] < entries'[m].delivered \/ worker'[v].attempts[m] > MaxRetries
      BY <2>1, <2>2, <3>1, <3>3 DEF AttemptsOK
    <3>6. At(v, "bury")' /\ Payload(v)' \notin NoAmount =>
             entries'[Current(v)'].delivered = MaxRetries + 1
      BY <2>1, <2>3, <3>1, <3>2, <3>3 DEF AttemptsOK, Payload, At
    <3> QED
      BY <3>4, <3>5, <3>6 DEF AttemptsOK
  <2>6. ~Unbroken(v)'
    BY DEF Unbroken
  <2> QED
    BY <2>4, <2>5, <2>6 DEF OnceOK, CountsOK
<1>5. WorkerOK(w)' /\ AttemptsOK(w)'
  BY <1>1 DEF StepOK, WorkerOK, AttemptsOK, At, Payload, Current
<1>6. ASSUME NEW p \in Payloads, Seen(p)' PROVE Kept(p)'
  <2>1. Seen(p)
    BY <1>2, <1>6, HandFacts DEF Seen, Grown, Payload
  <2>2. CASE p \in done'
    BY <2>2 DEF Kept
  <2>3. CASE /\ worker[w].pc = "bury" /\ p = Payload(w) /\ Bury(Payload(w))
    <3>1. \E k \in Letters : letters'[k].state = "there" /\ letters'[k].payload = p
      BY <2>3, HandFacts, Buried, TypeParts DEF StreamInv
    <3> QED
      BY <3>1 DEF Kept
  <2>4. ASSUME NEW l \in Letters, letters[l].payload = p, letters[l].state = "there"
        PROVE  Kept(p)'
    BY <1>2, <2>4 DEF Kept
  <2>5. ASSUME NEW m \in Entries, entries[m].payload = p, Waits(m), p \notin done',
               ~(worker[w].pc = "bury" /\ p = Payload(w) /\ Bury(Payload(w)))
        PROVE  Kept(p)'
    <3>1. State(m)' \in {"new", "pending"}
      BY <2>5 DEF Waits, Leaves
    <3>2. ASSUME NEW v \in Workers, At(v, "ack_buried")', Current(v)' = m PROVE FALSE
      <4>1. CASE v = w
        BY <1>1, <2>5, <3>2, <4>1 DEF At, Current, Payload
      <4>2. CASE v # w
        BY <1>1, <2>5, <3>2, <4>2 DEF At, Current, Waits
      <4> QED
        BY <4>1, <4>2
    <3> QED
      BY <2>5, <3>1, <3>2 DEF Kept, Waits, Grown
  <2>6. Kept(p)
    BY <2>1 DEF StreamInv
  <2> QED
    BY <2>2, <2>3, <2>4, <2>5, <2>6 DEF Kept
<1>7. ReadOK'
  BY <1>2, TypeParts DEF StreamInv, ReadOK
<1> QED
  BY <1>1, <1>3, <1>4, <1>5, <1>6, <1>7 DEF StreamInv

LEMMA SameEntries ==
  ASSUME StreamInv, UNCHANGED entries
  PROVE  /\ entries' \in [Entries -> EntrySet] /\ Grown
         /\ \A m \in Entries : State(m)' = State(m) /\ entries'[m] = entries[m]
BY TypeParts, WorkerAssumption DEF StreamInv, Grown, State, EntrySet

LEMMA Acked ==
  ASSUME StreamInv, NEW n \in Entries, Xack(n), State(n) # "absent"
  PROVE  /\ entries' \in [Entries -> EntrySet] /\ Grown
         /\ \A m \in Entries \ {n} : entries'[m] = entries[m]
         /\ State(n)' = "acked" /\ entries'[n].delivered = entries[n].delivered
         /\ entries'[n].payload = entries[n].payload
<1>1. entries \in [Entries -> EntrySet]
  BY TypeParts DEF StreamInv
<1>2. entries'[n] = [entries[n] EXCEPT !.state = "acked"] /\ entries[n] \in EntrySet
  BY <1>1 DEF Xack
<1>3. /\ entries'[n] \in EntrySet /\ entries'[n].state = "acked"
      /\ entries'[n].delivered = entries[n].delivered /\ entries'[n].payload = entries[n].payload
  BY <1>2 DEF EntrySet
<1>4. \A m \in Entries \ {n} : entries'[m] = entries[m]
  BY <1>1 DEF Xack
<1>5. entries' \in [Entries -> EntrySet]
  BY <1>1, <1>3, <1>4 DEF Xack
<1>6. \A m \in Entries : entries[m].delivered \in Nat
  BY <1>1, WorkerAssumption DEF EntrySet
<1> QED
  BY <1>3, <1>4, <1>5, <1>6 DEF Grown, State

\* Entries are delivered: claimed, or read.
Deliveries(D) ==
    entries' = [m \in Entries |-> IF m \in D THEN Deliver(entries[m]) ELSE entries[m]]

LEMMA DeliveredOnes ==
  ASSUME StreamInv, NEW D \in SUBSET Entries, Deliveries(D),
         \A m \in D : State(m) \in {"new", "pending"}
  PROVE  /\ entries' \in [Entries -> EntrySet] /\ Grown
         /\ \A m \in Entries \ D : entries'[m] = entries[m]
         /\ \A m \in D : /\ State(m)' = "pending" /\ entries'[m].payload = entries[m].payload
                         /\ entries'[m].delivered = IF entries[m].delivered < MaxRetries + 1
                                                    THEN entries[m].delivered + 1
                                                    ELSE entries[m].delivered
         /\ \A m \in Entries : State(m) \in {"new", "pending"} => State(m)' \in {"new", "pending"}
         /\ \A m \in Entries : State(m)' # "absent" => State(m) # "absent"
<1>1. entries \in [Entries -> EntrySet]
  BY TypeParts DEF StreamInv
<1>2. ASSUME NEW m \in Entries \ D PROVE entries'[m] = entries[m]
  BY DEF Deliveries
<1>3. ASSUME NEW m \in D
      PROVE  /\ entries'[m] \in EntrySet
             /\ State(m)' = "pending" /\ entries'[m].payload = entries[m].payload
             /\ entries'[m].delivered = IF entries[m].delivered < MaxRetries + 1
                                        THEN entries[m].delivered + 1
                                        ELSE entries[m].delivered
  <2>1. entries'[m] = Deliver(entries[m]) /\ entries[m] \in EntrySet
    BY <1>1 DEF Deliveries
  <2> QED
    BY <2>1, Delivered DEF State
<1>4. entries' \in [Entries -> EntrySet]
  BY <1>1, <1>2, <1>3 DEF Deliveries
<1>5. \A m \in Entries : entries[m].delivered \in Nat
  BY <1>1, WorkerAssumption DEF EntrySet
<1> QED
  BY <1>2, <1>3, <1>4, <1>5 DEF Grown, State

\* The loop starts again.
LEMMA LoopOK ==
  ASSUME entries' \in [Entries -> EntrySet]
  PROVE  StepOK(Loop)
<1>1. \A m \in Entries : entries'[m].delivered >= 0
  BY WorkerAssumption DEF EntrySet
<1> QED
  BY <1>1, LoopType DEF StepOK

\* The next message of the batch.
Rest(w) == Begun(worker[w].batch \ {Current(w)}, worker[w].attempts, worker[w].stale)

LEMMA RestOK ==
  ASSUME StreamInv, NEW w \in Workers, entries' \in [Entries -> EntrySet], Grown
  PROVE  /\ Rest(w) \in WorkerSet /\ StepOK(Rest(w))
         /\ Rest(w).batch = worker[w].batch \ {Current(w)} /\ Rest(w).todo = {}
         /\ Rest(w).attempts = worker[w].attempts
         /\ Rest(w).pc \in {"handle", "read", "scan"}
<1> DEFINE q == Rest(w)
           r == worker[w]
<1>1. /\ r \in WorkerSet /\ r.batch \subseteq Entries /\ r.attempts \in [Entries -> 0 .. MaxRetries + 1]
      /\ r.stale \in BOOLEAN /\ \A m \in r.batch : State(m) # "absent"
      /\ entries \in [Entries -> EntrySet]
  BY TypeParts DEF StreamInv, WorkerSet, WorkerOK
<1>2. /\ q \in WorkerSet /\ q.batch = r.batch \ {Current(w)} /\ q.todo = {}
      /\ q.attempts = r.attempts
      /\ q.pc \in {"handle", "read", "scan"} /\ (q.pc = "handle" <=> q.batch # {})
  <2> DEFINE b == r.batch \ {Current(w)}
  <2>1. b \in SUBSET Entries /\ q = Begun(b, r.attempts, r.stale)
    BY <1>1 DEF Rest
  <2> HIDE DEF q, r, b
  <2>2. /\ q \in WorkerSet /\ q.batch = b /\ q.todo = {} /\ q.attempts = r.attempts
        /\ q.pc = IF b # {} THEN "handle" ELSE IF r.stale THEN "read" ELSE "scan"
    BY <1>1, <2>1 DEF Begun, Loop, WorkerSet
  <2> QED
    BY <1>1, <2>2 DEF b
<1>3. ASSUME NEW m \in Entries
      PROVE  /\ r.attempts[m] \in 0 .. MaxRetries + 1
             /\ entries[m].delivered \in 0 .. MaxRetries + 1
             /\ entries'[m].delivered \in 0 .. MaxRetries + 1
             /\ entries'[m].delivered >= entries[m].delivered
             /\ MaxRetries \in Nat
  BY <1>1, WorkerAssumption DEF EntrySet, Grown
<1>4. \A m \in Entries : r.attempts[m] <= entries'[m].delivered
  BY <1>3 DEF StreamInv, AttemptsOK
<1>5. \A m \in r.batch : r.attempts[m] < entries'[m].delivered \/ r.attempts[m] > MaxRetries
  BY <1>1, <1>3 DEF StreamInv, AttemptsOK
<1>6. \A m \in r.batch : State(m)' # "absent"
  BY <1>1 DEF Grown
<1> HIDE DEF q
<1>7. StepOK(q)
  BY <1>2, <1>4, <1>5, <1>6 DEF StepOK
<1> QED
  BY <1>2, <1>7 DEF q

LEMMA NextIsRest ==
  ASSUME NEW w \in Workers
  PROVE  NextMessage(w) <=> Turn(w, Rest(w))
BY DEF NextMessage, Begin, Rest, Begun

\* What is broken off is not counted on any more.
LEMMA BrokenOff ==
  ASSUME NEW w \in Workers, faults' # 0
  PROVE  OnceOK(w)' /\ CountsOK(w)'
BY DEF OnceOK, CountsOK, Unbroken

LEMMA FaultCounts ==
  ASSUME StreamInv, Fault
  PROVE  faults' \in 0 .. MaxFaults /\ faults' >= faults /\ faults' # 0
BY TypeParts, WorkerAssumption DEF StreamInv, Fault

\* An error that ends the loop.
LEMMA AgainInv ==
  ASSUME StreamInv, NEW w \in Workers, Again(w), Fault,
         entries' \in [Entries -> EntrySet], Grown, UNCHANGED <<replay, runs>>,
         done \subseteq done', done' \subseteq Payloads,
         \A m \in Entries : State(m) \in {"new", "pending"} =>
             State(m)' \in {"new", "pending"} \/ Leaves(w, m),
         \A m \in Entries : State(m)' # "absent" => State(m) # "absent",
         UNCHANGED letters \/ (Bury(Payload(w)) /\ worker[w].pc = "bury")
  PROVE  StreamInv'
<1>1. Loop \in WorkerSet /\ StepOK(Loop) /\ Turn(w, Loop) /\ Loop.pc = "scan"
  BY LoopType, LoopOK DEF Again
<1>2. OnceOK(w)' /\ CountsOK(w)' /\ faults' \in 0 .. MaxFaults /\ faults' >= faults
  BY FaultCounts, BrokenOff
<1>3. runs' \in [Entries -> RunSet]
  BY TypeParts DEF StreamInv
<1> QED
  BY <1>1, <1>2, <1>3, WorkInv

\* An error after which the next message is taken.
LEMMA RestInv ==
  ASSUME StreamInv, NEW w \in Workers, NextMessage(w), Fault,
         entries' \in [Entries -> EntrySet], Grown, UNCHANGED <<replay, runs>>,
         done \subseteq done', done' \subseteq Payloads,
         \A m \in Entries : State(m) \in {"new", "pending"} =>
             State(m)' \in {"new", "pending"} \/ Leaves(w, m),
         \A m \in Entries : State(m)' # "absent" => State(m) # "absent",
         UNCHANGED letters \/ (Bury(Payload(w)) /\ worker[w].pc = "bury")
  PROVE  StreamInv'
<1>1. /\ Rest(w) \in WorkerSet /\ StepOK(Rest(w)) /\ Turn(w, Rest(w))
      /\ Rest(w).pc \in {"handle", "read", "scan"}
  BY RestOK, NextIsRest
<1>2. OnceOK(w)' /\ CountsOK(w)' /\ faults' \in 0 .. MaxFaults /\ faults' >= faults
  BY FaultCounts, BrokenOff
<1>3. runs' \in [Entries -> RunSet]
  BY TypeParts DEF StreamInv
<1> QED
  BY <1>1, <1>2, <1>3, WorkInv

LEMMA FirstOfIs ==
  ASSUME NEW s
  PROVE  FirstOf(s) \in SUBSET Entries /\ \A m \in FirstOf(s) : State(m) = s
BY DEF FirstOf, State

\* The next claim of a worker.
LEMMA ClaimFacts ==
  ASSUME StreamInv, NEW w \in Workers, At(w, "claim"), NEW n, n = Least(worker[w].todo)
  PROVE  /\ n \in worker[w].todo /\ n \in Entries
         /\ Claimed(n) \subseteq {n} /\ Claimed(n) \in SUBSET Entries
         /\ \A m \in Claimed(n) : State(m) = "pending"
         /\ ClaimEntry(n) <=> Deliveries(Claimed(n))
<1>1. worker[w].todo \subseteq Entries /\ worker[w].todo # {}
  BY TypeParts DEF StreamInv, WorkerSet, WorkerOK
<1>2. n \in worker[w].todo
  BY <1>1, LeastIn
<1> QED
  BY <1>1, <1>2 DEF Claimed, ClaimEntry, Deliveries, State

LEMMA ClaimFailsInv ==
  ASSUME StreamInv, NEW w \in Workers, ClaimFails(w)
  PROVE  StreamInv'
<1>1. PICK n : n = Least(worker[w].todo)
  OBVIOUS
<1>2. /\ entries' \in [Entries -> EntrySet] /\ Grown
      /\ \A m \in Entries : State(m) \in {"new", "pending"} => State(m)' \in {"new", "pending"}
      /\ \A m \in Entries : State(m)' # "absent" => State(m) # "absent"
  <2>1. CASE UNCHANGED entries
    BY <2>1, SameEntries
  <2>2. CASE ClaimEntry(n)
    BY <1>1, <2>2, ClaimFacts, DeliveredOnes DEF ClaimFails
  <2> QED
    BY <1>1, <2>1, <2>2 DEF ClaimFails
<1>3. done' = done /\ done \subseteq Payloads
  BY TypeParts DEF ClaimFails, StreamInv
<1> QED
  BY <1>2, <1>3, AgainInv DEF ClaimFails

LEMMA ReadFailsInv ==
  ASSUME StreamInv, NEW w \in Workers, ReadFails(w)
  PROVE  StreamInv'
<1>1. Deliveries(FirstOf("new"))
  BY DEF ReadFails, Deliveries
<1>2. /\ entries' \in [Entries -> EntrySet] /\ Grown
      /\ \A m \in Entries : State(m) \in {"new", "pending"} => State(m)' \in {"new", "pending"}
      /\ \A m \in Entries : State(m)' # "absent" => State(m) # "absent"
  BY <1>1, FirstOfIs, DeliveredOnes
<1>3. done' = done /\ done \subseteq Payloads
  BY TypeParts DEF ReadFails, StreamInv
<1> QED
  BY <1>2, <1>3, AgainInv DEF ReadFails

LEMMA CrashInv ==
  ASSUME StreamInv, NEW w \in Workers, Crash(w)
  PROVE  StreamInv'
<1>1. done \subseteq done' /\ done' \subseteq Payloads
  BY HandFacts, TypeParts DEF Crash, StreamInv, At
<1> QED
  BY <1>1, SameEntries, AgainInv DEF Crash

LEMMA BuryFailsInv ==
  ASSUME StreamInv, NEW w \in Workers, BuryFails(w)
  PROVE  StreamInv'
<1>1. done' = done /\ done \subseteq Payloads
  BY TypeParts DEF BuryFails, StreamInv
<1>2. CASE NextMessage(w)
  BY <1>1, <1>2, SameEntries, RestInv DEF BuryFails, At
<1>3. CASE Again(w)
  BY <1>1, <1>3, SameEntries, AgainInv DEF BuryFails, At
<1> QED
  BY <1>2, <1>3 DEF BuryFails, AfterError

\* The message in hand is acknowledged: it is done, or buried.
LEMMA AckFacts ==
  ASSUME StreamInv, NEW w \in Workers, worker[w].pc \in {"ack", "ack_buried"},
         Xack(Current(w)), done' = done
  PROVE  /\ entries' \in [Entries -> EntrySet] /\ Grown
         /\ \A m \in Entries : State(m) \in {"new", "pending"} =>
               State(m)' \in {"new", "pending"} \/ Leaves(w, m)
         /\ \A m \in Entries : State(m)' # "absent" => State(m) # "absent"
<1>1. /\ Current(w) \in Entries /\ State(Current(w)) # "absent"
      /\ worker[w].pc = "ack" => Payload(w) \in done
  BY HandFacts DEF StreamInv, WorkerOK, At
<1>2. /\ entries' \in [Entries -> EntrySet] /\ Grown
      /\ \A m \in Entries \ {Current(w)} : entries'[m] = entries[m]
  BY <1>1, Acked
<1>3. Leaves(w, Current(w))
  BY <1>1 DEF Leaves, At, Payload
<1> QED
  BY <1>1, <1>2, <1>3 DEF State

LEMMA AckFailsInv ==
  ASSUME StreamInv, NEW w \in Workers, AckFails(w)
  PROVE  StreamInv'
<1>1. done' = done /\ done \subseteq Payloads
  BY TypeParts DEF AckFails, StreamInv
<1>2. /\ entries' \in [Entries -> EntrySet] /\ Grown
      /\ \A m \in Entries : State(m) \in {"new", "pending"} =>
            State(m)' \in {"new", "pending"} \/ Leaves(w, m)
      /\ \A m \in Entries : State(m)' # "absent" => State(m) # "absent"
  BY <1>1, SameEntries, AckFacts DEF AckFails
<1>3. CASE NextMessage(w)
  BY <1>1, <1>2, <1>3, RestInv DEF AckFails
<1>4. CASE Again(w)
  BY <1>1, <1>2, <1>4, AgainInv DEF AckFails
<1> QED
  BY <1>3, <1>4 DEF AckFails, AfterError

-----------------------------------------------------------------------------
(* Steps that succeed *)

\* What the loop goes on with when the message in hand is the same.
LEMMA GotoOK ==
  ASSUME StreamInv, NEW w \in Workers, UNCHANGED entries,
         worker[w].pc \in {"handle", "bury"},
         NEW x \in {"ack", "bury", "ack_buried"}, NEW q, q = [worker[w] EXCEPT !.pc = x],
         x = "ack" => Payload(w) \in done',
         x = "bury" /\ Payload(w) \notin NoAmount =>
             entries[Current(w)].delivered = MaxRetries + 1
  PROVE  /\ q \in WorkerSet /\ StepOK(q)
         /\ q.pc = x /\ q.batch = worker[w].batch
         /\ q.todo = worker[w].todo /\ q.attempts = worker[w].attempts
<1>1. worker[w] \in WorkerSet /\ WorkerOK(w) /\ AttemptsOK(w)
  BY TypeParts DEF StreamInv
<1>2. /\ q \in WorkerSet /\ q.pc = x /\ q.batch = worker[w].batch
      /\ q.todo = worker[w].todo /\ q.attempts = worker[w].attempts
  BY <1>1 DEF WorkerSet
<1>3. StepOK(q)
  BY <1>1, <1>2 DEF StepOK, WorkerOK, AttemptsOK, State, Payload, Current
<1> QED
  BY <1>2, <1>3

LEMMA OkCounted ==
  ASSUME StreamInv, NEW n \in Entries, runs' = [runs EXCEPT ![n].ok = UpTo(@, 2)]
  PROVE  /\ runs' \in [Entries -> RunSet]
         /\ \A m \in Entries \ {n} : runs'[m] = runs[m]
         /\ runs'[n].ok = (IF runs[n].ok < 2 THEN runs[n].ok + 1 ELSE runs[n].ok)
         /\ runs'[n].failed = runs[n].failed
<1>1. runs \in [Entries -> RunSet]
  BY TypeParts DEF StreamInv
<1>2. runs'[n] = [runs[n] EXCEPT !.ok = UpTo(@, 2)] /\ runs[n] \in RunSet
  BY <1>1
<1>3. /\ runs'[n] \in RunSet
      /\ runs'[n].ok = (IF runs[n].ok < 2 THEN runs[n].ok + 1 ELSE runs[n].ok)
      /\ runs'[n].failed = runs[n].failed
  BY <1>2 DEF RunSet, UpTo
<1> QED
  BY <1>1, <1>3

LEMMA FailureCounted ==
  ASSUME StreamInv, NEW n \in Entries,
         runs' = [runs EXCEPT ![n].failed = UpTo(@, MaxRetries + 2)]
  PROVE  /\ runs' \in [Entries -> RunSet]
         /\ \A m \in Entries \ {n} : runs'[m] = runs[m]
         /\ runs'[n].failed = (IF runs[n].failed < MaxRetries + 2
                               THEN runs[n].failed + 1 ELSE runs[n].failed)
         /\ runs'[n].ok = runs[n].ok
<1>1. runs \in [Entries -> RunSet]
  BY TypeParts DEF StreamInv
<1>2. runs'[n] = [runs[n] EXCEPT !.failed = UpTo(@, MaxRetries + 2)] /\ runs[n] \in RunSet
  BY <1>1
<1>3. /\ runs'[n] \in RunSet
      /\ runs'[n].failed = (IF runs[n].failed < MaxRetries + 2
                            THEN runs[n].failed + 1 ELSE runs[n].failed)
      /\ runs'[n].ok = runs[n].ok
  BY <1>2, WorkerAssumption DEF RunSet, UpTo
<1> QED
  BY <1>1, <1>3

LEMMA HandleInv ==
  ASSUME StreamInv, NEW w \in Workers, HandleMessage(w)
  PROVE  StreamInv'
<1> DEFINE n == Current(w)
<1>1. PICK q : q = [worker[w] EXCEPT !.pc = "ack"]
  OBVIOUS
<1>2. /\ n \in worker[w].batch /\ n \in Entries /\ State(n) # "absent"
      /\ Payload(w) \in Payloads /\ At(w, "handle")
  BY HandFacts DEF HandleMessage, At
<1>3. /\ q \in WorkerSet /\ StepOK(q) /\ Turn(w, q)
      /\ q.pc = "ack" /\ q.batch = worker[w].batch
      /\ q.todo = worker[w].todo /\ q.attempts = worker[w].attempts
  BY <1>1, <1>2, GotoOK DEF HandleMessage, Goto, At
<1>4. /\ runs' \in [Entries -> RunSet] /\ \A m \in Entries \ {n} : runs'[m] = runs[m]
      /\ runs'[n].ok = (IF runs[n].ok < 2 THEN runs[n].ok + 1 ELSE runs[n].ok)
      /\ runs'[n].failed = runs[n].failed
  BY <1>2, OkCounted DEF HandleMessage
<1>5. worker'[w] = q /\ entries' = entries /\ faults' = faults
  BY <1>3, TypeParts DEF Turn, StreamInv, HandleMessage
<1>6. OnceOK(w)'
  BY <1>2, <1>3, <1>4, <1>5 DEF StreamInv, OnceOK, Unbroken, Settled, State, At, Current
<1>7. CountsOK(w)'
  BY <1>2, <1>3, <1>4, <1>5 DEF StreamInv, CountsOK, Unbroken, Unhandled, State, At
<1>8. done \subseteq done' /\ done' \subseteq Payloads /\ faults \in 0 .. MaxFaults
  BY <1>2, TypeParts DEF HandleMessage, StreamInv
<1>9. faults' \in 0 .. MaxFaults /\ faults' >= faults
  BY <1>5, <1>8, WorkerAssumption
<1> QED
  BY <1>3, <1>4, <1>6, <1>7, <1>8, <1>9, SameEntries, WorkInv DEF HandleMessage

LEMMA NoAmountInv ==
  ASSUME StreamInv, NEW w \in Workers, NoAmountField(w)
  PROVE  StreamInv'
<1> DEFINE n == Current(w)
<1>1. PICK q : q = [worker[w] EXCEPT !.pc = "bury"]
  OBVIOUS
<1>2. /\ n \in worker[w].batch /\ n \in Entries /\ State(n) # "absent"
      /\ Payload(w) \in NoAmount /\ At(w, "handle")
  BY HandFacts DEF NoAmountField, At
<1>3. /\ q \in WorkerSet /\ StepOK(q) /\ Turn(w, q)
      /\ q.pc = "bury" /\ q.batch = worker[w].batch
      /\ q.todo = worker[w].todo /\ q.attempts = worker[w].attempts
  BY <1>1, <1>2, GotoOK DEF NoAmountField, Goto, At
<1>4. worker'[w] = q /\ entries' = entries /\ faults' = faults /\ runs' = runs
  BY <1>3, TypeParts DEF Turn, StreamInv, NoAmountField
<1>5. OnceOK(w)'
  BY <1>2, <1>3, <1>4 DEF StreamInv, OnceOK, Unbroken, Settled, State, At, Current
<1>6. CountsOK(w)'
  BY <1>2, <1>3, <1>4 DEF StreamInv, CountsOK, Unbroken, Unhandled, State, At, Payload, Current
<1>7. /\ done' = done /\ done \subseteq Payloads /\ faults \in 0 .. MaxFaults
      /\ runs \in [Entries -> RunSet]
  BY TypeParts DEF NoAmountField, StreamInv
<1>8. faults' \in 0 .. MaxFaults /\ faults' >= faults
  BY <1>4, <1>7, WorkerAssumption
<1> QED
  BY <1>3, <1>4, <1>5, <1>6, <1>7, <1>8, SameEntries, WorkInv DEF NoAmountField

LEMMA BuryInv ==
  ASSUME StreamInv, NEW w \in Workers, BuryMessage(w)
  PROVE  StreamInv'
<1> DEFINE n == Current(w)
<1>1. PICK q : q = [worker[w] EXCEPT !.pc = "ack_buried"]
  OBVIOUS
<1>2. n \in worker[w].batch /\ n \in Entries /\ State(n) # "absent" /\ At(w, "bury")
  BY HandFacts DEF BuryMessage, At
<1>3. /\ q \in WorkerSet /\ StepOK(q) /\ Turn(w, q)
      /\ q.pc = "ack_buried" /\ q.batch = worker[w].batch
      /\ q.todo = worker[w].todo /\ q.attempts = worker[w].attempts
  BY <1>1, <1>2, GotoOK DEF BuryMessage, Goto, At
<1>4. worker'[w] = q /\ entries' = entries /\ faults' = faults /\ runs' = runs
  BY <1>3, TypeParts DEF Turn, StreamInv, BuryMessage
<1>5. OnceOK(w)'
  BY <1>2, <1>3, <1>4 DEF StreamInv, OnceOK, Unbroken, Settled, State, At, Current
<1>6. CountsOK(w)'
  BY <1>2, <1>3, <1>4 DEF StreamInv, CountsOK, Unbroken, Unhandled, State, At, Current
<1>7. /\ done' = done /\ done \subseteq Payloads /\ faults \in 0 .. MaxFaults
      /\ runs \in [Entries -> RunSet]
  BY TypeParts DEF BuryMessage, StreamInv
<1>8. faults' \in 0 .. MaxFaults /\ faults' >= faults
  BY <1>4, <1>7, WorkerAssumption
<1> QED
  BY <1>2, <1>3, <1>4, <1>5, <1>6, <1>7, <1>8, SameEntries, WorkInv DEF BuryMessage, At

LEMMA RaisesInv ==
  ASSUME StreamInv, NEW w \in Workers, HandlerRaises(w)
  PROVE  StreamInv'
<1> DEFINE n == Current(w)
           r == worker[w]
<1>1. /\ n \in r.batch /\ n \in Entries /\ State(n) # "absent"
      /\ Payload(w) \in Payloads /\ Payload(w) \notin NoAmount /\ r.pc = "handle"
      /\ entries' = entries /\ faults' = faults
  BY HandFacts DEF HandlerRaises, At
<1>2. /\ runs' \in [Entries -> RunSet] /\ \A m \in Entries \ {n} : runs'[m] = runs[m]
      /\ runs'[n].failed = (IF runs[n].failed < MaxRetries + 2
                            THEN runs[n].failed + 1 ELSE runs[n].failed)
      /\ runs'[n].ok = runs[n].ok
  BY <1>1, FailureCounted DEF HandlerRaises
<1>3. /\ done \subseteq done' /\ done' \subseteq Payloads /\ faults \in 0 .. MaxFaults
      /\ faults' \in 0 .. MaxFaults /\ faults' >= faults
  BY <1>1, TypeParts, WorkerAssumption DEF HandlerRaises, StreamInv
<1>4. /\ entries[n].delivered \in 0 .. MaxRetries + 1 /\ r.attempts[n] \in 0 .. MaxRetries + 1
      /\ r.attempts[n] <= entries[n].delivered
      /\ r.attempts[n] < entries[n].delivered \/ r.attempts[n] > MaxRetries
      /\ r.batch \subseteq Entries /\ MaxRetries \in Nat
      /\ runs[n].failed \in 0 .. MaxRetries + 2
  BY <1>1, TypeParts, WorkerAssumption DEF StreamInv, AttemptsOK, WorkerSet, EntrySet, RunSet
<1>5. CASE Exhausted(r.attempts[n]) /\ Goto(w, "bury")
  <2>1. PICK q : q = [r EXCEPT !.pc = "bury"]
    OBVIOUS
  <2>2. entries[n].delivered = MaxRetries + 1
    BY <1>4, <1>5 DEF Exhausted
  <2>3. /\ q \in WorkerSet /\ StepOK(q) /\ Turn(w, q)
        /\ q.pc = "bury" /\ q.batch = r.batch /\ q.todo = r.todo /\ q.attempts = r.attempts
    BY <1>1, <1>5, <2>1, <2>2, GotoOK DEF Goto
  <2>4. worker'[w] = q
    BY <2>3, TypeParts DEF Turn, StreamInv
  <2>5. OnceOK(w)'
    BY <1>1, <1>2, <2>3, <2>4 DEF StreamInv, OnceOK, Unbroken, Settled, State, At, Current
  <2>6. CountsOK(w)'
    BY <1>1, <1>2, <1>4, <2>3, <2>4
    DEF StreamInv, CountsOK, OnceOK, Unbroken, Unhandled, State, Payload, Current
  <2> QED
    BY <1>1, <1>2, <1>3, <2>3, <2>5, <2>6, SameEntries, WorkInv DEF HandlerRaises
<1>6. CASE ~Exhausted(r.attempts[n]) /\ NextMessage(w)
  <2>1. PICK q : q = Rest(w)
    OBVIOUS
  <2>2. /\ q \in WorkerSet /\ StepOK(q) /\ Turn(w, q)
        /\ q.batch = r.batch \ {n} /\ q.todo = {} /\ q.attempts = r.attempts
        /\ q.pc \in {"handle", "read", "scan"}
    BY <1>1, <1>6, <2>1, SameEntries, RestOK, NextIsRest
  <2>3. worker'[w] = q
    BY <2>2, TypeParts DEF Turn, StreamInv
  <2>4. OnceOK(w)'
    BY <1>1, <1>2, <2>2, <2>3 DEF StreamInv, OnceOK, Unbroken, Settled, State, At
  <2>5. r.attempts[n] + 1 <= MaxRetries
    BY <1>4, <1>6 DEF Exhausted
  <2>6. CountsOK(w)'
    BY <1>1, <1>2, <1>4, <2>2, <2>3, <2>5
    DEF StreamInv, CountsOK, OnceOK, Unbroken, Unhandled, State, Payload
  <2> QED
    BY <1>1, <1>2, <1>3, <2>2, <2>4, <2>6, SameEntries, WorkInv DEF HandlerRaises
<1> QED
  BY <1>5, <1>6 DEF HandlerRaises

LEMMA AcknowledgeInv ==
  ASSUME StreamInv, NEW w \in Workers, Acknowledge(w)
  PROVE  StreamInv'
<1> DEFINE n == Current(w)
           r == worker[w]
<1>1. /\ n \in r.batch /\ n \in Entries /\ State(n) # "absent" /\ r.pc \in {"ack", "ack_buried"}
      /\ runs' = runs /\ faults' = faults /\ done' = done
  BY HandFacts DEF Acknowledge
<1>2. /\ entries' \in [Entries -> EntrySet] /\ Grown
      /\ \A m \in Entries : State(m) \in {"new", "pending"} =>
            State(m)' \in {"new", "pending"} \/ Leaves(w, m)
      /\ \A m \in Entries : State(m)' # "absent" => State(m) # "absent"
  BY <1>1, AckFacts DEF Acknowledge
<1>3. /\ \A m \in Entries \ {n} : entries'[m] = entries[m]
      /\ entries'[n].state = "acked" /\ entries'[n].delivered = entries[n].delivered
  <2>1. Xack(n)
    BY DEF Acknowledge
  <2> HIDE DEF n
  <2> QED
    BY <1>1, <2>1, Acked DEF State
<1>4. PICK q : q = Rest(w)
  OBVIOUS
<1>5. /\ q \in WorkerSet /\ StepOK(q) /\ Turn(w, q)
      /\ q.batch = r.batch \ {n} /\ q.todo = {} /\ q.attempts = r.attempts
      /\ q.pc \in {"handle", "read", "scan"}
  BY <1>2, <1>4, RestOK, NextIsRest DEF Acknowledge
<1>6. /\ worker'[w] = q /\ r.batch \subseteq Entries
      /\ done \subseteq Payloads /\ runs \in [Entries -> RunSet] /\ faults \in 0 .. MaxFaults
  BY <1>5, TypeParts DEF Turn, StreamInv, WorkerSet
<1>7. OnceOK(w)'
  BY <1>1, <1>3, <1>5, <1>6 DEF StreamInv, OnceOK, Unbroken, Settled, State, At
<1>8. CountsOK(w)'
  BY <1>1, <1>3, <1>5, <1>6 DEF StreamInv, CountsOK, Unbroken, Unhandled, State
<1>9. faults' \in 0 .. MaxFaults /\ faults' >= faults
  BY <1>1, <1>6, WorkerAssumption
<1> QED
  BY <1>1, <1>2, <1>5, <1>6, <1>7, <1>8, <1>9, WorkInv DEF Acknowledge

LEMMA ScanInv ==
  ASSUME StreamInv, NEW w \in Workers, Scan(w)
  PROVE  StreamInv'
<1> DEFINE idle == {m \in FirstOf("pending") : entries[m].idle}
           att  == [m \in Entries |-> IF m \in idle THEN entries[m].delivered ELSE 0]
           q    == [Loop EXCEPT !.todo = idle,
                                !.pc = IF idle = {} THEN "read" ELSE "claim",
                                !.attempts = att]
<1>1. Turn(w, q) /\ worker[w].pc = "scan" /\ UNCHANGED <<entries, letters, replay, done, runs, faults>>
  BY DEF Scan, At
<1>2. idle \in SUBSET Entries /\ \A m \in idle : State(m) = "pending"
  BY FirstOfIs
<1>3. \A m \in Entries : entries[m].delivered \in 0 .. MaxRetries + 1
  BY TypeParts DEF StreamInv, EntrySet
<1>4. /\ att \in [Entries -> 0 .. MaxRetries + 1]
      /\ \A m \in Entries : att[m] <= entries[m].delivered
      /\ \A m \in idle : att[m] = entries[m].delivered
  BY <1>2, <1>3, WorkerAssumption
<1> HIDE DEF idle, att
<1>5. /\ q \in WorkerSet /\ q.batch = {} /\ q.todo = idle /\ q.attempts = att
      /\ q.pc = IF idle = {} THEN "read" ELSE "claim"
  BY <1>2, <1>4, WorkerAssumption DEF Loop, WorkerSet
<1> HIDE DEF q
<1>6. StepOK(q)
  BY <1>1, <1>2, <1>4, <1>5 DEF StepOK, State
<1>7. worker'[w] = q /\ worker[w].batch = {}
  BY <1>1, TypeParts DEF Turn, StreamInv, WorkerOK
<1>8. OnceOK(w)'
  BY <1>1, <1>5, <1>7 DEF StreamInv, OnceOK, Unbroken, Settled, State, At
<1>9. CountsOK(w)'
  BY <1>1, <1>2, <1>4, <1>5, <1>7 DEF StreamInv, CountsOK, Unbroken, Unhandled, State
<1>10. /\ runs' \in [Entries -> RunSet] /\ faults' \in 0 .. MaxFaults /\ faults' >= faults
       /\ done' = done /\ done \subseteq Payloads
  BY <1>1, TypeParts, WorkerAssumption DEF StreamInv
<1> QED
  BY <1>1, <1>5, <1>6, <1>8, <1>9, <1>10, SameEntries, WorkInv

LEMMA ReadInv ==
  ASSUME StreamInv, NEW w \in Workers, Read(w)
  PROVE  StreamInv'
<1> DEFINE new == FirstOf("new")
           att == [m \in Entries |-> 0]
           q   == Begun(new, att, FALSE)
<1>1. /\ Turn(w, q) /\ worker[w].pc = "read" /\ Deliveries(new)
      /\ UNCHANGED <<letters, replay, done, runs, faults>>
  BY DEF Read, At, Begin, Begun, Deliveries
<1>2. new \in SUBSET Entries /\ \A m \in new : State(m) = "new"
  BY FirstOfIs
<1>3. /\ entries' \in [Entries -> EntrySet] /\ Grown
      /\ \A m \in Entries \ new : entries'[m] = entries[m]
      /\ \A m \in new : /\ State(m)' = "pending" /\ entries'[m].payload = entries[m].payload
                        /\ entries'[m].delivered = IF entries[m].delivered < MaxRetries + 1
                                                   THEN entries[m].delivered + 1
                                                   ELSE entries[m].delivered
      /\ \A m \in Entries : State(m) \in {"new", "pending"} => State(m)' \in {"new", "pending"}
      /\ \A m \in Entries : State(m)' # "absent" => State(m) # "absent"
  BY <1>1, <1>2, DeliveredOnes
<1>4. \A m \in Entries : /\ entries[m].delivered \in 0 .. MaxRetries + 1
                         /\ entries'[m].delivered \in 0 .. MaxRetries + 1
                         /\ MaxRetries \in Nat /\ MaxRetries > 0
  BY <1>3, TypeParts, WorkerAssumption DEF StreamInv, EntrySet
<1>5. att \in [Entries -> 0 .. MaxRetries + 1] /\ \A m \in Entries : att[m] = 0
  BY WorkerAssumption
<1> HIDE DEF new, att
<1>6. /\ q \in WorkerSet /\ q.batch = new /\ q.todo = {} /\ q.attempts = att
      /\ q.pc = IF new = {} THEN "scan" ELSE "handle"
  BY <1>2, <1>5 DEF Begun, Loop, WorkerSet
<1> HIDE DEF q
<1>7. StepOK(q)
  BY <1>2, <1>3, <1>4, <1>5, <1>6 DEF StepOK
<1>8. worker'[w] = q /\ worker[w].batch = {}
  BY <1>1, TypeParts DEF Turn, StreamInv, WorkerOK
<1>9. OnceOK(w)'
  BY <1>1, <1>2, <1>3, <1>6, <1>8 DEF StreamInv, OnceOK, Unbroken, Settled, State, At
<1>10. CountsOK(w)'
  BY <1>1, <1>2, <1>3, <1>4, <1>5, <1>6, <1>8
  DEF StreamInv, CountsOK, Unbroken, Unhandled, State
<1>11. /\ runs' \in [Entries -> RunSet] /\ faults' \in 0 .. MaxFaults /\ faults' >= faults
       /\ done' = done /\ done \subseteq Payloads
  BY <1>1, TypeParts, WorkerAssumption DEF StreamInv
<1> QED
  BY <1>1, <1>3, <1>6, <1>7, <1>9, <1>10, <1>11, WorkInv

LEMMA ClaimInv ==
  ASSUME StreamInv, NEW w \in Workers, ClaimNext(w)
  PROVE  StreamInv'
<1> DEFINE r == worker[w]
           n == Least(r.todo)
           D == Claimed(n)
           rest  == r.todo \ {n}
           batch == r.batch \cup D
           q == IF rest # {} THEN [r EXCEPT !.todo = rest, !.batch = batch]
                ELSE Begun(batch, r.attempts, TRUE)
<1>1. /\ r \in WorkerSet /\ r.pc = "claim" /\ Turn(w, q)
      /\ UNCHANGED <<letters, replay, done, runs, faults>>
  BY TypeParts DEF StreamInv, ClaimNext, At, Begin, Begun
<1>2. /\ n \in r.todo /\ n \in Entries /\ D \subseteq {n} /\ D \in SUBSET Entries
      /\ \A m \in D : State(m) = "pending"
      /\ Deliveries(D)
  BY <1>1, ClaimFacts DEF ClaimNext, At
<1>3. /\ entries' \in [Entries -> EntrySet] /\ Grown
      /\ \A m \in Entries \ D : entries'[m] = entries[m]
      /\ \A m \in D : /\ State(m)' = "pending" /\ entries'[m].payload = entries[m].payload
                      /\ entries'[m].delivered = IF entries[m].delivered < MaxRetries + 1
                                                 THEN entries[m].delivered + 1
                                                 ELSE entries[m].delivered
      /\ \A m \in Entries : State(m) \in {"new", "pending"} => State(m)' \in {"new", "pending"}
      /\ \A m \in Entries : State(m)' # "absent" => State(m) # "absent"
  BY <1>2, DeliveredOnes
<1> HIDE DEF n, D
<1>4. /\ q \in WorkerSet /\ q.batch = batch /\ q.todo = rest /\ q.attempts = r.attempts
      /\ q.pc = IF rest # {} THEN "claim" ELSE IF batch # {} THEN "handle" ELSE "read"
  <2>1. CASE rest # {}
    BY <1>1, <1>2, <2>1 DEF WorkerSet
  <2>2. CASE rest = {}
    BY <1>1, <1>2, <2>2 DEF WorkerSet, Begun, Loop
  <2> QED
    BY <2>1, <2>2
<1> HIDE DEF q
<1>5. ASSUME NEW m \in Entries
      PROVE  /\ entries[m].delivered \in 0 .. MaxRetries + 1
             /\ entries'[m].delivered \in 0 .. MaxRetries + 1
             /\ entries'[m].delivered >= entries[m].delivered
             /\ r.attempts[m] \in 0 .. MaxRetries + 1
             /\ r.attempts[m] <= entries[m].delivered
             /\ r.attempts[m] <= entries'[m].delivered
             /\ MaxRetries \in Nat /\ MaxRetries > 0
             /\ runs[m].failed \in Nat
  BY <1>1, <1>3, TypeParts, WorkerAssumption
  DEF StreamInv, AttemptsOK, WorkerSet, EntrySet, RunSet, Grown
<1>6. r.batch \subseteq Entries /\ r.todo \subseteq Entries
  BY <1>1 DEF WorkerSet
<1>7. \A m \in r.batch \cup D :
         r.attempts[m] < entries'[m].delivered \/ r.attempts[m] > MaxRetries
  <2>1. ASSUME NEW m \in r.batch
        PROVE  r.attempts[m] < entries'[m].delivered \/ r.attempts[m] > MaxRetries
    BY <1>5, <1>6 DEF StreamInv, AttemptsOK
  <2>2. ASSUME NEW m \in D
        PROVE  r.attempts[m] < entries'[m].delivered \/ r.attempts[m] > MaxRetries
    BY <1>2, <1>3, <1>5
  <2> QED
    BY <2>1, <2>2
<1>8. \A m \in r.batch \cup r.todo : State(m)' # "absent"
  BY <1>3, <1>6 DEF Grown, StreamInv, WorkerOK
<1>9. StepOK(q)
  BY <1>2, <1>4, <1>5, <1>7, <1>8 DEF StepOK
<1>10. worker'[w] = q
  BY <1>1, TypeParts DEF Turn, StreamInv
<1>11. OnceOK(w)'
  BY <1>1, <1>2, <1>3, <1>4, <1>6, <1>10
  DEF StreamInv, OnceOK, Unbroken, Settled, State, At
<1>12. CountsOK(w)'
  <2> SUFFICES ASSUME Unbroken(w) PROVE CountsOK(w)'
    BY <1>1 DEF CountsOK, Unbroken
  <2>1. /\ State(n) = "pending" /\ n \notin r.batch
        /\ entries[n].delivered = r.attempts[n] /\ entries[n].delivered <= MaxRetries
    BY <1>2 DEF StreamInv, CountsOK
  <2>2. ASSUME NEW m \in D
        PROVE  /\ m = n /\ entries'[m].delivered = r.attempts[m] + 1
               /\ entries[m].payload \notin NoAmount => entries'[m].delivered = runs[m].failed + 1
    BY <1>2, <1>3, <1>5, <2>1 DEF StreamInv, CountsOK, Unhandled
  <2>3. ASSUME NEW m \in Entries
        PROVE  /\ State(m)' \in {"absent", "new"} =>
                     entries'[m].delivered = 0 /\ runs'[m].failed = 0
               /\ State(m)' = "pending" /\ m \notin q.batch =>
                     entries'[m].delivered <= MaxRetries
               /\ State(m)' = "pending" /\ entries'[m].payload \notin NoAmount =>
                     entries'[m].delivered =
                        runs'[m].failed + (IF Unhandled(w, m)' THEN 1 ELSE 0)
    <3>1. CASE m \in D
      BY <1>1, <1>3, <1>4, <1>10, <2>2, <3>1 DEF Unhandled, State
    <3>2. CASE m \notin D
      BY <1>1, <1>3, <1>4, <1>10, <3>2 DEF StreamInv, CountsOK, Unhandled, State
    <3> QED
      BY <3>1, <3>2
  <2>4. ASSUME NEW m \in q.todo
        PROVE  /\ State(m)' = "pending" /\ m \notin q.batch
               /\ entries'[m].delivered = q.attempts[m]
    BY <1>2, <1>3, <1>4, <1>6 DEF StreamInv, CountsOK, State
  <2>5. ASSUME NEW m \in q.batch PROVE entries'[m].delivered = q.attempts[m] + 1
    BY <1>3, <1>4, <1>6, <2>1, <2>2 DEF StreamInv, CountsOK
  <2> QED
    BY <1>10, <2>3, <2>4, <2>5 DEF CountsOK
<1>13. /\ runs' \in [Entries -> RunSet] /\ faults' \in 0 .. MaxFaults /\ faults' >= faults
       /\ done' = done /\ done \subseteq Payloads
  BY <1>1, TypeParts, WorkerAssumption DEF StreamInv
<1> QED
  BY <1>1, <1>3, <1>4, <1>9, <1>11, <1>12, <1>13, WorkInv

LEMMA AnyWorkInv ==
  ASSUME StreamInv, NEW w \in Workers, Work(w) \/ Crash(w)
  PROVE  StreamInv'
BY ScanInv, ClaimInv, ClaimFailsInv, ReadInv, ReadFailsInv, HandleInv, RaisesInv, NoAmountInv,
   AcknowledgeInv, AckFailsInv, BuryInv, BuryFailsInv, CrashInv
DEF Work

-----------------------------------------------------------------------------
(* Steps of others *)

\* An entry that no worker has yet, or one that only grows idle.
SoftChange ==
    \A m \in Entries :
        \/ entries'[m] = entries[m]
        \/ /\ State(m) = "absent" /\ State(m)' = "new"
           /\ entries'[m].delivered = entries[m].delivered
        \/ /\ State(m) # "absent" /\ State(m)' = State(m)
           /\ entries'[m].delivered = entries[m].delivered
           /\ entries'[m].payload = entries[m].payload

LEMMA WorkersStay ==
  ASSUME StreamInv, entries' \in [Entries -> EntrySet], SoftChange, NEW w \in Workers,
         UNCHANGED <<worker, runs, done>>, faults' \in Nat, faults' >= faults
  PROVE  WorkerOK(w)' /\ AttemptsOK(w)' /\ OnceOK(w)' /\ CountsOK(w)'
<1>1. /\ worker[w].batch \subseteq Entries /\ worker[w].todo \subseteq Entries
      /\ faults \in 0 .. MaxFaults
      /\ \A m \in worker[w].batch \cup worker[w].todo : State(m) # "absent"
  BY TypeParts DEF StreamInv, WorkerSet, WorkerOK
<1>2. \A m \in Entries : entries'[m].delivered = entries[m].delivered
  BY DEF SoftChange
<1>3. \A m \in worker[w].batch \cup worker[w].todo :
         entries'[m].payload = entries[m].payload /\ State(m)' = State(m)
  BY <1>1 DEF SoftChange, State
<1>4. worker[w].pc \in {"handle", "ack", "bury", "ack_buried"} =>
         /\ Current(w) \in worker[w].batch /\ Current(w) \in Entries
         /\ Payload(w)' = Payload(w)
  BY <1>3, HandFacts DEF Payload, Current
<1>5. WorkerOK(w)'
  BY <1>1, <1>3, <1>4 DEF StreamInv, WorkerOK, At
<1>6. AttemptsOK(w)'
  BY <1>1, <1>2, <1>4 DEF StreamInv, AttemptsOK, At, Current
<1>7. Unbroken(w)' => Unbroken(w)
  BY <1>1, WorkerAssumption DEF Unbroken
<1>8. OnceOK(w)'
  BY <1>1, <1>3, <1>7 DEF StreamInv, OnceOK, Settled, SoftChange, State, At, Current
<1>9. CountsOK(w)'
  <2> SUFFICES ASSUME Unbroken(w) PROVE CountsOK(w)'
    BY <1>7 DEF CountsOK
  <2>1. ASSUME NEW m \in Entries
        PROVE  /\ State(m)' \in {"absent", "new"} =>
                     entries'[m].delivered = 0 /\ runs'[m].failed = 0
               /\ State(m)' = "pending" /\ m \notin worker'[w].batch =>
                     entries'[m].delivered <= MaxRetries
               /\ State(m)' = "pending" /\ entries'[m].payload \notin NoAmount =>
                     entries'[m].delivered =
                        runs'[m].failed + (IF Unhandled(w, m)' THEN 1 ELSE 0)
    <3>1. Unhandled(w, m)' <=> Unhandled(w, m)
      BY DEF Unhandled, Current
    <3> QED
      BY <3>1 DEF StreamInv, CountsOK, SoftChange, State
  <2> QED
    BY <1>1, <1>2, <1>3, <2>1 DEF StreamInv, CountsOK
<1> QED
  BY <1>5, <1>6, <1>8, <1>9

\* Payloads stay where they are kept, or move.
LEMMA KeptStay ==
  ASSUME StreamInv, SoftChange, UNCHANGED <<worker, done>>,
         NEW p \in Payloads, Kept(p),
         \A l \in Letters :
            letters[l].state = "there" /\ letters[l].payload = p =>
               \/ letters'[l].state = "there" /\ letters'[l].payload = p
               \/ \E n \in Entries : /\ State(n) = "absent" /\ State(n)' = "new"
                                     /\ entries'[n].payload = p
  PROVE  Kept(p)'
<1>1. ASSUME NEW m \in Entries, State(m)' \in {"new", "pending"}, entries'[m].payload = p,
             State(m) = "absent" \/ Waits(m)
      PROVE  Kept(p)'
  <2>1. ASSUME NEW w \in Workers, At(w, "ack_buried"), Current(w) = m PROVE FALSE
    BY <1>1, <2>1, HandFacts DEF Waits, At
  <2> QED
    BY <1>1, <2>1 DEF Kept, Waits, At, Current
<1>2. CASE p \in done
  BY <1>2 DEF Kept
<1>3. ASSUME NEW m \in Entries, entries[m].payload = p, Waits(m) PROVE Kept(p)'
  BY <1>1, <1>3 DEF SoftChange, Waits, State
<1>4. ASSUME NEW l \in Letters, letters[l].state = "there", letters[l].payload = p
      PROVE  Kept(p)'
  BY <1>1, <1>4 DEF Kept
<1> QED
  BY <1>2, <1>3, <1>4 DEF Kept

LEMMA AbsentEntry ==
  ASSUME StreamInv, NEW n \in Entries, State(n) = "absent"
  PROVE  \A w \in Workers : ~(At(w, "ack_buried") /\ Current(w) = n)
BY HandFacts DEF At

\* A step that is not a worker's.
LEMMA OtherInv ==
  ASSUME StreamInv, entries' \in [Entries -> EntrySet], SoftChange,
         UNCHANGED <<worker, runs, done>>, faults' \in 0 .. MaxFaults, faults' >= faults,
         letters' \in [Letters -> LetterSet],
         \A l \in Letters : letters'[l].state # "absent" => letters'[l].payload \in Payloads,
         \A l \in Letters : letters[l].state # "absent" => letters'[l].state # "absent",
         replay' \in [Admins -> Letters \cup {None}],
         \A d \in Admins : replay'[d] # None =>
             replay'[d] = replay[d] \/ letters[replay'[d]].state # "absent",
         \A m \in Entries : State(m) = "absent" /\ State(m)' = "new" =>
             entries'[m].payload \in Payloads,
         \A p \in Payloads : Seen(p)' => Kept(p)'
  PROVE  StreamInv'
<1>1. \A m \in Entries : entries'[m].state # "absent" => entries'[m].payload \in Payloads
  BY TypeParts DEF StreamInv, SoftChange, State
<1>2. StreamTypeOK'
  BY <1>1, TypeParts, NextTypeParts DEF StreamInv
<1>3. \A w \in Workers : WorkerOK(w)' /\ AttemptsOK(w)' /\ OnceOK(w)' /\ CountsOK(w)'
  BY WorkersStay, WorkerAssumption
<1>4. ReadOK'
  BY DEF StreamInv, ReadOK
<1> QED
  BY <1>2, <1>3, <1>4 DEF StreamInv

LEMMA IdleInv ==
  ASSUME StreamInv, NEW m \in Entries, Idle(m)
  PROVE  StreamInv'
<1>1. entries[m] \in EntrySet /\ entries'[m] = [entries[m] EXCEPT !.idle = TRUE]
      /\ \A k \in Entries \ {m} : entries'[k] = entries[k]
  BY TypeParts DEF StreamInv, Idle
<1>2. /\ entries'[m] \in EntrySet /\ entries'[m].state = entries[m].state
      /\ entries'[m].delivered = entries[m].delivered /\ entries'[m].payload = entries[m].payload
  BY <1>1 DEF EntrySet
<1>3. entries' \in [Entries -> EntrySet]
  BY <1>1, <1>2, TypeParts DEF Idle, StreamInv
<1>4. SoftChange
  BY <1>1, <1>2 DEF SoftChange, Idle, State
<1>5. ASSUME NEW p \in Payloads, Seen(p)' PROVE Kept(p)'
  <2>1. Seen(p)
    BY <1>1, <1>2, <1>5 DEF Seen, Idle
  <2> QED
    BY <1>4, <2>1, KeptStay DEF StreamInv, Idle
<1> QED
  BY <1>1, <1>2, <1>3, <1>4, <1>5, OtherInv, TypeParts, WorkerAssumption
  DEF StreamInv, Idle, State

LEMMA ReadLetterInv ==
  ASSUME StreamInv, NEW d \in Admins, NEW l \in Letters, ReadLetter(d, l)
  PROVE  StreamInv'
<1>1. SoftChange /\ replay' \in [Admins -> Letters \cup {None}]
  BY TypeParts DEF SoftChange, StreamInv, ReadLetter
<1>2. ASSUME NEW p \in Payloads, Seen(p)' PROVE Kept(p)'
  <2>1. Seen(p)
    BY <1>2 DEF Seen, ReadLetter
  <2> QED
    BY <1>1, <2>1, KeptStay DEF StreamInv, ReadLetter
<1> QED
  BY <1>1, <1>2, OtherInv, TypeParts, WorkerAssumption DEF StreamInv, ReadLetter, State

\* An entry is added, perhaps from a letter that goes.
LEMMA AddedInv ==
  ASSUME StreamInv, NEW p \in Payloads, Xadd(p), UNCHANGED <<worker, runs, done>>,
         faults' \in 0 .. MaxFaults, faults' >= faults,
         letters' \in [Letters -> LetterSet],
         \A l \in Letters : /\ letters'[l].payload = letters[l].payload
                            /\ letters[l].state = "absent" <=> letters'[l].state = "absent"
                            /\ letters'[l].state # letters[l].state => letters[l].payload = p,
         replay' \in [Admins -> Letters \cup {None}],
         \A d \in Admins : replay'[d] = None \/ replay'[d] = replay[d]
  PROVE  StreamInv'
<1>1. entries \in [Entries -> EntrySet]
  BY TypeParts DEF StreamInv
<1>2. PICK n \in Entries :
            /\ State(n) = "absent"
            /\ entries' \in [Entries -> EntrySet]
            /\ State(n)' = "new" /\ entries'[n].payload = p
            /\ entries'[n].delivered = entries[n].delivered
            /\ \A m \in Entries \ {n} : entries'[m] = entries[m]
  BY <1>1, Xadded
<1>3. SoftChange
  BY <1>2 DEF SoftChange
<1>4. ASSUME NEW s \in Payloads, Seen(s)' PROVE Kept(s)'
  <2>1. CASE s = p
    BY <1>2, <2>1, AbsentEntry DEF Kept, Waits, At, Current
  <2>2. CASE s # p
    <3>1. Seen(s)
      BY <1>2, <1>4, <2>2 DEF Seen
    <3>2. Kept(s)
      BY <3>1 DEF StreamInv
    <3> QED
      BY <1>3, <2>2, <3>2, KeptStay
  <2> QED
    BY <2>1, <2>2
<1>5. \A l \in Letters : letters'[l].state # "absent" => letters'[l].payload \in Payloads
  BY TypeParts DEF StreamInv
<1>6. \A m \in Entries : State(m) = "absent" /\ State(m)' = "new" =>
             entries'[m].payload \in Payloads
  BY <1>2 DEF State
<1> QED
  BY <1>2, <1>3, <1>4, <1>5, <1>6, OtherInv

LEMMA MoveLetterInv ==
  ASSUME StreamInv, NEW d \in Admins, replay[d] # None, MoveLetter(d),
         replay' = [replay EXCEPT ![d] = None],
         UNCHANGED <<worker, runs, done>>, faults' \in 0 .. MaxFaults, faults' >= faults
  PROVE  StreamInv'
<1> DEFINE l == replay[d]
<1>1. /\ l \in Letters /\ letters[l].state # "absent"
      /\ letters \in [Letters -> LetterSet] /\ letters[l].payload \in Payloads
      /\ replay \in [Admins -> Letters \cup {None}]
  BY TypeParts DEF StreamInv, ReadOK
<1>2. /\ letters' = [letters EXCEPT ![l].state = "deleted"]
      /\ Xadd(letters[l].payload)
  BY DEF MoveLetter
<1>3. /\ letters'[l] \in LetterSet /\ letters'[l].state = "deleted"
      /\ letters'[l].payload = letters[l].payload
      /\ \A k \in Letters \ {l} : letters'[k] = letters[k]
  BY <1>1, <1>2 DEF LetterSet
<1>4. letters' \in [Letters -> LetterSet]
  BY <1>1, <1>2, <1>3
<1>5. \A e \in Admins : replay'[e] = None \/ replay'[e] = replay[e]
  BY <1>1
<1>6. replay' \in [Admins -> Letters \cup {None}]
  BY <1>1
<1> HIDE DEF l
<1> QED
  BY <1>1, <1>2, <1>3, <1>4, <1>5, <1>6, AddedInv

LEMMA ReplayInv ==
  ASSUME StreamInv, NEW d \in Admins, Replay(d)
  PROVE  StreamInv'
<1>1. faults' \in 0 .. MaxFaults /\ faults' >= faults
  BY TypeParts, WorkerAssumption DEF StreamInv, Replay
<1>2. /\ replay[d] # None /\ MoveLetter(d) /\ replay' = [replay EXCEPT ![d] = None]
      /\ UNCHANGED <<worker, runs, done>>
  BY DEF Replay
<1> QED
  BY <1>1, <1>2, MoveLetterInv

LEMMA ReplayFailsInv ==
  ASSUME StreamInv, NEW d \in Admins, ReplayFails(d)
  PROVE  StreamInv'
<1>1. faults' \in 0 .. MaxFaults /\ faults' >= faults
  BY TypeParts, WorkerAssumption DEF StreamInv, ReplayFails, Fault
<1>2. CASE MoveLetter(d)
  BY <1>1, <1>2, MoveLetterInv DEF ReplayFails
<1>3. CASE UNCHANGED <<entries, letters>>
  <2>1. /\ SoftChange /\ replay' \in [Admins -> Letters \cup {None}]
        /\ \A e \in Admins : replay'[e] = None \/ replay'[e] = replay[e]
    BY <1>3, TypeParts DEF SoftChange, StreamInv, ReplayFails
  <2>2. ASSUME NEW p \in Payloads, Seen(p)' PROVE Kept(p)'
    <3>1. Seen(p)
      BY <1>3, <2>2 DEF Seen
    <3> QED
      BY <1>3, <2>1, <3>1, KeptStay DEF StreamInv, ReplayFails
  <2> QED
    BY <1>1, <1>3, <2>1, <2>2, OtherInv, TypeParts DEF StreamInv, ReplayFails, State
<1> QED
  BY <1>2, <1>3 DEF ReplayFails

\* What the relay sends, however often.
LEMMA ReceiveInv ==
  ASSUME StreamInv, NEW p \in Payloads, Receive(p),
         UNCHANGED <<worker, replay, done, runs, faults>>
  PROVE  StreamInv'
<1>1. /\ letters \in [Letters -> LetterSet] /\ replay \in [Admins -> Letters \cup {None}]
      /\ faults \in 0 .. MaxFaults
  BY TypeParts DEF StreamInv
<1>2. CASE Xadd(p) /\ UNCHANGED letters
  BY <1>1, <1>2, AddedInv, WorkerAssumption
<1>3. CASE Bury(p) /\ UNCHANGED entries
  <2>1. PICK k \in Letters :
            /\ letters[k].state = "absent"
            /\ letters' \in [Letters -> LetterSet]
            /\ letters'[k].state = "there" /\ letters'[k].payload = p
            /\ \A l \in Letters \ {k} : letters'[l] = letters[l]
    BY <1>1, <1>3, Buried
  <2>2. SoftChange
    BY <1>3 DEF SoftChange
  <2>3. ASSUME NEW s \in Payloads, Seen(s)' PROVE Kept(s)'
    <3>1. CASE s = p
      BY <2>1, <3>1 DEF Kept
    <3>2. CASE s # p
      <4>1. Seen(s)
        BY <1>3, <2>1, <2>3, <3>2 DEF Seen
      <4>2. Kept(s)
        BY <4>1 DEF StreamInv
      <4> QED
        BY <2>1, <2>2, <4>2, KeptStay
    <3> QED
      BY <3>1, <3>2
  <2>4. \A l \in Letters : letters'[l].state # "absent" => letters'[l].payload \in Payloads
    BY <2>1, TypeParts DEF StreamInv
  <2> QED
    BY <1>1, <1>3, <2>1, <2>2, <2>3, <2>4, SameEntries, OtherInv, WorkerAssumption
    DEF State
<1> QED
  BY <1>2, <1>3 DEF Receive

-----------------------------------------------------------------------------
(* The theorems *)

LEMMA InitInv == StreamInit => StreamInv
<1> SUFFICES ASSUME StreamInit PROVE StreamInv
  OBVIOUS
<1>1. /\ NoEntry \in EntrySet /\ Absent \in LetterSet /\ Loop \in WorkerSet
      /\ [ok |-> 0, failed |-> 0] \in RunSet
  BY LoopType, WorkerAssumption DEF NoEntry, Absent, EntrySet, LetterSet, RunSet
<1>2. /\ \A m \in Entries : entries[m] = NoEntry /\ runs[m] = [ok |-> 0, failed |-> 0]
      /\ \A l \in Letters : letters[l] = Absent
      /\ \A w \in Workers : worker[w] = Loop
      /\ \A d \in Admins : replay[d] = None
  BY DEF StreamInit
<1>3. StreamTypeOK
  <2>1. /\ entries \in [Entries -> EntrySet] /\ letters \in [Letters -> LetterSet]
        /\ worker \in [Workers -> WorkerSet] /\ runs \in [Entries -> RunSet]
    BY <1>1 DEF StreamInit
  <2>2. /\ \A m \in Entries : entries[m].state = "absent"
        /\ \A l \in Letters : letters[l].state = "absent"
    BY <1>2 DEF NoEntry, Absent
  <2>3. /\ replay \in [Admins -> Letters \cup {None}] /\ done \subseteq Payloads
        /\ faults \in 0 .. MaxFaults
    BY WorkerAssumption DEF StreamInit
  <2> QED
    BY <2>1, <2>2, <2>3, TypeParts
<1>4. ASSUME NEW w \in Workers PROVE WorkerOK(w) /\ AttemptsOK(w) /\ OnceOK(w) /\ CountsOK(w)
  <2>1. WorkerOK(w) /\ AttemptsOK(w)
    BY <1>2 DEF WorkerOK, AttemptsOK, Loop, NoEntry, At
  <2>2. OnceOK(w)
    BY <1>2 DEF OnceOK, Loop
  <2>3. CountsOK(w)
    BY <1>2 DEF CountsOK, Loop, NoEntry, State
  <2> QED
    BY <2>1, <2>2, <2>3
<1>5. \A p \in Payloads : ~Seen(p)
  BY <1>2, WorkerAssumption DEF Seen, NoEntry, Absent
<1> QED
  BY <1>2, <1>3, <1>4, <1>5 DEF StreamInv, ReadOK

\* A step elsewhere; a fault there counts.
LEMMA ElsewhereInv ==
  ASSUME StreamInv, UNCHANGED <<entries, letters, worker, replay, done, runs>>,
         faults' \in 0 .. MaxFaults, faults' >= faults
  PROVE  StreamInv'
<1>1. SoftChange
  BY DEF SoftChange
<1>2. ASSUME NEW p \in Payloads, Seen(p)' PROVE Kept(p)'
  BY <1>2 DEF StreamInv, Seen, Kept, Waits, State, At, Current
<1> QED
  BY <1>1, <1>2, OtherInv, TypeParts DEF StreamInv, State

\* Every step of the relay, the admins and the workers keeps the invariant.
THEOREM StreamInductive == StreamInv /\ [StreamNext]_streamVars => StreamInv'
<1> SUFFICES ASSUME StreamInv, [StreamNext]_streamVars PROVE StreamInv'
  OBVIOUS
<1>1. CASE \E p \in Payloads : Publish(p)
  BY <1>1, ReceiveInv DEF Publish
<1>2. CASE \E d \in Admins : Replay(d) \/ ReplayFails(d) \/ \E l \in Letters : ReadLetter(d, l)
  BY <1>2, ReplayInv, ReplayFailsInv, ReadLetterInv
<1>3. CASE \E w \in Workers : Work(w) \/ Crash(w)
  BY <1>3, AnyWorkInv
<1>4. CASE \E m \in Entries : Idle(m)
  BY <1>4, IdleInv
<1>5. CASE UNCHANGED streamVars
  <2>1. faults \in 0 .. MaxFaults /\ faults >= faults
    BY TypeParts, WorkerAssumption DEF StreamInv
  <2> QED
    BY <1>5, <2>1, ElsewhereInv DEF streamVars
<1> QED
  BY <1>1, <1>2, <1>3, <1>4, <1>5 DEF StreamNext, Consume

\* worker.py:74-160, dlq_manager.py:38-55.  What the workers have in hand, what
\* was counted and where the payloads are fit together in every state.
THEOREM StreamInvariance == StreamSpec => []StreamInv
<1>1. StreamInit => StreamInv
  BY InitInv
<1>2. StreamInv /\ [StreamNext]_streamVars => StreamInv'
  BY StreamInductive
<1> QED
  BY <1>1, <1>2, PTL DEF StreamSpec

\* worker.py:74-142, dlq_manager.py:38-55.  Whatever breaks off, a message that
\* was sent is done, or waits in the stream or in the dead letters.
THEOREM NothingLostHolds == StreamSpec => []NothingLost
<1>1. StreamInv => NothingLost
  BY DEF StreamInv, NothingLost, Kept, Held, Waits, State
<1> QED
  BY <1>1, StreamInvariance, PTL

\* worker.py:112-142.  One worker whose commands succeed handles a message to
\* its end once.
THEOREM HandledOnceHolds ==
  ASSUME IsFiniteSet(Workers)
  PROVE  StreamSpec => []HandledOnce
<1>1. StreamInv => HandledOnce
  <2> SUFFICES ASSUME StreamInv, faults = 0, Cardinality(Workers) = 1, NEW m \in Entries
               PROVE  runs[m].ok <= 1
    BY DEF HandledOnce
  <2>1. PICK w : Workers = {w}
    BY FS_Singleton
  <2>2. OnceOK(w) /\ Unbroken(w)
    BY <2>1 DEF StreamInv, Unbroken
  <2> QED
    BY <2>2 DEF OnceOK
<1> QED
  BY <1>1, StreamInvariance, PTL

\* worker.py:85-90, queue_manager.py:145-154.  A message with an amount is
\* buried after its first delivery and MaxRetries more, all of which failed
\* when nothing was broken off.
THEOREM BuriedHolds == StreamSpec => BuriedAfterRetries
<1>1. ASSUME StreamInv, NEW w \in Workers, BuryMessage(w), Payload(w) \notin NoAmount
      PROVE  /\ entries[Current(w)].delivered = MaxRetries + 1
             /\ faults = 0 /\ Workers = {w} => runs[Current(w)].failed = MaxRetries + 1
  <2>1. /\ At(w, "bury") /\ Current(w) \in worker[w].batch /\ Current(w) \in Entries
    BY <1>1, HandFacts DEF BuryMessage, At
  <2>2. entries[Current(w)].delivered = MaxRetries + 1
    BY <1>1, <2>1 DEF StreamInv, AttemptsOK
  <2>3. ASSUME faults = 0, Workers = {w} PROVE runs[Current(w)].failed = MaxRetries + 1
    <3>1. Unbroken(w)
      BY <2>3 DEF Unbroken
    <3>2. State(Current(w)) = "pending" /\ ~Unhandled(w, Current(w))
      BY <1>1, <2>1, <3>1 DEF StreamInv, OnceOK, Unhandled, At
    <3>3. entries[Current(w)].delivered = runs[Current(w)].failed + 0
      BY <1>1, <2>1, <3>1, <3>2 DEF StreamInv, CountsOK, Payload
    <3>4. runs[Current(w)].failed \in Nat
      BY <1>1, <2>1, TypeParts, WorkerAssumption DEF StreamInv, RunSet
    <3> QED
      BY <2>2, <3>3, <3>4
  <2> QED
    BY <2>2, <2>3
<1>2. StreamInv /\ [StreamNext]_streamVars =>
        [\A w \in Workers :
          BuryMessage(w) /\ Payload(w) \notin NoAmount =>
              /\ entries[Current(w)].delivered = MaxRetries + 1
              /\ faults = 0 /\ Workers = {w} => runs[Current(w)].failed = MaxRetries + 1
        ]_streamVars
  BY <1>1
<1> QED
  BY <1>2, StreamInvariance, PTL DEF StreamSpec, BuriedAfterRetries

-----------------------------------------------------------------------------
(* What the path as a whole relies on *)

Alone == \A v, w \in Workers : v = w

\* The batch that a step leaves.
LEMMA BatchAfter ==
  ASSUME StreamInv, NEW w \in Workers
  PROVE  /\ Again(w) => worker'[w].batch = {}
         /\ NextMessage(w) => worker'[w].batch = worker[w].batch \ {Current(w)}
         /\ \A x : Goto(w, x) => worker'[w].batch = worker[w].batch
         /\ \A b, a, s : Begin(w, b, a, s) => worker'[w].batch = b
<1>1. worker \in [Workers -> WorkerSet] /\ worker[w] \in WorkerSet
  BY TypeParts DEF StreamInv
<1>2. ASSUME NEW r, Turn(w, r) PROVE worker'[w] = r
  BY <1>1, <1>2 DEF Turn
<1>3. ASSUME NEW b, NEW a, NEW s, Begin(w, b, a, s) PROVE worker'[w].batch = b
  <2>1. worker'[w] = Begun(b, a, s)
    BY <1>2, <1>3 DEF Begin, Begun
  <2> QED
    BY <2>1 DEF Begun, Loop
<1>4. Again(w) => worker'[w].batch = {}
  BY <1>2, LoopType DEF Again
<1>5. ASSUME NEW x, Goto(w, x) PROVE worker'[w].batch = worker[w].batch
  <2>1. worker'[w] = [worker[w] EXCEPT !.pc = x]
    BY <1>2, <1>5 DEF Goto
  <2> QED
    BY <1>1, <2>1 DEF WorkerSet
<1> QED
  BY <1>3, <1>4, <1>5 DEF NextMessage

\* A worker that is alone: what it acknowledges leaves its hands, and what it
\* takes is pending.
LEMMA HandWork ==
  ASSUME StreamInv, HandOK, Alone, NEW w \in Workers, Work(w) \/ Crash(w)
  PROVE  \A m \in worker'[w].batch : State(m)' = "pending"
<1>1. \A m \in worker[w].batch : m \in Entries /\ State(m) = "pending"
  BY TypeParts DEF StreamInv, HandOK, Alone, WorkerSet
<1>2. CASE entries' = entries /\ worker'[w].batch \subseteq worker[w].batch
  BY <1>1, <1>2 DEF State
<1>3. ASSUME Xack(Current(w)), worker[w].pc \in {"ack", "ack_buried"},
             worker'[w].batch \subseteq worker[w].batch \ {Current(w)}
      PROVE  \A m \in worker'[w].batch : State(m)' = "pending"
  BY <1>1, <1>3, HandFacts, Acked DEF State
<1>4. ASSUME NEW D \in SUBSET Entries, Deliveries(D),
             \A m \in D : State(m) \in {"new", "pending"},
             worker'[w].batch \subseteq worker[w].batch \cup D
      PROVE  \A m \in worker'[w].batch : State(m)' = "pending"
  BY <1>1, <1>4, DeliveredOnes DEF State
<1>5. CASE Scan(w)
  <2>1. worker'[w].batch = {}
    BY <1>5, TypeParts DEF Scan, Turn, Loop, StreamInv
  <2> QED
    BY <2>1
<1>6. ASSUME NEW n, n = Least(worker[w].todo), ClaimNext(w)
      PROVE  \A m \in worker'[w].batch : State(m)' = "pending"
  <2>1. /\ Claimed(n) \in SUBSET Entries /\ Deliveries(Claimed(n))
        /\ \A m \in Claimed(n) : State(m) = "pending"
    BY <1>6, ClaimFacts DEF ClaimNext
  <2>2. worker'[w].batch = worker[w].batch \cup Claimed(n)
    <3>1. CASE worker[w].todo \ {n} = {}
      BY <1>6, <3>1, BatchAfter DEF ClaimNext
    <3>2. CASE worker[w].todo \ {n} # {}
      <4>1. worker'[w] = [worker[w] EXCEPT !.todo = worker[w].todo \ {n},
                                           !.batch = worker[w].batch \cup Claimed(n)]
        BY <1>6, <3>2, TypeParts DEF ClaimNext, Turn, StreamInv
      <4> QED
        BY <4>1, TypeParts DEF WorkerSet, StreamInv
    <3> QED
      BY <3>1, <3>2
  <2> QED
    BY <1>4, <2>1, <2>2
<1>7. CASE Read(w)
  <2>1. worker'[w].batch = FirstOf("new") /\ Deliveries(FirstOf("new"))
    BY <1>7, BatchAfter DEF Read, Deliveries
  <2> QED
    BY <1>4, <2>1, FirstOfIs
<1>8. CASE ClaimFails(w) \/ ReadFails(w) \/ Crash(w)
  BY <1>8, BatchAfter DEF ClaimFails, ReadFails, Crash
<1>9. CASE HandleMessage(w) \/ HandlerRaises(w) \/ NoAmountField(w) \/ BuryMessage(w) \/ BuryFails(w)
  <2>1. entries' = entries /\ worker'[w].batch \subseteq worker[w].batch
    BY <1>9, BatchAfter DEF HandleMessage, HandlerRaises, NoAmountField, BuryMessage, BuryFails,
       AfterError
  <2> QED
    BY <1>2, <2>1
<1>10. CASE Acknowledge(w) \/ AckFails(w)
  <2>1. worker'[w].batch \subseteq worker[w].batch \ {Current(w)}
    BY <1>10, BatchAfter DEF Acknowledge, AckFails, AfterError
  <2>2. worker[w].pc \in {"ack", "ack_buried"} /\ (Xack(Current(w)) \/ entries' = entries)
    BY <1>10 DEF Acknowledge, AckFails
  <2> QED
    BY <1>2, <1>3, <2>1, <2>2
<1> QED
  BY <1>5, <1>6, <1>7, <1>8, <1>9, <1>10 DEF Work

\* Of the others nobody touches a pending entry.
LEMMA OthersSoft ==
  ASSUME StreamInv,
         \/ \E p \in Payloads : Receive(p)
         \/ \E d \in Admins : Replay(d) \/ ReplayFails(d) \/ \E l \in Letters : ReadLetter(d, l)
         \/ \E m \in Entries : Idle(m)
         \/ UNCHANGED entries
  PROVE  SoftChange
<1>1. entries \in [Entries -> EntrySet]
  BY TypeParts DEF StreamInv
<1>2. ASSUME NEW p \in Payloads, Xadd(p) PROVE SoftChange
  <2>1. PICK n \in Entries :
            /\ State(n) = "absent" /\ State(n)' = "new"
            /\ entries'[n].delivered = entries[n].delivered
            /\ \A m \in Entries \ {n} : entries'[m] = entries[m]
    BY <1>1, <1>2, Xadded
  <2> QED
    BY <2>1 DEF SoftChange
<1>3. ASSUME NEW d \in Admins, replay[d] # None
      PROVE  letters[replay[d]].payload \in Payloads
  BY <1>3, TypeParts DEF StreamInv, ReadOK
<1>4. ASSUME NEW m \in Entries, Idle(m) PROVE SoftChange
  <2>1. entries[m] \in EntrySet /\ entries'[m] = [entries[m] EXCEPT !.idle = TRUE]
        /\ \A k \in Entries \ {m} : entries'[k] = entries[k]
    BY <1>1, <1>4 DEF Idle
  <2>2. /\ entries'[m].state = entries[m].state /\ entries'[m].payload = entries[m].payload
        /\ entries'[m].delivered = entries[m].delivered
    BY <2>1 DEF EntrySet
  <2> QED
    BY <1>4, <2>1, <2>2 DEF SoftChange, Idle, State
<1>5. CASE UNCHANGED entries
  BY <1>5 DEF SoftChange
<1>6. CASE \E p \in Payloads : Receive(p)
  BY <1>2, <1>5, <1>6 DEF Receive
<1>7. ASSUME NEW d \in Admins,
             Replay(d) \/ ReplayFails(d) \/ \E l \in Letters : ReadLetter(d, l)
      PROVE  SoftChange
  BY <1>2, <1>3, <1>5, <1>7 DEF Replay, ReplayFails, MoveLetter, ReadLetter
<1> QED
  BY <1>4, <1>5, <1>6, <1>7

LEMMA HandSoft ==
  ASSUME StreamInv, HandOK, SoftChange, UNCHANGED worker
  PROVE  HandOK'
<1>1. \A w \in Workers : worker[w].batch \subseteq Entries
  BY TypeParts DEF StreamInv, WorkerSet
<1> QED
  BY <1>1 DEF HandOK, SoftChange, State

LEMMA HandConsume ==
  ASSUME StreamInv, HandOK, Consume
  PROVE  HandOK'
<1>1. ASSUME NEW w \in Workers, Work(w) \/ Crash(w) PROVE HandOK'
  BY <1>1, HandWork DEF HandOK, Alone
<1>2. CASE \/ \E d \in Admins : Replay(d) \/ ReplayFails(d) \/ \E l \in Letters : ReadLetter(d, l)
           \/ \E m \in Entries : Idle(m)
  <2>1. SoftChange
    BY <1>2, OthersSoft
  <2>2. UNCHANGED worker
    BY <1>2 DEF Replay, ReplayFails, ReadLetter, Idle
  <2> QED
    BY <2>1, <2>2, HandSoft
<1> QED
  BY <1>1, <1>2 DEF Consume

\* No step takes an entry or a letter away, or gives it another payload.
EntriesStay ==
    \A m \in Entries : State(m) # "absent" =>
        State(m)' # "absent" /\ entries'[m].payload = entries[m].payload

LettersStay ==
    \A l \in Letters : letters[l].state # "absent" =>
        letters'[l].state # "absent" /\ letters'[l].payload = letters[l].payload

LEMMA WorkEntries ==
  ASSUME StreamInv, NEW w \in Workers, Work(w) \/ Crash(w)
  PROVE  /\ EntriesStay
         /\ \A m \in Entries : State(m)' # "absent" => State(m) # "absent"
<1>1. CASE entries' = entries
  BY <1>1 DEF EntriesStay, State
<1>2. CASE Xack(Current(w)) /\ worker[w].pc \in {"ack", "ack_buried"}
  BY <1>2, HandFacts, Acked DEF EntriesStay, State
<1>3. ASSUME NEW D \in SUBSET Entries, Deliveries(D), \A m \in D : State(m) \in {"new", "pending"}
      PROVE  /\ EntriesStay
             /\ \A m \in Entries : State(m)' # "absent" => State(m) # "absent"
  BY <1>3, DeliveredOnes DEF EntriesStay, Grown
<1>4. ASSUME NEW n, n = Least(worker[w].todo), At(w, "claim"), ClaimEntry(n)
      PROVE  /\ EntriesStay
             /\ \A m \in Entries : State(m)' # "absent" => State(m) # "absent"
  BY <1>3, <1>4, ClaimFacts
<1>5. CASE Read(w) \/ ReadFails(w)
  <2>1. Deliveries(FirstOf("new"))
    BY <1>5 DEF Read, ReadFails, Deliveries
  <2> QED
    BY <1>3, <2>1, FirstOfIs
<1>6. CASE ClaimNext(w) \/ ClaimFails(w)
  BY <1>1, <1>4, <1>6 DEF ClaimNext, ClaimFails
<1>7. CASE Acknowledge(w) \/ AckFails(w)
  BY <1>1, <1>2, <1>7 DEF Acknowledge, AckFails
<1>8. CASE \/ Scan(w) \/ HandleMessage(w) \/ HandlerRaises(w) \/ NoAmountField(w)
           \/ BuryMessage(w) \/ BuryFails(w) \/ Crash(w)
  BY <1>1, <1>8 DEF Scan, HandleMessage, HandlerRaises, NoAmountField, BuryMessage, BuryFails, Crash
<1> QED
  BY <1>5, <1>6, <1>7, <1>8 DEF Work

\* What a worker does to the letters and to what is done.
LEMMA WorkLetters ==
  ASSUME StreamInv, NEW w \in Workers, Work(w) \/ Crash(w)
  PROVE  /\ UNCHANGED letters \/ (Bury(Payload(w)) /\ worker[w].pc = "bury")
         /\ \/ done' = done
            \/ /\ done' = done \cup {Payload(w)} /\ Payload(w) \notin NoAmount
               /\ worker[w].pc = "handle"
BY DEF Work, Scan, ClaimNext, ClaimFails, Read, ReadFails, HandleMessage, HandlerRaises,
   NoAmountField, Acknowledge, AckFails, BuryMessage, BuryFails, Crash, At

LEMMA BuryAdds ==
  ASSUME StreamInv, NEW p \in Payloads, Bury(p)
  PROVE  /\ LettersStay
         /\ \E l \in Letters : letters'[l].state # "absent" /\ letters'[l].payload = p
         /\ \A l \in Letters : letters'[l].state # "absent" =>
               letters'[l].payload = p \/ letters'[l] = letters[l]
<1>1. letters \in [Letters -> LetterSet]
  BY TypeParts DEF StreamInv
<1> QED
  BY <1>1, Buried DEF LettersStay

LEMMA XaddAdds ==
  ASSUME StreamInv, NEW p \in Payloads, Xadd(p)
  PROVE  /\ EntriesStay
         /\ \E m \in Entries : State(m)' # "absent" /\ entries'[m].payload = p
         /\ \A m \in Entries : State(m)' # "absent" =>
               entries'[m].payload = p \/ entries'[m] = entries[m]
<1>1. entries \in [Entries -> EntrySet]
  BY TypeParts DEF StreamInv
<1> QED
  BY <1>1, Xadded DEF EntriesStay, State

LEMMA ArrivedStays ==
  ASSUME EntriesStay, LettersStay, NEW p \in Payloads, Arrived(p)
  PROVE  Arrived(p)'
BY DEF EntriesStay, LettersStay, Arrived

\* A send adds its payload, and no other.
LEMMA ReceiveMoves ==
  ASSUME StreamInv, NEW p \in Payloads, Receive(p)
  PROVE  /\ Arrived(p)'
         /\ \A s \in Payloads \ {p} : Arrived(s)' <=> Arrived(s)
<1>1. CASE Xadd(p) /\ UNCHANGED letters
  <2>1. LettersStay
    BY <1>1 DEF LettersStay
  <2> QED
    BY <1>1, <2>1, XaddAdds, ArrivedStays DEF Arrived, State
<1>2. CASE Bury(p) /\ UNCHANGED entries
  <2>1. EntriesStay
    BY <1>2 DEF EntriesStay, State
  <2> QED
    BY <1>2, <2>1, BuryAdds, ArrivedStays DEF Arrived, State
<1> QED
  BY <1>1, <1>2 DEF Receive

LEMMA MoveLetterMoves ==
  ASSUME StreamInv, NEW d \in Admins, replay[d] # None, MoveLetter(d), NEW p \in Payloads
  PROVE  Arrived(p)' <=> Arrived(p)
<1> DEFINE k == replay[d]
<1>1. /\ k \in Letters /\ letters[k].state # "absent" /\ letters[k].payload \in Payloads
      /\ letters \in [Letters -> LetterSet]
  BY TypeParts DEF StreamInv, ReadOK
<1>2. Xadd(letters[k].payload) /\ letters' = [letters EXCEPT ![k].state = "deleted"]
  BY DEF MoveLetter
<1>3. /\ letters'[k].state = "deleted" /\ letters'[k].payload = letters[k].payload
      /\ \A l \in Letters \ {k} : letters'[l] = letters[l]
  BY <1>1, <1>2 DEF LetterSet
<1> HIDE DEF k
<1>4. LettersStay
  BY <1>1, <1>3 DEF LettersStay
<1>5. ASSUME Arrived(p)' PROVE Arrived(p)
  BY <1>1, <1>2, <1>3, <1>5, XaddAdds DEF Arrived, State
<1> QED
  BY <1>1, <1>2, <1>4, <1>5, XaddAdds, ArrivedStays

\* The workers and the admins neither lose a payload nor make one up; what is
\* done was in the stream, and still is when the worker is alone.
LEMMA ConsumeMoves ==
  ASSUME StreamInv, HandOK, Consume, NEW p \in Payloads
  PROVE  /\ Arrived(p)' <=> Arrived(p)
         /\ p \in done => p \in done'
         /\ p \in done' /\ p \notin done =>
               /\ p \notin NoAmount /\ Arrived(p)
               /\ Alone => \E m \in Entries : entries[m].payload = p /\ State(m) = "pending"
<1>1. ASSUME NEW w \in Workers, Work(w) \/ Crash(w)
      PROVE  /\ Arrived(p)' <=> Arrived(p)
             /\ p \in done => p \in done'
             /\ p \in done' /\ p \notin done =>
                   /\ p \notin NoAmount /\ Arrived(p)
                   /\ Alone => \E m \in Entries : entries[m].payload = p /\ State(m) = "pending"
  <2>1. /\ EntriesStay
        /\ \A m \in Entries : State(m)' # "absent" => State(m) # "absent"
    BY <1>1, WorkEntries
  <2>2. worker[w].pc \in {"handle", "bury"} =>
           /\ Current(w) \in worker[w].batch /\ Current(w) \in Entries /\ Payload(w) \in Payloads
           /\ State(Current(w)) # "absent" /\ entries[Current(w)].payload = Payload(w)
           /\ Arrived(Payload(w))
    BY HandFacts DEF Payload, Arrived
  <2>3. CASE UNCHANGED letters
    <3>1. LettersStay
      BY <2>3 DEF LettersStay
    <3> QED
      BY <1>1, <2>1, <2>2, <2>3, <3>1, WorkLetters, ArrivedStays
      DEF Arrived, EntriesStay, HandOK, Alone
  <2>4. CASE Bury(Payload(w)) /\ worker[w].pc = "bury"
    BY <1>1, <2>1, <2>2, <2>4, BuryAdds, WorkLetters, ArrivedStays DEF Arrived, EntriesStay
  <2> QED
    BY <1>1, <2>3, <2>4, WorkLetters
<1>2. ASSUME NEW d \in Admins,
             Replay(d) \/ ReplayFails(d) \/ \E l \in Letters : ReadLetter(d, l)
      PROVE  done' = done /\ (Arrived(p)' <=> Arrived(p))
  <2>1. CASE UNCHANGED <<entries, letters>>
    BY <1>2, <2>1 DEF Arrived, State, Replay, ReplayFails, ReadLetter
  <2>2. CASE MoveLetter(d) /\ replay[d] # None
    BY <1>2, <2>2, MoveLetterMoves DEF Replay, ReplayFails, ReadLetter
  <2> QED
    BY <1>2, <2>1, <2>2 DEF Replay, ReplayFails, ReadLetter
<1>3. ASSUME NEW m \in Entries, Idle(m)
      PROVE  done' = done /\ (Arrived(p)' <=> Arrived(p))
  <2>1. entries[m] \in EntrySet /\ entries'[m] = [entries[m] EXCEPT !.idle = TRUE]
        /\ \A k \in Entries \ {m} : entries'[k] = entries[k]
    BY <1>3, TypeParts DEF Idle, StreamInv
  <2>2. entries'[m].state = entries[m].state /\ entries'[m].payload = entries[m].payload
    BY <2>1 DEF EntrySet
  <2> QED
    BY <1>3, <2>1, <2>2 DEF Idle, Arrived, State
<1> QED
  BY <1>1, <1>2, <1>3 DEF Consume
=============================================================================
