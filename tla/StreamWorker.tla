---------------------------- MODULE StreamWorker ----------------------------
(***************************************************************************)
(* The consumer side of the stream: the consumer group with its list of    *)
(* pending entries, the worker's loop (claim what is stale, then read what *)
(* is new, handle each message, acknowledge it, or move it to the dead     *)
(* letters after too many deliveries) and the replay of a dead letter by   *)
(* an admin.  Every Redis command is a step; any of them may raise,        *)
(* executed or not.                                                        *)
(*                                                                         *)
(* What the handler does to the stores is in PaymentHandler: here a run of *)
(* it succeeds, or fails with or without having done its work.  The ids of *)
(* both streams grow, and messages are taken in their order.               *)
(***************************************************************************)
EXTENDS Naturals, FiniteSets

CONSTANTS
    Payloads,    \* what the relay sends
    NoAmount,    \* those without an amount: dead letters of the relay
    Workers,     \* worker processes of the group
    Admins,      \* replays at the same time
    MaxEntries,  \* bound: ids of the stream
    MaxLetters,  \* bound: ids of the dead letter stream
    PageSize,    \* count of read_messages and of claim_stale_message
    MaxRetries,  \* Worker.max_retries
    MaxFaults,   \* bound: commands that raise, workers that die
    None

Entries == 1 .. MaxEntries
Letters == 1 .. MaxLetters

ASSUME WorkerAssumption ==
    /\ NoAmount \subseteq Payloads
    /\ MaxEntries \in Nat /\ MaxLetters \in Nat /\ MaxFaults \in Nat
    /\ PageSize \in Nat \ {0} /\ MaxRetries \in Nat \ {0}
    /\ None \notin Payloads \cup Nat

VARIABLES
    entries,   \* the stream and what the group knows of each entry
    letters,   \* the dead letter stream
    worker,
    replay,    \* the letter an admin has read and not moved yet
    done,      \* payloads whose work the handler has done
    runs,      \* history: the handler's results on an entry
    faults

streamVars == <<entries, letters, worker, replay, done, runs, faults>>

Absent == [state |-> "absent", payload |-> None]

NoEntry == [state |-> "absent", payload |-> None, delivered |-> 0, idle |-> FALSE]

Loop == [pc |-> "scan", todo |-> {}, batch |-> {}, stale |-> TRUE,
         attempts |-> [m \in Entries |-> 0]]

\* queue_manager.py:31-55, worker.py:100-109: an id of a stream always carries
\* the payload it was added with.  Deliveries are counted up to MaxRetries + 1.
StreamTypeOK ==
    /\ entries \in [Entries -> [state     : {"absent", "new", "pending", "acked"},
                                payload   : Payloads \cup {None},
                                delivered : 0 .. MaxRetries + 1,
                                idle      : BOOLEAN]]
    /\ letters \in [Letters -> [state   : {"absent", "there", "deleted"},
                                payload : Payloads \cup {None}]]
    /\ \A m \in Entries : entries[m].state # "absent" => entries[m].payload \in Payloads
    /\ \A l \in Letters : letters[l].state # "absent" => letters[l].payload \in Payloads
    /\ worker \in [Workers -> [pc       : {"scan", "claim", "read", "handle",
                                           "ack", "bury", "ack_buried"},
                               todo     : SUBSET Entries,
                               batch    : SUBSET Entries,
                               stale    : BOOLEAN,
                               attempts : [Entries -> 0 .. MaxRetries + 1]]]
    /\ replay \in [Admins -> Letters \cup {None}]
    /\ done \subseteq Payloads
    /\ runs \in [Entries -> [ok : 0 .. 2, failed : 0 .. MaxRetries + 2]]
    /\ faults \in 0 .. MaxFaults

StreamInit ==
    /\ entries = [m \in Entries |-> NoEntry]
    /\ letters = [l \in Letters |-> Absent]
    /\ worker = [w \in Workers |-> Loop]
    /\ replay = [d \in Admins |-> None]
    /\ done = {}
    /\ runs = [m \in Entries |-> [ok |-> 0, failed |-> 0]]
    /\ faults = 0

Fault == faults < MaxFaults /\ faults' = faults + 1

UpTo(n, limit) == IF n < limit THEN n + 1 ELSE n

-----------------------------------------------------------------------------
(* Redis commands *)

\* The next id of a stream.
IsNext(f, n) == f[n].state = "absent" /\ \A k \in DOMAIN f : k < n => f[k].state # "absent"

\* XADD to the stream, to the dead letters
Xadd(p) ==
    \E m \in Entries :
        /\ IsNext(entries, m)
        /\ entries' = [entries EXCEPT ![m].state = "new", ![m].payload = p]

\* A plausible slip: the letter does not carry the data.
BuryEmpty(p) ==
    \E l \in Letters :
        /\ IsNext(letters, l)
        /\ letters' = [letters EXCEPT ![l] = [state |-> "there", payload |-> None]]

Bury(p) ==
    \E l \in Letters :
        /\ IsNext(letters, l)
        /\ letters' = [letters EXCEPT ![l] = [state |-> "there", payload |-> p]]

\* A plausible slip: nothing is acknowledged.
NoXack(m) == UNCHANGED entries

\* XACK
Xack(m) == entries' = [entries EXCEPT ![m].state = "acked"]

\* The first PageSize entries of a state.
FirstOf(state) ==
    LET S == {m \in Entries : entries[m].state = state}
    IN  {m \in S : Cardinality({n \in S : n < m}) < PageSize}

\* What a delivery makes of an entry.
Deliver(e) == [e EXCEPT !.state = "pending", !.idle = FALSE,
                        !.delivered = UpTo(@, MaxRetries + 1)]

Least(S) == CHOOSE m \in S : \A n \in S : m <= n

-----------------------------------------------------------------------------
(* The relay and the admins *)

\* A plausible slip: what has no amount is dropped.
DropInvalid(p) ==
    IF p \notin NoAmount THEN Xadd(p) /\ UNCHANGED letters ELSE UNCHANGED <<entries, letters>>

\* A valid event goes to the stream; an invalid one to the dead letters.
Receive(p) ==
    \/ p \notin NoAmount /\ Xadd(p) /\ UNCHANGED letters
    \/ p \in NoAmount /\ Bury(p) /\ UNCHANGED entries

\* The relay sends, perhaps twice (bound: what is invalid once, so that there
\* is room for the letters of the worker).
Publish(p) ==
    /\ p \in NoAmount => \A l \in Letters : letters[l].payload # p
    /\ Receive(p)
    /\ UNCHANGED <<worker, replay, done, runs, faults>>

\* XRANGE of the letter.
ReadLetter(d, l) ==
    /\ replay[d] = None
    /\ letters[l].state = "there"
    /\ replay' = [replay EXCEPT ![d] = l]
    /\ UNCHANGED <<entries, letters, worker, done, runs, faults>>

\* MULTI XADD, XDEL: another admin may have moved the letter meanwhile.
MoveLetter(d) ==
    /\ Xadd(letters[replay[d]].payload)
    /\ letters' = [letters EXCEPT ![replay[d]].state = "deleted"]

Replay(d) ==
    /\ replay[d] # None
    /\ MoveLetter(d)
    /\ replay' = [replay EXCEPT ![d] = None]
    /\ UNCHANGED <<worker, done, runs, faults>>

\* A plausible slip: the pipeline is not a transaction.
HalfReplay(d) ==
    /\ replay[d] # None
    /\ Fault
    /\ letters' = [letters EXCEPT ![replay[d]].state = "deleted"]
    /\ replay' = [replay EXCEPT ![d] = None]
    /\ UNCHANGED <<entries, worker, done, runs>>

ReplayFails(d) ==
    /\ replay[d] # None
    /\ Fault
    /\ UNCHANGED <<entries, letters>> \/ MoveLetter(d)
    /\ replay' = [replay EXCEPT ![d] = None]
    /\ UNCHANGED <<worker, done, runs>>

-----------------------------------------------------------------------------
(* The loop of the worker *)

At(w, pc) == worker[w].pc = pc

Turn(w, r) == worker' = [worker EXCEPT ![w] = r]

Goto(w, pc) == Turn(w, [worker[w] EXCEPT !.pc = pc])

\* The message in hand.
Current(w) == Least(worker[w].batch)

Payload(w) == entries[Current(w)].payload

\* A batch is handled, or there is nothing in it and the loop goes on.
Begin(w, batch, attempts, stale) ==
    Turn(w, [Loop EXCEPT !.batch = batch, !.attempts = attempts, !.stale = stale,
        !.pc = IF batch # {} THEN "handle" ELSE IF stale THEN "read" ELSE "scan"])

\* The message in hand is dealt with.
NextMessage(w) ==
    Begin(w, worker[w].batch \ {Current(w)}, worker[w].attempts, worker[w].stale)

\* Worker._run catches what the loop raises and starts it again.
Again(w) == Turn(w, Loop)

\* XPENDING: the first entries of the list, and those of them idle for long.
Scan(w) ==
    /\ At(w, "scan")
    /\ LET idle == {m \in FirstOf("pending") : entries[m].idle}
       IN  Turn(w, [Loop EXCEPT !.todo = idle,
                                !.pc = IF idle = {} THEN "read" ELSE "claim",
                                !.attempts = [m \in Entries |->
                                    IF m \in idle THEN entries[m].delivered ELSE 0]])
    /\ UNCHANGED <<entries, letters, replay, done, runs, faults>>

\* XCLAIM of m: nothing when it was acknowledged or delivered meanwhile.
Claimed(m) == {m} \cap {n \in Entries : entries[n].state = "pending" /\ entries[n].idle}

ClaimEntry(m) ==
    entries' = [n \in Entries |-> IF n \in Claimed(m) THEN Deliver(entries[n]) ELSE entries[n]]

ClaimNext(w) ==
    /\ At(w, "claim")
    /\ LET m     == Least(worker[w].todo)
           rest  == worker[w].todo \ {m}
           batch == worker[w].batch \cup Claimed(m)
       IN  /\ ClaimEntry(m)
           /\ IF rest # {}
              THEN Turn(w, [worker[w] EXCEPT !.todo = rest, !.batch = batch])
              ELSE Begin(w, batch, worker[w].attempts, TRUE)
    /\ UNCHANGED <<letters, replay, done, runs, faults>>

\* What was claimed so far stays claimed, unhandled.
ClaimFails(w) ==
    /\ At(w, "claim")
    /\ Fault
    /\ UNCHANGED entries \/ ClaimEntry(Least(worker[w].todo))
    /\ Again(w)
    /\ UNCHANGED <<letters, replay, done, runs>>

\* XREADGROUP
Read(w) ==
    /\ At(w, "read")
    /\ LET new == FirstOf("new")
       IN  /\ entries' = [m \in Entries |->
                             IF m \in new THEN Deliver(entries[m]) ELSE entries[m]]
           /\ Begin(w, new, [m \in Entries |-> 0], FALSE)
    /\ UNCHANGED <<letters, replay, done, runs, faults>>

\* The answer of XREADGROUP is lost.
ReadFails(w) ==
    /\ At(w, "read")
    /\ Fault
    /\ entries' = [m \in Entries |->
                      IF m \in FirstOf("new") THEN Deliver(entries[m]) ELSE entries[m]]
    /\ Again(w)
    /\ UNCHANGED <<letters, replay, done, runs>>

\* The handler returns, or says that the message can be ignored.
HandleMessage(w) ==
    /\ At(w, "handle")
    /\ Payload(w) \notin NoAmount
    /\ done' = done \cup {Payload(w)}
    /\ runs' = [runs EXCEPT ![Current(w)].ok = UpTo(@, 2)]
    /\ Goto(w, "ack")
    /\ UNCHANGED <<entries, letters, replay, faults>>

\* A plausible slip: no limit.
Never(attempts) == FALSE

\* A plausible slip: one delivery too few.
TooFew(attempts) == attempts + 1 >= MaxRetries

Exhausted(attempts) == attempts >= MaxRetries

\* The handler raises, before or after its commit.
HandlerRaises(w) ==
    /\ At(w, "handle")
    /\ Payload(w) \notin NoAmount
    /\ done' \in {done, done \cup {Payload(w)}}
    /\ runs' = [runs EXCEPT ![Current(w)].failed = UpTo(@, MaxRetries + 2)]
    /\ IF Exhausted(worker[w].attempts[Current(w)]) THEN Goto(w, "bury") ELSE NextMessage(w)
    /\ UNCHANGED <<entries, letters, replay, faults>>

\* A message without an amount is not handled.
NoAmountField(w) ==
    /\ At(w, "handle")
    /\ Payload(w) \in NoAmount
    /\ Goto(w, "bury")
    /\ UNCHANGED <<entries, letters, replay, done, runs, faults>>

Acknowledge(w) ==
    /\ worker[w].pc \in {"ack", "ack_buried"}
    /\ Xack(Current(w))
    /\ NextMessage(w)
    /\ UNCHANGED <<letters, replay, done, runs, faults>>

BuryMessage(w) ==
    /\ At(w, "bury")
    /\ Bury(Payload(w))
    /\ Goto(w, "ack_buried")
    /\ UNCHANGED <<entries, replay, done, runs, faults>>

\* _handle_failure catches what Redis raises; the rest of the loop does not.
Caught(w) == At(w, "bury") \/ At(w, "ack_buried")

AfterError(w) ==
    IF Caught(w) /\ Payload(w) \notin NoAmount THEN NextMessage(w) ELSE Again(w)

BuryFails(w) ==
    /\ At(w, "bury")
    /\ Fault
    /\ UNCHANGED letters \/ Bury(Payload(w))
    /\ AfterError(w)
    /\ UNCHANGED <<entries, replay, done, runs>>

AckFails(w) ==
    /\ worker[w].pc \in {"ack", "ack_buried"}
    /\ Fault
    /\ UNCHANGED entries \/ Xack(Current(w))
    /\ AfterError(w)
    /\ UNCHANGED <<letters, replay, done, runs>>

Work(w) ==
    \/ Scan(w)
    \/ ClaimNext(w) \/ ClaimFails(w)
    \/ Read(w) \/ ReadFails(w)
    \/ HandleMessage(w) \/ HandlerRaises(w) \/ NoAmountField(w)
    \/ Acknowledge(w) \/ AckFails(w)
    \/ BuryMessage(w) \/ BuryFails(w)

\* The process dies, also while the handler runs.
Crash(w) ==
    /\ worker[w] # Loop
    /\ Fault
    /\ Again(w)
    /\ \/ UNCHANGED done
       \/ At(w, "handle") /\ Payload(w) \notin NoAmount /\ done' = done \cup {Payload(w)}
    /\ UNCHANGED <<entries, letters, replay, runs>>

\* min_idle_time passes without a delivery.
Idle(m) ==
    /\ entries[m].state = "pending" /\ ~entries[m].idle
    /\ entries' = [entries EXCEPT ![m].idle = TRUE]
    /\ UNCHANGED <<letters, worker, replay, done, runs, faults>>

\* Everything but the sends of the relay.
Consume ==
    \/ \E d \in Admins : Replay(d) \/ ReplayFails(d) \/ \E l \in Letters : ReadLetter(d, l)
    \/ \E w \in Workers : Work(w) \/ Crash(w)
    \/ \E m \in Entries : Idle(m)

StreamNext == Consume \/ \E p \in Payloads : Publish(p)

StreamSpec == StreamInit /\ [][StreamNext]_streamVars

StreamFairSpec ==
    /\ StreamSpec
    /\ \A w \in Workers : WF_streamVars(Work(w))
    /\ \A m \in Entries : WF_streamVars(Idle(m))

-----------------------------------------------------------------------------
(* Properties *)

\* The payload is somewhere on its way.
Held(p) ==
    \/ \E m \in Entries : entries[m].payload = p /\ entries[m].state \in {"new", "pending"}
    \/ \E l \in Letters : letters[l].payload = p /\ letters[l].state = "there"

Seen(p) ==
    \/ \E m \in Entries : entries[m].payload = p
    \/ \E l \in Letters : letters[l].payload = p

\* worker.py:74-142, dlq_manager.py:38-55.  Whatever Redis or the worker
\* breaks off, a message that was sent is done, or waits in the stream, in the
\* pending list or in the dead letters.
NothingLost == \A p \in Payloads : Seen(p) => p \in done \/ Held(p)

\* worker.py:85-90, queue_manager.py:145-154.  A message with an amount is
\* buried after its first delivery and MaxRetries more; when nothing was broken
\* off, the handler has failed on every one of them.
BuriedAfterRetries ==
    [][ \A w \in Workers :
          BuryMessage(w) /\ Payload(w) \notin NoAmount =>
              /\ entries[Current(w)].delivered = MaxRetries + 1
              /\ faults = 0 /\ Workers = {w} => runs[Current(w)].failed = MaxRetries + 1
      ]_streamVars

\* worker.py:112-142.  One worker whose commands succeed handles a message to
\* its end once, although messages grow idle while a batch is handled.
HandledOnce ==
    faults = 0 /\ Cardinality(Workers) = 1 => \A m \in Entries : runs[m].ok <= 1

\* worker.py:112-160.  Every message leaves the pending list, though its
\* handler may fail every time.
EntriesEnd ==
    \A m \in Entries :
        entries[m].state \in {"new", "pending"} ~> entries[m].state = "acked"
=============================================================================
