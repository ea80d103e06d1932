---------------------------- MODULE StreamWorkerInv ----------------------------
(***************************************************************************)
(* The inductive invariant of StreamWorker: what a worker may rely on for  *)
(* the messages in its hands, and where a payload is while an entry that   *)
(* carries it is about to be acknowledged.                                 *)
(***************************************************************************)
EXTENDS StreamWorker

State(m) == entries[m].state

\* The batch and the claims of a worker are entries of the stream.
WorkerOK(w) ==
    /\ worker[w].pc \in {"handle", "ack", "bury", "ack_buried"} => worker[w].batch # {}
    /\ At(w, "claim") => worker[w].todo # {}
    /\ worker[w].pc \in {"scan", "read"} => worker[w].batch = {}
    /\ \A m \in worker[w].batch \cup worker[w].todo : State(m) # "absent"
    /\ At(w, "ack") => Payload(w) \in done

\* What was counted at a delivery is not taken back.
AttemptsOK(w) ==
    /\ \A m \in Entries : worker[w].attempts[m] <= entries[m].delivered
    /\ \A m \in worker[w].batch :
          worker[w].attempts[m] < entries[m].delivered \/ worker[w].attempts[m] > MaxRetries
    /\ At(w, "bury") /\ Payload(w) \notin NoAmount =>
          entries[Current(w)].delivered = MaxRetries + 1

\* An entry in the stream that is not about to be acknowledged as buried.
Waits(m) ==
    /\ State(m) \in {"new", "pending"}
    /\ \A w \in Workers : ~(At(w, "ack_buried") /\ Current(w) = m)

\* A payload is done, or an entry or a letter holds it that stays.
Kept(p) ==
    \/ p \in done
    \/ \E m \in Entries : entries[m].payload = p /\ Waits(m)
    \/ \E l \in Letters : letters[l].payload = p /\ letters[l].state = "there"

\* A worker that is alone and was never broken off.
Unbroken(w) == faults = 0 /\ Workers = {w}

\* A worker that is alone takes no message into its hands that was acknowledged.
HandOK ==
    (\A v, w \in Workers : v = w) =>
        \A w \in Workers : \A m \in worker[w].batch : State(m) = "pending"

\* The payload was added to one of the streams.
Arrived(p) ==
    \/ \E m \in Entries : State(m) # "absent" /\ entries[m].payload = p
    \/ \E l \in Letters : letters[l].state # "absent" /\ letters[l].payload = p

\* The handler was successful on m: it is acknowledged, now or next.
Settled(w, m) == State(m) = "acked" \/ (At(w, "ack") /\ Current(w) = m)

OnceOK(w) ==
    Unbroken(w) =>
        /\ \A m \in worker[w].batch : State(m) = "pending"
        /\ \A m \in Entries : runs[m].ok = 0 \/ (runs[m].ok = 1 /\ Settled(w, m))

\* m is in the batch, and the handler did not fail on it in this round.
Unhandled(w, m) ==
    m \in worker[w].batch /\ ~(worker[w].pc \in {"bury", "ack_buried"} /\ Current(w) = m)

\* Its deliveries and the failures of the handler go together.
CountsOK(w) ==
    Unbroken(w) =>
        /\ \A m \in Entries :
              /\ State(m) \in {"absent", "new"} => entries[m].delivered = 0 /\ runs[m].failed = 0
              /\ State(m) = "pending" /\ m \notin worker[w].batch =>
                    entries[m].delivered <= MaxRetries
              /\ State(m) = "pending" /\ entries[m].payload \notin NoAmount =>
                    entries[m].delivered = runs[m].failed + (IF Unhandled(w, m) THEN 1 ELSE 0)
        /\ \A m \in worker[w].todo :
              /\ State(m) = "pending" /\ m \notin worker[w].batch
              /\ entries[m].delivered = worker[w].attempts[m]
        /\ \A m \in worker[w].batch : entries[m].delivered = worker[w].attempts[m] + 1

\* A letter that an admin has read was in the stream of the letters.
ReadOK == \A d \in Admins : replay[d] # None => letters[replay[d]].state # "absent"

\* worker.py:74-160, dlq_manager.py:38-55.  What a worker has in hand, what was
\* counted and where each payload is fit together, whatever breaks off.
StreamInv ==
    /\ StreamTypeOK
    /\ \A w \in Workers : WorkerOK(w) /\ AttemptsOK(w) /\ OnceOK(w) /\ CountsOK(w)
    /\ ReadOK
    /\ \A p \in Payloads : Seen(p) => Kept(p)
=============================================================================
