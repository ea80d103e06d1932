--------------------------- MODULE OutboxRelayProofs ---------------------------
(***************************************************************************)
(* OutboxInv is inductive; the safety properties of OutboxRelay follow     *)
(* for any number of events, relays, retries and crashes.                  *)
(***************************************************************************)
EXTENDS OutboxRelayInv, FiniteSetTheorems, TLAPS

RowSet == [status : {"NONE", "PENDING", "PROCESSING", "PUBLISHED", "FAILED"},
           retry  : 0 .. MaxRetries,
           lock   : {"none", "fresh", "old"}]

OutcomeSet == [status : {"NONE", "CLAIMED", "PENDING", "PUBLISHED", "FAILED"},
               retry  : 0 .. MaxRetries]

LEMMA TypeParts ==
  OutboxTypeOK <=>
    /\ events \in [Events -> RowSet]
    /\ work \in [Relays -> [Events -> OutcomeSet]]
    /\ stream \in [Events -> 0 .. 2] /\ dlq \in [Events -> 0 .. 2]
    /\ errors \in [Events -> 0 .. MaxRetries]
    /\ expired \subseteq Events
    /\ crashes \in 0 .. MaxCrashes
BY DEF OutboxTypeOK, RowSet, OutcomeSet

LEMMA NextTypeParts ==
  OutboxTypeOK' <=>
    /\ events' \in [Events -> RowSet]
    /\ work' \in [Relays -> [Events -> OutcomeSet]]
    /\ stream' \in [Events -> 0 .. 2] /\ dlq' \in [Events -> 0 .. 2]
    /\ errors' \in [Events -> 0 .. MaxRetries]
    /\ expired' \subseteq Events
    /\ crashes' \in 0 .. MaxCrashes
BY DEF OutboxTypeOK, RowSet, OutcomeSet

\* An event nothing happens to.
LEMMA Untouched ==
  ASSUME OutboxTypeOK, NEW e \in Events, EventOK(e),
         events'[e] = events[e], \A r \in Relays : work'[r][e] = work[r][e],
         stream'[e] = stream[e], dlq'[e] = dlq[e], errors'[e] = errors[e],
         e \in expired' <=> e \in expired
  PROVE  EventOK(e)'
BY DEF EventOK, RowOK, OutcomeOK, HolderOK, UnsentOK, GivenUp, Row, Holds

LEMMA InitInv == OutboxInit => OutboxInv
<1> SUFFICES ASSUME OutboxInit PROVE OutboxInv
    OBVIOUS
<1>1. OutboxTypeOK
  BY OutboxAssumption DEF OutboxInit, OutboxTypeOK, NoWork
<1>2. ASSUME NEW e \in Events PROVE EventOK(e)
  BY OutboxAssumption
  DEF OutboxInit, NoWork, EventOK, RowOK, OutcomeOK, HolderOK, UnsentOK, GivenUp, Row, Holds
<1> QED
  BY <1>1, <1>2 DEF OutboxInv

LEMMA IntakeInv ==
  ASSUME OutboxInv, NEW e \in Events, Intake(e)
  PROVE  OutboxInv'
<1>1. OutboxTypeOK'
  BY TypeParts, NextTypeParts DEF OutboxInv, Intake, RowSet
<1>2. EventOK(e)'
  BY TypeParts DEF OutboxInv, Intake, RowSet, EventOK, RowOK, OutcomeOK, HolderOK, UnsentOK,
     GivenUp, Row, Holds
<1>3. ASSUME NEW d \in Events \ {e} PROVE EventOK(d)'
  BY <1>3, TypeParts, Untouched DEF OutboxInv, Intake
<1> QED
  BY <1>1, <1>2, <1>3 DEF OutboxInv

LEMMA ExpireInv ==
  ASSUME OutboxInv, NEW e \in Events, Expire(e)
  PROVE  OutboxInv'
<1>1. OutboxTypeOK'
  BY TypeParts, NextTypeParts DEF OutboxInv, Expire, RowSet
<1>2. EventOK(e)'
  BY TypeParts DEF OutboxInv, Expire, RowSet, EventOK, RowOK, OutcomeOK, HolderOK, UnsentOK,
     GivenUp, Row, Holds
<1>3. ASSUME NEW d \in Events \ {e} PROVE EventOK(d)'
  BY <1>3, TypeParts, Untouched DEF OutboxInv, Expire
<1> QED
  BY <1>1, <1>2, <1>3 DEF OutboxInv

LEMMA ClaimInv ==
  ASSUME OutboxInv, NEW r \in Relays, Claim(r)
  PROVE  OutboxInv'
<1>1. OutboxTypeOK'
  <2>1. events' \in [Events -> RowSet]
    BY TypeParts DEF OutboxInv, Claim, RowSet
  <2>2. work' \in [Relays -> [Events -> OutcomeSet]]
    <3>1. NoWork \in OutcomeSet
      BY OutboxAssumption DEF NoWork, OutcomeSet
    <3>2. \A e \in Events : [status |-> "CLAIMED", retry |-> events[e].retry] \in OutcomeSet
      BY TypeParts DEF OutboxInv, RowSet, OutcomeSet
    <3> QED
      BY <3>1, <3>2, TypeParts DEF OutboxInv, Claim
  <2> QED
    BY <2>1, <2>2, TypeParts, NextTypeParts DEF OutboxInv, Claim
<1>2. \A q \in Relays \ {r} : work'[q] = work[q]
  BY TypeParts DEF OutboxInv, Claim
<1>3. ASSUME NEW e \in Events \ Oldest PROVE EventOK(e)'
  <2>1. work'[r][e] = NoWork /\ work[r][e] = NoWork /\ events'[e] = events[e]
    BY <1>3, TypeParts DEF OutboxInv, Claim, Asleep
  <2> QED
    BY <1>2, <1>3, <2>1, Untouched DEF OutboxInv, Claim
<1>4. ASSUME NEW e \in Oldest PROVE EventOK(e)'
  <2>1. /\ e \in Events /\ EventOK(e) /\ events[e] \in RowSet
        /\ Row(e).status = "PENDING" \/ (Row(e).status = "PROCESSING" /\ Row(e).lock = "old")
    BY TypeParts DEF Oldest, Claimable, Row, OutboxInv
  <2>2. events'[e] = [events[e] EXCEPT !.status = "PROCESSING", !.lock = "fresh"]
    BY <2>1 DEF Claim
  <2>3. /\ Row(e)'.status = "PROCESSING" /\ Row(e)'.lock = "fresh"
        /\ Row(e)'.retry = Row(e).retry
    BY <2>1, <2>2 DEF RowSet, Row
  <2>4. work'[r][e] = [status |-> "CLAIMED", retry |-> Row(e).retry]
    BY <2>1, TypeParts DEF OutboxInv, Claim, Row
  <2>5. /\ work'[r][e].status = "CLAIMED" /\ work'[r][e].retry = Row(e).retry
        /\ ~Holds(r, e)
    <3>1. work[r][e] = NoWork
      BY <2>1 DEF Claim, Asleep
    <3> QED
      BY <2>4, <3>1 DEF Holds, NoWork
  <2>6. UNCHANGED <<stream, dlq, errors, expired>>
    BY DEF Claim
  <2>7. RowOK(e)'
    BY <2>1, <2>3, <2>6 DEF EventOK, RowOK
  <2>8. ASSUME NEW q \in Relays PROVE OutcomeOK(q, e)'
    <3>1. CASE q = r
      BY <2>1, <2>3, <2>5, <2>6, <3>1 DEF EventOK, OutcomeOK, RowOK, Holds
    <3>2. CASE q # r
      BY <1>2, <2>1, <2>6, <3>2 DEF EventOK, OutcomeOK, Holds, GivenUp
    <3> QED
      BY <3>1, <3>2
  <2>9. HolderOK(e)'
    <3>1. e \notin expired \/ (\A p, q \in Relays : p = q) => \A q \in Relays : ~Holds(q, e)
      BY <2>1, <2>5 DEF EventOK, RowOK, HolderOK
    <3>2. \A q \in Relays \ {r} : Holds(q, e)' <=> Holds(q, e)
      BY <1>2 DEF Holds
    <3> QED
      BY <2>3, <2>6, <3>1, <3>2 DEF HolderOK
  <2>10. UnsentOK(e)'
    BY <1>2, <2>1, <2>3, <2>6 DEF EventOK, RowOK, UnsentOK
  <2> QED
    BY <2>7, <2>8, <2>9, <2>10 DEF EventOK
<1> QED
  BY <1>1, <1>3, <1>4 DEF OutboxInv

\* A relay has sent an event and knows the outcome; its row waits.
LEMMA SentInv ==
  ASSUME OutboxInv, NEW r \in Relays, NEW e \in Events, work[r][e].status = "CLAIMED",
         NEW o \in OutcomeSet, Outcome(r, e, o), o.status # "NONE", o.status # "CLAIMED",
         o.status = "PENDING" => o.retry < MaxRetries,
         stream' \in [Events -> 0 .. 2], dlq' \in [Events -> 0 .. 2],
         errors' \in [Events -> 0 .. MaxRetries],
         \A d \in Events \ {e} :
            stream'[d] = stream[d] /\ dlq'[d] = dlq[d] /\ errors'[d] = errors[d],
         stream'[e] >= stream[e], dlq'[e] >= dlq[e], errors'[e] >= errors[e],
         o.retry <= errors'[e],
         o.status = "PUBLISHED" => stream'[e] > 0,
         o.status = "FAILED" => GivenUp(e)',
         o.status = "PENDING" => errors'[e] > 0,
         errors'[e] = 0 => stream'[e] + dlq'[e] <= stream[e] + dlq[e] + 1,
         UNCHANGED <<events, expired, crashes>>
  PROVE  OutboxInv'
<1>1. /\ work'[r][e] = o /\ \A q \in Relays \ {r} : work'[q] = work[q]
      /\ \A d \in Events \ {e} : work'[r][d] = work[r][d]
      /\ work' \in [Relays -> [Events -> OutcomeSet]]
  BY TypeParts DEF OutboxInv, Outcome
<1>2. OutboxTypeOK'
  BY <1>1, TypeParts, NextTypeParts DEF OutboxInv
<1>3. ASSUME NEW d \in Events \ {e} PROVE EventOK(d)'
  BY <1>1, <1>3, Untouched DEF OutboxInv
<1>4. EventOK(e)'
  <2>1. /\ stream[e] \in Nat /\ dlq[e] \in Nat /\ errors[e] \in Nat /\ MaxRetries \in Nat
        /\ stream'[e] \in Nat /\ dlq'[e] \in Nat /\ errors'[e] \in 0 .. MaxRetries
        /\ errors[e] <= MaxRetries /\ events[e].retry \in Nat
        /\ \A q \in Relays : work[q][e].retry \in Nat
    <3>1. /\ events[e] \in RowSet /\ \A q \in Relays : work[q][e] \in OutcomeSet
          /\ stream[e] \in 0 .. 2 /\ dlq[e] \in 0 .. 2 /\ errors[e] \in 0 .. MaxRetries
      BY TypeParts DEF OutboxInv
    <3> QED
      BY <3>1, OutboxAssumption DEF RowSet, OutcomeSet
  <2>2. GivenUp(e) => GivenUp(e)'
    BY <2>1 DEF GivenUp
  <2>3. Holds(r, e) /\ Row(e).status # "NONE"
    BY DEF OutboxInv, EventOK, RowOK, Holds
  <2>4. RowOK(e)'
    BY <2>1, <2>2, <2>3 DEF OutboxInv, EventOK, RowOK, Row
  <2>5. ASSUME NEW q \in Relays PROVE OutcomeOK(q, e)'
    <3>1. CASE q = r
      BY <1>1, <2>1, <3>1 DEF OutcomeOK, Holds
    <3>2. CASE q # r
      BY <1>1, <2>1, <2>2, <3>2 DEF OutboxInv, EventOK, OutcomeOK, Holds
    <3> QED
      BY <3>1, <3>2
  <2>6. HolderOK(e)'
    BY <1>1, <2>3 DEF OutboxInv, EventOK, HolderOK, Holds, Row
  <2>7. UnsentOK(e)'
    <3> SUFFICES ASSUME e \notin expired, errors'[e] = 0 PROVE UnsentOK(e)'
      BY DEF UnsentOK
    <3>1. stream[e] = 0 /\ dlq[e] = 0
      BY <2>1 DEF OutboxInv, EventOK, UnsentOK
    <3>2. Row(e).status = "PROCESSING" /\ \A q \in Relays \ {r} : ~Holds(q, e)
      BY <2>3 DEF OutboxInv, EventOK, HolderOK
    <3> QED
      BY <1>1, <2>1, <3>1, <3>2 DEF UnsentOK, Row, Holds
  <2> QED
    BY <2>4, <2>5, <2>6, <2>7 DEF EventOK
<1> QED
  BY <1>2, <1>3, <1>4 DEF OutboxInv

LEMMA SendInv ==
  ASSUME OutboxInv, NEW r \in Relays, NEW e \in Events, Send(r, e)
  PROVE  OutboxInv'
<1>1. /\ work[r][e] \in OutcomeSet /\ work[r][e].status = "CLAIMED"
      /\ work[r][e].retry \in Nat /\ work[r][e].retry <= errors[e]
      /\ stream \in [Events -> 0 .. 2] /\ dlq \in [Events -> 0 .. 2]
      /\ errors \in [Events -> 0 .. MaxRetries]
  BY TypeParts, OutboxAssumption DEF OutboxInv, Send, EventOK, OutcomeOK, OutcomeSet
<1>2. CASE /\ e \in Valid
           /\ stream' = Count(stream, e, 2)
           /\ Outcome(r, e, [status |-> "PUBLISHED", retry |-> work[r][e].retry])
           /\ UNCHANGED dlq
  <2>1. [status |-> "PUBLISHED", retry |-> work[r][e].retry] \in OutcomeSet
    BY <1>1 DEF OutcomeSet
  <2>2. /\ stream' \in [Events -> 0 .. 2] /\ \A d \in Events \ {e} : stream'[d] = stream[d]
        /\ stream'[e] >= stream[e] /\ stream'[e] > 0 /\ stream'[e] <= stream[e] + 1
    BY <1>1, <1>2 DEF Count
  <2>3. stream[e] \in Nat /\ dlq[e] \in Nat /\ stream'[e] \in Nat /\ errors[e] \in Nat
    BY <1>1, <2>2, OutboxAssumption
  <2> QED
    BY <1>1, <1>2, <2>1, <2>2, <2>3, SentInv DEF Send
<1>3. CASE /\ e \notin Valid
           /\ dlq' = Count(dlq, e, 2)
           /\ Outcome(r, e, [status |-> "FAILED", retry |-> work[r][e].retry])
           /\ UNCHANGED stream
  <2>1. [status |-> "FAILED", retry |-> work[r][e].retry] \in OutcomeSet
    BY <1>1 DEF OutcomeSet
  <2>2. /\ dlq' \in [Events -> 0 .. 2] /\ \A d \in Events \ {e} : dlq'[d] = dlq[d]
        /\ dlq'[e] >= dlq[e] /\ dlq'[e] > 0 /\ dlq'[e] <= dlq[e] + 1
    BY <1>1, <1>3 DEF Count
  <2>3. stream[e] \in Nat /\ dlq[e] \in Nat /\ dlq'[e] \in Nat /\ errors[e] \in Nat
    BY <1>1, <2>2, OutboxAssumption
  <2>4. GivenUp(e)'
    BY <1>3, <2>2 DEF GivenUp
  <2> QED
    BY <1>1, <1>3, <2>1, <2>2, <2>3, <2>4, SentInv DEF Send
<1> QED
  BY <1>2, <1>3 DEF Send

LEMMA SendFailsInv ==
  ASSUME OutboxInv, NEW r \in Relays, NEW e \in Events, SendFails(r, e)
  PROVE  OutboxInv'
<1> DEFINE o == Raised(work[r][e].retry)
<1>1. /\ work[r][e] \in OutcomeSet /\ work[r][e].status = "CLAIMED"
      /\ work[r][e].retry \in Nat /\ work[r][e].retry <= errors[e]
      /\ work[r][e].retry < MaxRetries /\ MaxRetries \in Nat
      /\ stream \in [Events -> 0 .. 2] /\ dlq \in [Events -> 0 .. 2]
      /\ errors \in [Events -> 0 .. MaxRetries]
  BY TypeParts, OutboxAssumption DEF OutboxInv, SendFails, EventOK, OutcomeOK, OutcomeSet
<1>2. /\ errors' \in [Events -> 0 .. MaxRetries]
      /\ \A d \in Events \ {e} : errors'[d] = errors[d]
      /\ errors'[e] = IF errors[e] < MaxRetries THEN errors[e] + 1 ELSE errors[e]
  BY <1>1 DEF SendFails, Count
<1>3. errors'[e] >= errors[e] /\ errors'[e] > 0 /\ work[r][e].retry + 1 <= errors'[e]
  BY <1>1, <1>2
<1>4. /\ o \in OutcomeSet /\ o.retry <= errors'[e]
      /\ o.status \in {"PENDING", "FAILED"} /\ (o.status = "PENDING" => o.retry < MaxRetries)
      /\ o.status = "FAILED" => errors'[e] = MaxRetries
  BY <1>1, <1>2, <1>3 DEF Raised, OutcomeSet
<1>5. Outcome(r, e, o)
  BY DEF SendFails, OutcomeOfError
<1>6. /\ stream' \in [Events -> 0 .. 2] /\ \A d \in Events \ {e} : stream'[d] = stream[d]
      /\ stream'[e] >= stream[e]
      /\ dlq' \in [Events -> 0 .. 2] /\ \A d \in Events \ {e} : dlq'[d] = dlq[d]
      /\ dlq'[e] >= dlq[e]
  <2>1. stream' \in {stream, Count(stream, e, 2)} /\ dlq' \in {dlq, Count(dlq, e, 2)}
    BY DEF SendFails
  <2> QED
    BY <1>1, <2>1 DEF Count
<1>7. o.status = "FAILED" => GivenUp(e)'
  BY <1>4 DEF GivenUp
<1> HIDE DEF o
<1> QED
  BY <1>1, <1>2, <1>3, <1>4, <1>5, <1>6, <1>7, SentInv DEF SendFails

LEMMA FinishInv ==
  ASSUME OutboxInv, NEW r \in Relays, Finish(r)
  PROVE  OutboxInv'
<1>1. ASSUME NEW e \in Events PROVE work[r][e].status # "CLAIMED" /\ work[r][e] \in OutcomeSet
                                    /\ events[e] \in RowSet
  BY TypeParts DEF OutboxInv, Finish
<1>2. ASSUME NEW e \in Events, Holds(r, e)
      PROVE  /\ events'[e] \in RowSet /\ Row(e)'.lock = "none"
             /\ Row(e)'.status = work[r][e].status
             /\ work[r][e].status = "PUBLISHED" => Row(e)'.retry = Row(e).retry
             /\ work[r][e].status # "PUBLISHED" => Row(e)'.retry = work[r][e].retry
  BY <1>1, <1>2 DEF Finish, Written, Holds, Row, RowSet, OutcomeSet
<1>3. ASSUME NEW e \in Events, ~Holds(r, e)
      PROVE  events'[e] = events[e] /\ work[r][e] = NoWork
  BY <1>3 DEF Finish, Holds, OutboxInv, EventOK, OutcomeOK
<1>4. /\ \A q \in Relays \ {r} : work'[q] = work[q]
      /\ \A e \in Events : work'[r][e] = NoWork
      /\ work' \in [Relays -> [Events -> OutcomeSet]]
  BY TypeParts, OutboxAssumption DEF OutboxInv, Finish, NoWork, OutcomeSet
<1>5. OutboxTypeOK'
  <2>1. events' \in [Events -> RowSet]
    <3>1. \A e \in Events : events'[e] \in RowSet
      BY <1>1, <1>2, <1>3
    <3> QED
      BY <3>1 DEF Finish
  <2> QED
    BY <1>4, <2>1, TypeParts, NextTypeParts DEF OutboxInv, Finish
<1>6. ASSUME NEW e \in Events, ~Holds(r, e) PROVE EventOK(e)'
  BY <1>3, <1>4, <1>6, Untouched DEF OutboxInv, Finish
<1>7. ASSUME NEW e \in Events, Holds(r, e) PROVE EventOK(e)'
  <2>1. EventOK(e) /\ errors[e] \in Nat /\ stream[e] \in Nat /\ dlq[e] \in Nat
        /\ MaxRetries \in Nat
        /\ work[r][e].status \in {"PENDING", "PUBLISHED", "FAILED"}
    BY <1>1, <1>7, TypeParts, OutboxAssumption DEF OutboxInv, Holds, OutcomeSet
  <2>2. RowOK(e)'
    BY <1>2, <1>7, <2>1 DEF EventOK, RowOK, OutcomeOK, GivenUp, Finish, Row
  <2>3. ASSUME NEW q \in Relays PROVE OutcomeOK(q, e)'
    BY <1>4, <2>1, OutboxAssumption DEF EventOK, OutcomeOK, GivenUp, Holds, NoWork, Finish
  <2>4. HolderOK(e)'
    BY <1>4, <1>7, <2>1 DEF EventOK, HolderOK, Holds, NoWork, Finish
  <2>5. UnsentOK(e)'
    BY <1>2, <1>4, <1>7, <2>1 DEF EventOK, UnsentOK, OutcomeOK, NoWork, Finish, Row
  <2> QED
    BY <2>2, <2>3, <2>4, <2>5 DEF EventOK
<1> QED
  BY <1>5, <1>6, <1>7 DEF OutboxInv

LEMMA CrashInv ==
  ASSUME OutboxInv, NEW r \in Relays, Crash(r)
  PROVE  OutboxInv'
<1>1. /\ \A q \in Relays \ {r} : work'[q] = work[q]
      /\ \A e \in Events : work'[r][e] = NoWork
      /\ work' \in [Relays -> [Events -> OutcomeSet]]
  BY TypeParts, OutboxAssumption DEF OutboxInv, Crash, NoWork, OutcomeSet
<1>2. OutboxTypeOK'
  BY <1>1, TypeParts, NextTypeParts, OutboxAssumption DEF OutboxInv, Crash
<1>3. ASSUME NEW e \in Events PROVE EventOK(e)'
  <2>1. EventOK(e) /\ errors[e] \in Nat
    BY TypeParts, OutboxAssumption DEF OutboxInv
  <2>2. RowOK(e)'
    BY <1>1, <2>1 DEF EventOK, RowOK, Holds, NoWork, GivenUp, Crash, Row
  <2>3. ASSUME NEW q \in Relays PROVE OutcomeOK(q, e)'
    BY <1>1, <2>1, OutboxAssumption DEF EventOK, OutcomeOK, GivenUp, Holds, NoWork, Crash
  <2>4. HolderOK(e)'
    BY <1>1, <2>1 DEF EventOK, HolderOK, Holds, NoWork, Crash, Row
  <2>5. UnsentOK(e)'
    BY <1>1, <2>1 DEF EventOK, UnsentOK, NoWork, Crash, Row
  <2> QED
    BY <2>2, <2>3, <2>4, <2>5 DEF EventOK
<1> QED
  BY <1>2, <1>3 DEF OutboxInv

-----------------------------------------------------------------------------
(* The specification. *)

\* tasks.py:27-49, 78-215.  Every step of every relay keeps the invariant.
THEOREM OutboxInductive == OutboxInv /\ [OutboxNext]_outboxVars => OutboxInv'
<1> SUFFICES ASSUME OutboxInv, [OutboxNext]_outboxVars PROVE OutboxInv'
    OBVIOUS
<1>1. ASSUME NEW e \in Events, Intake(e) \/ Expire(e) PROVE OutboxInv'
  BY <1>1, IntakeInv, ExpireInv
<1>2. ASSUME NEW r \in Relays, Relay(r) \/ Crash(r) PROVE OutboxInv'
  BY <1>2, ClaimInv, FinishInv, SendInv, SendFailsInv, CrashInv DEF Relay
<1>3. CASE UNCHANGED outboxVars
  <2>1. OutboxTypeOK'
    BY <1>3, TypeParts, NextTypeParts DEF OutboxInv, outboxVars
  <2>2. \A e \in Events : EventOK(e)'
    BY <1>3, Untouched DEF OutboxInv, outboxVars
  <2> QED
    BY <2>1, <2>2 DEF OutboxInv
<1> QED
  BY <1>1, <1>2, <1>3 DEF OutboxNext

\* tasks.py:15-215.  Rows, batches and what was sent fit together, always.
THEOREM OutboxInvariance == OutboxSpec => []OutboxInv
BY InitInv, OutboxInductive, PTL DEF OutboxSpec

\* tasks.py:123-152, 162-184.  An event marked PUBLISHED is in the stream.
THEOREM PublishedHolds == OutboxSpec => []PublishedIsSent
<1>1. OutboxInv => PublishedIsSent
  BY DEF OutboxInv, EventOK, RowOK, Row, PublishedIsSent
<1> QED
  BY <1>1, OutboxInvariance, PTL

\* tasks.py:84-145.  An event is given up for a cause.
THEOREM FailedHolds == OutboxSpec => []FailedForCause
<1>1. OutboxInv => FailedForCause
  BY DEF OutboxInv, EventOK, RowOK, Row, GivenUp, FailedForCause
<1> QED
  BY <1>1, OutboxInvariance, PTL

\* tasks.py:27-49.  Only an error or an old lock lets an event be sent twice.
THEOREM SentOnceHolds == OutboxSpec => []SentOnce
<1>1. OutboxInv => SentOnce
  BY DEF OutboxInv, EventOK, UnsentOK, SentOnce
<1> QED
  BY <1>1, OutboxInvariance, PTL

\* tasks.py:155-196.  A final status is final, with any number of relays until
\* its lock grows old, and with one relay for good.
THEOREM FinalHolds ==
  ASSUME IsFiniteSet(Relays)
  PROVE  OutboxSpec => Final
<1> DEFINE Stays(e) ==
       /\ events[e].status \in {"PUBLISHED", "FAILED"}
       /\ e \notin expired \/ Cardinality(Relays) = 1
       => /\ events'[e].status = events[e].status
          /\ stream'[e] = stream[e] /\ dlq'[e] = dlq[e]
<1>1. ASSUME OutboxInv, OutboxNext, NEW e \in Events,
             events[e].status \in {"PUBLISHED", "FAILED"},
             e \notin expired \/ Cardinality(Relays) = 1
      PROVE  /\ events'[e].status = events[e].status
             /\ stream'[e] = stream[e] /\ dlq'[e] = dlq[e]
  <2>1. Cardinality(Relays) = 1 => \A q, r \in Relays : q = r
    BY FS_Singleton
  <2>2. \A r \in Relays : ~Holds(r, e)
    BY <1>1, <2>1 DEF OutboxInv, EventOK, HolderOK, Row
  <2>3. ASSUME NEW d \in Events, Intake(d) \/ Expire(d)
        PROVE  events'[e] = events[e] /\ stream' = stream /\ dlq' = dlq
    BY <1>1, <2>3, TypeParts DEF OutboxInv, Intake, Expire
  <2>4. ASSUME NEW r \in Relays, Claim(r)
        PROVE  events'[e] = events[e] /\ stream' = stream /\ dlq' = dlq
    BY <1>1, <2>4 DEF Claim, Oldest, Claimable
  <2>5. ASSUME NEW r \in Relays, Finish(r) \/ Crash(r)
        PROVE  events'[e] = events[e] /\ stream' = stream /\ dlq' = dlq
    BY <2>2, <2>5 DEF Finish, Crash, Holds
  <2>6. ASSUME NEW r \in Relays, NEW d \in Events, Send(r, d) \/ SendFails(r, d)
        PROVE  events'[e] = events[e] /\ stream'[e] = stream[e] /\ dlq'[e] = dlq[e]
    <3>1. d # e /\ UNCHANGED events
      BY <2>2, <2>6 DEF Send, SendFails, Holds
    <3>2. stream' \in {stream, Count(stream, d, 2)} /\ dlq' \in {dlq, Count(dlq, d, 2)}
      BY <2>6 DEF Send, SendFails
    <3> QED
      BY <1>1, <3>1, <3>2, TypeParts DEF OutboxInv, Count
  <2> QED
    BY <1>1, <2>3, <2>4, <2>5, <2>6 DEF OutboxNext, Relay
<1>2. OutboxInv /\ [OutboxNext]_outboxVars => [\A e \in Events : Stays(e)]_outboxVars
  BY <1>1
<1>3. OutboxSpec => [][\A e \in Events : Stays(e)]_outboxVars
  BY <1>2, OutboxInvariance, PTL DEF OutboxSpec
<1> QED
  BY <1>3 DEF Final

-----------------------------------------------------------------------------
(* What the path as a whole relies on *)

OneRelay == \A q, r \in Relays : q = r

\* An event stays stored, appears as PENDING, and is given up for good unless
\* another relay holds it.
LEMMA OutboxMoves ==
  ASSUME OutboxInv, [OutboxNext]_outboxVars, NEW e \in Events
  PROVE  /\ events[e].status # "NONE" => events'[e].status # "NONE"
         /\ events[e].status = "NONE" =>
               events'[e].status = "NONE" \/ (Intake(e) /\ events'[e].status = "PENDING")
         /\ (\E r \in Relays : Relay(r) \/ Crash(r)) \/ (\E d \in Events : Expire(d)) =>
               (events[e].status = "NONE" <=> events'[e].status = "NONE")
         /\ OneRelay /\ events[e].status = "FAILED" => events'[e].status = "FAILED"
<1>1. /\ events \in [Events -> RowSet] /\ events[e] \in RowSet
      /\ \A r \in Relays : work[r][e] \in OutcomeSet
      /\ \A r \in Relays : Holds(r, e) => Row(e).status # "NONE"
      /\ \A r \in Relays : OneRelay /\ Holds(r, e) => Row(e).status = "PROCESSING"
  BY TypeParts DEF OutboxInv, EventOK, RowOK, HolderOK, OneRelay
<1>2. ASSUME NEW d \in Events, Intake(d) \/ Expire(d)
      PROVE  \/ events'[e].status = events[e].status
             \/ Intake(e) /\ events'[e].status = "PENDING"
             \/ events[e].status = "PROCESSING" /\ events'[e].status = "PROCESSING"
  BY <1>1, <1>2 DEF Intake, Expire, RowSet
<1>3. ASSUME NEW r \in Relays, Claim(r)
      PROVE  \/ events'[e].status = events[e].status
             \/ events[e].status \in {"PENDING", "PROCESSING"} /\ events'[e].status = "PROCESSING"
  BY <1>1, <1>3 DEF Claim, Oldest, Claimable, RowSet
<1>4. ASSUME NEW r \in Relays, Finish(r)
      PROVE  \/ events'[e].status = events[e].status
             \/ Holds(r, e) /\ events'[e].status \in {"PENDING", "PUBLISHED", "FAILED"}
  BY <1>1, <1>4 DEF Finish, Written, Holds, RowSet, OutcomeSet
<1>5. CASE events' = events
  BY <1>5
<1>6. ASSUME NEW r \in Relays, Relay(r) \/ Crash(r)
      PROVE  Claim(r) \/ Finish(r) \/ events' = events
  BY <1>6 DEF Relay, Send, SendFails, Crash
<1>7. Intake(e) => events[e].status = "NONE"
  BY DEF Intake
<1>8. ASSUME NEW d \in Events, Expire(d) PROVE events'[e].status = "NONE" <=> events[e].status = "NONE"
  BY <1>1, <1>8 DEF Expire, RowSet
<1> QED
  BY <1>1, <1>2, <1>3, <1>4, <1>5, <1>6, <1>7, <1>8 DEF OutboxNext, outboxVars, Row

\* What is sent is a stored event; it is not given up, unless by another relay.
LEMMA SendMoves ==
  ASSUME OutboxInv, NEW r \in Relays, NEW e \in Events, work[r][e].status = "CLAIMED"
  PROVE  /\ events[e].status # "NONE"
         /\ OneRelay => events[e].status # "FAILED"
<1>1. Holds(r, e)
  BY DEF Holds
<1> QED
  BY <1>1 DEF OutboxInv, EventOK, RowOK, HolderOK, OneRelay, Row
=============================================================================
