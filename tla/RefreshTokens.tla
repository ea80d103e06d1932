---------------------------- MODULE RefreshTokens ----------------------------
(***************************************************************************)
(* The sessions of the users: /users/login issues a refresh token,         *)
(* /users/refresh exchanges it for its successor in the same family, and a *)
(* token that was exchanged already is answered from the grace entry in    *)
(* Redis, or raises an alarm that revokes the whole family.                *)
(*                                                                         *)
(* Every statement, commit and Redis command of a call is a step.  An      *)
(* UPDATE locks its rows until the call commits or rolls back and sees,    *)
(* when it waited, what the other call left behind (READ COMMITTED).       *)
(*                                                                         *)
(* A token is the id of its row; the JWT that carries it is read back as   *)
(* it was issued.  A family is named by its first token.  Time is the      *)
(* order in which lifetimes end: a call that decoded the JWT in time may   *)
(* find the row over, because the two ends differ by a moment.             *)
(***************************************************************************)
EXTENDS Naturals, FiniteSets

CONSTANTS
    Calls,      \* requests at work at the same time
    MaxTokens,  \* bound: rows of refresh_tokens
    MaxEnded,   \* bound: tokens whose lifetime ends
    MaxFaults,  \* bound: statements and commands that raise, calls that die
    None

Tokens == 1 .. MaxTokens

ASSUME TokenAssumption ==
    /\ MaxTokens \in Nat /\ MaxEnded \in Nat /\ MaxFaults \in Nat
    /\ None \notin Tokens

VARIABLES
    tokens,   \* the rows; parent is history: the token it was exchanged for
    grace,    \* the successor under the key of a token, or None
    call,
    clock,    \* 2t - 1: the row of t has just ended; 2t: its JWT too
    given,    \* history: successors answered for a token; for None: logins
    lapsed,   \* history: tokens whose grace entry ran out
    alarmed,  \* history: families with an alarm ...
    closed,   \* ... those where it was committed ...
    spared,   \* history: tokens the alarms so far did not see
    faults

tokenVars == <<tokens, grace, call, clock, given, lapsed, alarmed, closed, spared, faults>>

NoRow == [state |-> "none", family |-> None, parent |-> None]

Idle == [pc |-> "idle", token |-> None, new |-> None, rows |-> {}, todo |-> {}]

Committed(t) == tokens[t].state \in {"live", "revoked"}

\* router.py:110-194.  A call holds only the rows its open transaction changed.
TokensTypeOK ==
    /\ tokens \in [Tokens -> [state  : {"none", "new", "live", "revoked"},
                              family : Tokens \cup {None},
                              parent : Tokens \cup {None}]]
    /\ grace \in [Tokens -> Tokens \cup {None}]
    /\ call \in [Calls -> [pc    : {"idle", "revoke", "insert", "commit", "grace", "lookup",
                                    "read", "alarm", "sweep", "expire", "end"},
                           token : Tokens \cup {None},
                           new   : Tokens \cup {None},
                           rows  : SUBSET Tokens,
                           todo  : SUBSET Tokens]]
    /\ clock \in Nat
    /\ given \in [Tokens \cup {None} -> SUBSET Tokens]
    /\ lapsed \subseteq Tokens
    /\ alarmed \subseteq Tokens /\ closed \subseteq Tokens /\ spared \subseteq Tokens
    /\ faults \in 0 .. MaxFaults
    /\ \A c \in Calls :
          call[c].pc \in {"idle", "revoke", "lookup", "read", "alarm"} => call[c].rows = {}

TokensInit ==
    /\ tokens = [t \in Tokens |-> NoRow]
    /\ grace = [t \in Tokens |-> None]
    /\ call = [c \in Calls |-> Idle]
    /\ clock = 0
    /\ given = [t \in Tokens \cup {None} |-> {}]
    /\ lapsed = {} /\ alarmed = {} /\ closed = {} /\ spared = {} /\ faults = 0

-----------------------------------------------------------------------------
(* Rows, locks and transactions *)

Family(t) == tokens[t].family

\* expires_at has passed, seen from the row.
Ended(t) == clock >= 2 * t - 1

\* What a client may present: a token it was given, whose JWT still decodes.
Known(t) == clock < 2 * t /\ \E s \in Tokens \cup {None} : t \in given[s]

\* No other open transaction has changed the row.
Free(c, t) == \A d \in Calls \ {c} : t \notin call[d].rows

At(c, pc) == call[c].pc = pc

Turn(c, r) == call' = [call EXCEPT ![c] = r]

Goto(c, pc) == Turn(c, [call[c] EXCEPT !.pc = pc])

Fault == faults < MaxFaults /\ faults' = faults + 1

\* What the commit of c makes of the rows.
CommittedRow(c, t) ==
    IF t = call[c].new THEN [tokens[t] EXCEPT !.state = "live"]
    ELSE IF t \in call[c].rows THEN [tokens[t] EXCEPT !.state = "revoked"]
    ELSE tokens[t]

\* A plausible slip: the commit is forgotten.
NoCommit(c) == UNCHANGED tokens

CommitRows(c) == tokens' = [t \in Tokens |-> CommittedRow(c, t)]

\* A plausible slip: the revocation is kept when the insert fails.
KeepRevocation(c) ==
    tokens' = [t \in Tokens |->
                  IF t = call[c].new THEN NoRow
                  ELSE IF t \in call[c].rows THEN [tokens[t] EXCEPT !.state = "revoked"]
                  ELSE tokens[t]]

RollbackRows(c) == tokens' = [t \in Tokens |-> IF t = call[c].new THEN NoRow ELSE tokens[t]]

\* A plausible slip: the transaction is left open.
LeaveOpen(c) == Turn(c, [Idle EXCEPT !.rows = call[c].rows])

\* The session is closed: locks are gone.
CloseCall(c) == Turn(c, Idle)

\* The client gets t for the token it presented.
Answer(c, t) == given' = [given EXCEPT ![call[c].token] = @ \cup {t}]

-----------------------------------------------------------------------------
(* Issuing and exchanging a token *)

\* The password was right.
Login(c) ==
    /\ At(c, "idle")
    /\ Goto(c, "insert")
    /\ UNCHANGED <<tokens, grace, clock, given, lapsed, alarmed, closed, spared, faults>>

\* A JWT that decodes: the condition on expires_at takes its time now.
Refresh(c, j) ==
    /\ At(c, "idle")
    /\ Known(j)
    /\ Turn(c, [Idle EXCEPT !.token = j, !.pc = IF Ended(j) THEN "lookup" ELSE "revoke"])
    /\ UNCHANGED <<tokens, grace, clock, given, lapsed, alarmed, closed, spared, faults>>

\* A plausible slip: is_revoked is not in the condition.
AnyRow(c) == Committed(call[c].token)

Revocable(c) == tokens[call[c].token].state = "live"

\* The conditional UPDATE: no row, or the row once nobody else holds it.
Revoke(c) ==
    /\ At(c, "revoke")
    /\ \/ ~Revocable(c) /\ Goto(c, "lookup")
       \/ /\ Revocable(c) /\ Free(c, call[c].token)
          /\ Turn(c, [call[c] EXCEPT !.pc = "insert", !.rows = {call[c].token}])
    /\ UNCHANGED <<tokens, grace, clock, given, lapsed, alarmed, closed, spared, faults>>

\* Row ids grow.
NextRow == {t \in Tokens : /\ \A s \in Tokens : s >= t => tokens[s].state = "none"
                           /\ t # 1 => tokens[t - 1].state # "none"}

Insert(c) ==
    /\ At(c, "insert")
    /\ \E n \in NextRow :
          /\ tokens' = [tokens EXCEPT ![n] =
                 [state  |-> "new",
                  family |-> IF call[c].token = None THEN n ELSE Family(call[c].token),
                  parent |-> call[c].token]]
          /\ Turn(c, [call[c] EXCEPT !.pc = "commit", !.new = n])
    /\ UNCHANGED <<grace, clock, given, lapsed, alarmed, closed, spared, faults>>

\* The jti is taken: 409.
Conflict(c) ==
    /\ At(c, "insert")
    /\ Fault
    /\ RollbackRows(c)
    /\ CloseCall(c)
    /\ UNCHANGED <<grace, clock, given, lapsed, alarmed, closed, spared>>

Sweeping(f) == \E d \in Calls : At(d, "sweep") /\ Family(call[d].token) = f

\* A token that is committed while its family is swept, or comes from such a
\* token: no sweep that began so far has seen it.
NoteRotation(c) ==
    spared' = spared \cup {n \in {call[c].new} : Sweeping(Family(n)) \/ call[c].token \in spared}

\* A login is answered; a rotation leaves its grace entry first.
Commit(c) ==
    /\ At(c, "commit")
    /\ CommitRows(c)
    /\ NoteRotation(c)
    /\ \/ call[c].token = None /\ Answer(c, call[c].new) /\ CloseCall(c)
       \/ /\ call[c].token # None /\ UNCHANGED given
          /\ Turn(c, [call[c] EXCEPT !.pc = "grace", !.rows = {}])
    /\ UNCHANGED <<grace, clock, lapsed, alarmed, closed, faults>>

\* The commit raises although it was executed: 500.
CommitFails(c) ==
    /\ At(c, "commit")
    /\ Fault
    /\ CommitRows(c)
    /\ NoteRotation(c)
    /\ CloseCall(c)
    /\ UNCHANGED <<grace, clock, given, lapsed, alarmed, closed>>

\* A plausible slip: the entry is stored under the new token.
StoreUnderNew(c) == grace' = [grace EXCEPT ![call[c].new] = call[c].new]

\* SET jti .. EX 30
StoreGrace(c) == grace' = [grace EXCEPT ![call[c].token] = call[c].new]

SetGrace(c) ==
    /\ At(c, "grace")
    /\ StoreGrace(c)
    /\ Answer(c, call[c].new)
    /\ CloseCall(c)
    /\ UNCHANGED <<tokens, clock, lapsed, alarmed, closed, spared, faults>>

\* The client does not learn its new token.
SetGraceFails(c) ==
    /\ At(c, "grace")
    /\ Fault
    /\ StoreGrace(c) \/ UNCHANGED grace
    /\ CloseCall(c)
    /\ UNCHANGED <<tokens, clock, given, lapsed, alarmed, closed, spared>>

-----------------------------------------------------------------------------
(* A token that cannot be exchanged *)

\* The row is read anew: it was revoked, or its lifetime is over.
Lookup(c) ==
    /\ At(c, "lookup")
    /\ Goto(c, IF tokens[call[c].token].state = "revoked" THEN "read" ELSE "expire")
    /\ UNCHANGED <<tokens, grace, clock, given, lapsed, alarmed, closed, spared, faults>>

\* GET jti: the pair that was answered before.
GraceHit(c) ==
    /\ At(c, "read")
    /\ grace[call[c].token] # None
    /\ Answer(c, grace[call[c].token])
    /\ CloseCall(c)
    /\ UNCHANGED <<tokens, grace, clock, lapsed, alarmed, closed, spared, faults>>

GraceMiss(c) ==
    /\ At(c, "read")
    /\ grace[call[c].token] = None
    /\ Goto(c, "alarm")
    /\ alarmed' = alarmed \cup {Family(call[c].token)}
    /\ UNCHANGED <<tokens, grace, clock, given, lapsed, closed, spared, faults>>

\* UPDATE of the family: the rows its statement sees ...
StartSweep(c) ==
    /\ At(c, "alarm")
    /\ Turn(c, [call[c] EXCEPT !.pc = "sweep",
                  !.todo = {t \in Tokens : Committed(t) /\ Family(t) = Family(call[c].token)}])
    /\ UNCHANGED <<tokens, grace, clock, given, lapsed, alarmed, closed, spared, faults>>

\* A plausible slip: SKIP LOCKED.
SkipLocked(c) == {t \in call[c].todo : Free(c, t)}

Unswept(c) == call[c].todo

\* ... are changed one after the other, each when nobody else holds it.
SweepRow(c) ==
    /\ At(c, "sweep")
    /\ \E t \in Unswept(c) :
          /\ \A s \in Unswept(c) : t <= s
          /\ Free(c, t)
          /\ Turn(c, [call[c] EXCEPT !.rows = @ \cup {t}, !.todo = @ \ {t}])
    /\ UNCHANGED <<tokens, grace, clock, given, lapsed, alarmed, closed, spared, faults>>

\* 401 for every token of the family that was seen.
CommitAlarm(c) ==
    /\ At(c, "sweep")
    /\ Unswept(c) = {}
    /\ CommitRows(c)
    /\ closed' = closed \cup {Family(call[c].token)}
    /\ spared' = spared \ (call[c].rows \cup call[c].todo)
    /\ CloseCall(c)
    /\ UNCHANGED <<grace, clock, given, lapsed, alarmed, faults>>

\* revoke_refresh_token of a row whose lifetime is over ...
RevokeExpired(c) ==
    /\ At(c, "expire")
    /\ Free(c, call[c].token)
    /\ Turn(c, [call[c] EXCEPT !.pc = "end", !.rows = {call[c].token}])
    /\ UNCHANGED <<tokens, grace, clock, given, lapsed, alarmed, closed, spared, faults>>

\* ... and its commit.
CommitExpired(c) ==
    /\ At(c, "end")
    /\ CommitRows(c)
    /\ CloseCall(c)
    /\ UNCHANGED <<grace, clock, given, lapsed, alarmed, closed, spared, faults>>

\* A statement or Redis raises, the client goes away, the process dies: 500.
CallFails(c) ==
    /\ ~At(c, "idle") /\ ~At(c, "grace")
    /\ Fault
    /\ RollbackRows(c)
    /\ CloseCall(c)
    /\ UNCHANGED <<grace, clock, given, lapsed, alarmed, closed, spared>>

-----------------------------------------------------------------------------
(* Time *)

\* Thirty seconds, or a restart of Redis.
Lapse(j) ==
    /\ grace[j] # None
    /\ grace' = [grace EXCEPT ![j] = None]
    /\ lapsed' = lapsed \cup {j}
    /\ UNCHANGED <<tokens, call, clock, given, alarmed, closed, spared, faults>>

\* The oldest token ends: first its row, then its JWT.
Tick ==
    /\ clock < 2 * MaxEnded
    /\ clock \div 2 + 1 \in {t \in Tokens : Committed(t)}
    /\ clock' = clock + 1
    /\ UNCHANGED <<tokens, grace, call, given, lapsed, alarmed, closed, spared, faults>>

CallStep(c) ==
    \/ Revoke(c) \/ Insert(c) \/ Commit(c) \/ SetGrace(c)
    \/ Lookup(c) \/ GraceHit(c) \/ GraceMiss(c)
    \/ StartSweep(c) \/ SweepRow(c) \/ CommitAlarm(c)
    \/ RevokeExpired(c) \/ CommitExpired(c)

FailStep(c) == Conflict(c) \/ CommitFails(c) \/ SetGraceFails(c) \/ CallFails(c)

TokensNext ==
    \/ \E c \in Calls : Login(c) \/ CallStep(c) \/ FailStep(c)
    \/ \E c \in Calls, j \in Tokens : Refresh(c, j)
    \/ \E j \in Tokens : Lapse(j)
    \/ Tick

TokensSpec == TokensInit /\ [][TokensNext]_tokenVars

\* A request that began goes on, and PostgreSQL hands a row to those that wait
\* for it in their order: no call is passed over for ever.
TokensFairSpec == TokensSpec /\ \A c \in Calls : SF_tokenVars(CallStep(c))

-----------------------------------------------------------------------------
(* Properties *)

\* service.py:76-82.  Whatever calls race, fail or are repeated, a family has
\* at most one token that can be exchanged.
OneLive ==
    \A s, t \in Tokens :
        tokens[s].state = "live" /\ tokens[t].state = "live" /\ Family(s) = Family(t) => s = t

\* router.py:142-155, 190-194.  One token is exchanged once: every answer to
\* it, the first and those of its retries, carries the same successor.
SamePair == \A j, s, t \in Tokens : s \in given[j] /\ t \in given[j] => s = t

\* router.py:188-190.  What a client was given, and what it may be given from
\* the grace entry, is committed: no rollback takes it back.
GivenIsStored ==
    \A t \in Tokens :
        \/ Committed(t)
        \/ \A j \in Tokens \cup {None} : t \notin given[j] /\ (j # None => grace[j] # t)

\* router.py:140-186.  No call that breaks off in between loses a session: a
\* token without a successor is revoked only by an alarm or at its end.
SessionKept ==
    \A t \in Tokens :
        tokens[t].state = "revoked" =>
            \/ Ended(t)
            \/ Family(t) \in alarmed
            \/ \E s \in Tokens : tokens[s].parent = t /\ Committed(s)

\* router.py:149-153, service.py:102-109.  An alarm leaves no token of its
\* family to exchange, but one that was committed while the rows were revoked,
\* which the statement does not see, and what that one is exchanged for.  Not
\* for ever: the next alarm of the family sees these too.
AlarmCloses ==
    \A t \in Tokens :
        Family(t) \in closed /\ tokens[t].state = "live" => t \in spared

\* README.md:193, against service.py:102-109.  "If a previously revoked token is
\* reused, the system detects a potential replay attack and immediately
\* invalidates the entire family": once the alarm is committed, no token of the
\* family can be exchanged.
FamilyInvalidated ==
    \A t \in Tokens : Family(t) \in closed => tokens[t].state # "live"

\* router.py:148-155, 188-190.  A token that was exchanged raises an alarm only
\* when its grace entry ran out, its lifetime was over, its family had an alarm
\* before, or something failed - or in the moment between the commit of the
\* exchange and the SET of the entry.
AlarmForCause ==
    [][ \A c \in Calls : GraceMiss(c) =>
          LET j == call[c].token IN
          \/ j \in lapsed \/ Ended(j) \/ Family(j) \in alarmed \/ faults > 0
          \/ \E d \in Calls : At(d, "grace") /\ call[d].token = j ]_tokenVars

\* README.md:215-216.  A retry within the grace period is answered with the
\* same pair instead of triggering a false alarm.
NoFalseAlarm ==
    [][ \A c \in Calls : GraceMiss(c) =>
          LET j == call[c].token IN
          j \in lapsed \/ Ended(j) \/ Family(j) \in alarmed \/ faults > 0 ]_tokenVars

\* router.py:140-194.  Every call ends, though calls wait for each other's
\* rows (until the rows of the model are used up).
CallsEnd == \A c \in Calls : ~At(c, "idle") ~> At(c, "idle") \/ NextRow = {}
=============================================================================
