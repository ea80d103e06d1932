------------------------- MODULE RefreshTokensProofs -------------------------
(***************************************************************************)
(* Why the properties of RefreshTokens hold for any number of calls,       *)
(* tokens and failures: TokensInv is inductive.  A step either leaves the  *)
(* rows alone, adds one row, takes it back or commits; for each of these   *)
(* kinds a lemma says what the other calls may go on to rely on.           *)
(***************************************************************************)
EXTENDS RefreshTokensInv, TLAPS

PCs == {"idle", "revoke", "insert", "commit", "grace", "lookup",
        "read", "alarm", "sweep", "expire", "end"}

Records == [pc    : PCs,
            token : Tokens \cup {None},
            new   : Tokens \cup {None},
            rows  : SUBSET Tokens,
            todo  : SUBSET Tokens]

RowType == [state  : {"none", "new", "live", "revoked"},
            family : Tokens \cup {None},
            parent : Tokens \cup {None}]

NoRows(r) == r.pc \in {"idle", "revoke", "lookup", "read", "alarm"} => r.rows = {}

LEMMA TypeParts ==
  TokensTypeOK <=> /\ tokens \in [Tokens -> RowType]
                   /\ grace \in [Tokens -> Tokens \cup {None}]
                   /\ call \in [Calls -> Records]
                   /\ clock \in Nat
                   /\ given \in [Tokens \cup {None} -> SUBSET Tokens]
                   /\ lapsed \subseteq Tokens
                   /\ alarmed \subseteq Tokens /\ closed \subseteq Tokens /\ spared \subseteq Tokens
                   /\ faults \in 0 .. MaxFaults
                   /\ \A c \in Calls : NoRows(call[c])
BY DEF TokensTypeOK, Records, PCs, RowType, NoRows

LEMMA NextTypeParts ==
  ASSUME tokens' \in [Tokens -> RowType],
         grace' \in [Tokens -> Tokens \cup {None}],
         call' \in [Calls -> Records],
         clock' \in Nat,
         given' \in [Tokens \cup {None} -> SUBSET Tokens],
         lapsed' \subseteq Tokens,
         alarmed' \subseteq Tokens, closed' \subseteq Tokens, spared' \subseteq Tokens,
         faults' \in 0 .. MaxFaults,
         \A c \in Calls : NoRows(call'[c])
  PROVE  TokensTypeOK'
BY DEF TokensTypeOK, Records, PCs, RowType, NoRows

LEMMA InitInv == TokensInit => TokensInv
<1> SUFFICES ASSUME TokensInit PROVE TokensInv
    OBVIOUS
<1> USE DEF TokensInit
<1>1. TokensTypeOK
  BY TokenAssumption DEF TokensTypeOK, NoRow, Idle
<1>2. \A t \in Tokens : tokens[t].state = "none" /\ tokens[t] = NoRow
  BY DEF NoRow
<1>3. RowsOK /\ SuccessorsOK /\ OneLive /\ SessionKept /\ AlarmCloses
  BY <1>2 DEF RowsOK, SuccessorsOK, OneLive, SessionKept, AlarmCloses, Committed
<1>4. \A c \in Calls : CallOK(c)
  BY TokenAssumption DEF CallOK, Idle
<1>5. LocksOK /\ SweepsOK /\ GraceKept
  BY <1>2 DEF LocksOK, SweepsOK, GraceKept, Committed, At, Idle
<1>6. GivenOK
  BY TokenAssumption DEF GivenOK
<1> QED
  BY <1>1, <1>3, <1>4, <1>5, <1>6 DEF TokensInv

-----------------------------------------------------------------------------
(* What a step leaves as it was. *)

\* Committed rows stay, whatever else happens to the table.
Kept ==
    \A t \in Tokens :
        /\ Committed(t) => Committed(t)' /\ Family(t)' = Family(t) /\ Parent(t)' = Parent(t)
        /\ Revoked(t) => Revoked(t)'

\* The knowledge of a call that did not move.
LEMMA OtherCall ==
  ASSUME TokensTypeOK, NEW d \in Calls, CallOK(d), call'[d] = call[d], Kept,
         \A t \in call[d].rows : tokens'[t] = tokens[t],
         call[d].pc = "commit" => tokens'[call[d].new] = tokens[call[d].new],
         clock' \in Nat, clock' >= clock, alarmed \subseteq alarmed'
  PROVE  CallOK(d)'
<1> DEFINE r == call[d]
<1>1. r \in Records
  BY TypeParts
<1>2. \A t \in Tokens : Ended(t) => Ended(t)'
  BY TypeParts DEF Ended, Tokens
<1>3. r.token # None => Committed(r.token)' /\ Family(r.token)' = Family(r.token)
  BY <1>1 DEF CallOK, Kept, Records
<1>4. r.pc \in {"insert", "commit"} /\ r.token # None => Live(r.token)'
  BY <1>1 DEF CallOK, Live, Records
<1>5. r.pc = "commit" => tokens'[r.new] = tokens[r.new]
  BY <1>1 DEF CallOK
<1>6. r.pc = "grace" => Committed(r.new)' /\ Parent(r.new)' = Parent(r.new)
  BY <1>1 DEF CallOK, Kept
<1>7. r.pc = "lookup" => Ended(r.token)' \/ Revoked(r.token)'
  BY <1>1, <1>2 DEF CallOK, Kept, Records
<1>8. r.pc \in {"read", "alarm", "sweep"} => Revoked(r.token)'
  BY <1>1 DEF CallOK, Kept, Records
<1>9. r.pc = "sweep" =>
         \A t \in r.rows \cup r.todo : Committed(t)' /\ Family(t)' = Family(r.token)'
  <2> SUFFICES ASSUME r.pc = "sweep", NEW t \in r.rows \cup r.todo
               PROVE  Committed(t)' /\ Family(t)' = Family(r.token)'
    OBVIOUS
  <2>1. t \in Tokens /\ Committed(t) /\ Family(t) = Family(r.token) /\ r.token # None
    BY <1>1 DEF CallOK, Records
  <2> QED
    BY <2>1, <1>3 DEF Kept
<1>10. r.pc \in {"expire", "end"} => Ended(r.token)'
  BY <1>1, <1>2 DEF CallOK, Records
<1>11. r.pc \in {"alarm", "sweep"} => Family(r.token)' \in alarmed'
  BY <1>1, <1>3 DEF CallOK
<1> HIDE DEF r
<1>12. CallOK(d) => CallOK(d)'
  BY <1>3, <1>4, <1>5, <1>6, <1>7, <1>8, <1>9, <1>10, <1>11 DEF CallOK, r, Parent
<1> QED
  BY <1>12

LEMMA AlwaysCommitted == ASSUME UNCHANGED tokens PROVE Kept
BY DEF Kept, Committed, Family, Parent, Revoked

\* The call c moves, the rows stay as they are.
LEMMA MoveInv ==
  ASSUME TokensInv, TokensTypeOK', UNCHANGED <<tokens, closed, spared>>, NEW c \in Calls,
         \A d \in Calls \ {c} : call'[d] = call[d], CallOK(c)',
         clock' >= clock, alarmed \subseteq alarmed',
         call[c].pc # "commit", call'[c].pc # "commit",
         \A d \in Calls \ {c} : call'[c].rows \cap call[d].rows = {},
         \A t \in Tokens : call'[c].pc = "sweep" /\ Live(t) /\ Family(t) = Family(call'[c].token)
            => t \in call'[c].rows \cup call'[c].todo \/ t \in spared,
         GivenOK', GraceKept'
  PROVE  TokensInv'
<1> USE DEF TokensInv
<1>1. \A d \in Calls : CallOK(d)'
  <2> TAKE d \in Calls
  <2>1. CASE d = c
    BY <2>1
  <2>2. CASE d # c
    <3>1. clock' \in Nat
      BY TypeParts DEF TokensTypeOK
    <3> QED
      BY <2>2, <3>1, AlwaysCommitted, OtherCall
  <2> QED
    BY <2>1, <2>2
<1>2. RowsOK' /\ SuccessorsOK' /\ OneLive' /\ AlarmCloses'
  BY DEF RowsOK, SuccessorsOK, OneLive, AlarmCloses, Family, Parent, Committed, Revoked
<1>3. LocksOK'
  BY DEF LocksOK, At
<1>4. SessionKept'
  <2>1. \A t \in Tokens : Ended(t) => Ended(t)'
    BY TypeParts DEF TokensTypeOK, Ended, Tokens
  <2> QED
    BY <2>1 DEF SessionKept, Family, Committed
<1>5. SweepsOK'
  <2>1. closed' \subseteq {f \in Tokens : Committed(f)'}
    BY DEF SweepsOK, Committed
  <2>2. ASSUME NEW d \in Calls, NEW t \in Tokens,
               At(d, "sweep")', Live(t)', Family(t)' = Family(call[d].token)'
        PROVE  t \in call'[d].rows \cup call'[d].todo \/ t \in spared'
    <3>1. CASE d = c
      BY <2>2, <3>1 DEF At, Live, Family
    <3>2. CASE d # c
      BY <2>2, <3>2 DEF SweepsOK, At, Live, Family
    <3> QED
      BY <3>1, <3>2
  <2> QED
    BY <2>1, <2>2 DEF SweepsOK
<1> QED
  BY <1>1, <1>2, <1>3, <1>4, <1>5

LEMMA SameGiven ==
  ASSUME GivenOK, UNCHANGED <<tokens, given, grace>>
  PROVE  GivenOK'
BY DEF GivenOK, Committed, Parent

\* A call that does not leave "grace", or leaves the entry, owes none.
LEMMA SameGrace ==
  ASSUME GraceKept, TokensTypeOK, UNCHANGED tokens, NEW c \in Calls,
         \A j \in Tokens : grace[j] # None => grace'[j] # None \/ j \in lapsed',
         lapsed \subseteq lapsed', faults' \in Nat, faults' >= faults,
         \A d \in Calls \ {c} : call'[d] = call[d], call[c].pc # "grace" \/ faults' > 0 \/ grace'[call[c].token] # None
  PROVE  GraceKept'
<1>1. SUFFICES ASSUME NEW n \in Tokens, Committed(n)', Parent(n)' # None
               PROVE  LET j == Parent(n)' IN
                      \/ j \in lapsed' \/ faults' > 0 \/ grace'[j] # None
                      \/ \E d \in Calls : At(d, "grace")' /\ call'[d].token = j
  BY DEF GraceKept
<1> DEFINE j == Parent(n)
<1>2. Committed(n) /\ j = Parent(n)' /\ j # None /\ j \in Tokens
  BY <1>1, TypeParts DEF Committed, Parent, RowType
<1>3. CASE j \in lapsed \/ faults > 0
  BY <1>2, <1>3, TypeParts
<1>4. CASE grace[j] # None
  BY <1>2, <1>4
<1>5. CASE \E d \in Calls : At(d, "grace") /\ call[d].token = j
  BY <1>2, <1>5 DEF At
<1> QED
  BY <1>2, <1>3, <1>4, <1>5 DEF GraceKept

-----------------------------------------------------------------------------
(* The steps of a call that leave the rows alone. *)

LEMMA TurnMoves ==
  ASSUME TokensTypeOK, NEW c \in Calls, NEW q \in Records, NoRows(q), Turn(c, q)
  PROVE  /\ call' \in [Calls -> Records]
         /\ \A d \in Calls : NoRows(call'[d])
         /\ call'[c] = q
         /\ \A d \in Calls \ {c} : call'[d] = call[d]
BY TypeParts DEF Turn

LEMMA IdleRecord == Idle \in Records /\ NoRows(Idle)
BY DEF Idle, Records, PCs, NoRows

\* A move that answers nobody, stores nothing and does not begin a revocation.
LEMMA QuietMove ==
  ASSUME TokensInv, NEW c \in Calls, NEW q \in Records, NoRows(q), Turn(c, q),
         UNCHANGED <<tokens, grace, clock, given, lapsed, closed, spared, faults>>,
         alarmed \subseteq alarmed', alarmed' \subseteq Tokens,
         call[c].pc \notin {"commit", "grace"}, q.pc \notin {"commit", "sweep"},
         \A d \in Calls \ {c} : q.rows \cap call[d].rows = {},
         call'[c] = q => CallOK(c)'
  PROVE  TokensInv'
<1>1. TokensTypeOK /\ clock' >= clock /\ faults' \in Nat /\ faults' >= faults
  BY TypeParts DEF TokensInv
<1>2. /\ call' \in [Calls -> Records] /\ \A d \in Calls : NoRows(call'[d])
      /\ call'[c] = q /\ \A d \in Calls \ {c} : call'[d] = call[d]
  BY <1>1, TurnMoves
<1>3. TokensTypeOK'
  BY <1>1, <1>2, TypeParts, NextTypeParts
<1>4. GivenOK' /\ GraceKept'
  BY <1>1, <1>2, SameGiven, SameGrace DEF TokensInv
<1> QED
  BY <1>1, <1>2, <1>3, <1>4, MoveInv

LEMMA LoginInv ==
  ASSUME TokensInv, NEW c \in Calls, Login(c)
  PROVE  TokensInv'
<1> DEFINE q == [call[c] EXCEPT !.pc = "insert"]
<1>1. call[c] = Idle /\ q = [Idle EXCEPT !.pc = "insert"] /\ Turn(c, q)
  BY DEF TokensInv, CallOK, Login, At, Goto
<1>2. q \in Records /\ NoRows(q)
  BY <1>1 DEF Idle, Records, PCs, NoRows
<1>3. call'[c] = q => CallOK(c)'
  BY <1>1 DEF CallOK, Idle
<1> QED
  BY <1>1, <1>2, <1>3, QuietMove, TypeParts DEF Login, Idle, TokensInv

LEMMA RefreshInv ==
  ASSUME TokensInv, NEW c \in Calls, NEW j \in Tokens, Refresh(c, j)
  PROVE  TokensInv'
<1> DEFINE q == [Idle EXCEPT !.token = j, !.pc = IF Ended(j) THEN "lookup" ELSE "revoke"]
<1>1. call[c] = Idle /\ Turn(c, q)
  BY DEF TokensInv, CallOK, Refresh, At
<1>2. q \in Records /\ NoRows(q)
  BY DEF Idle, Records, PCs, NoRows
<1>3. Committed(j)
  BY DEF TokensInv, GivenOK, Refresh, Known
<1>4. call'[c] = q => CallOK(c)'
  BY <1>3, TokenAssumption DEF CallOK, Idle, Refresh, Committed, Ended
<1>5. /\ call[c].pc = "idle" /\ q.rows = {} /\ q.pc \in {"lookup", "revoke"}
      /\ alarmed \subseteq Tokens
  BY <1>1, TypeParts DEF Idle, TokensInv
<1> HIDE DEF q
<1> QED
  BY <1>1, <1>2, <1>4, <1>5, QuietMove DEF Refresh

LEMMA RevokeInv ==
  ASSUME TokensInv, NEW c \in Calls, Revoke(c)
  PROVE  TokensInv'
<1> DEFINE r == call[c]
           j == r.token
<1>1. /\ r \in Records /\ r.pc = "revoke" /\ r.rows = {} /\ r.new = None
      /\ j \in Tokens /\ Committed(j) /\ alarmed \subseteq Tokens
  BY TypeParts DEF TokensInv, CallOK, Revoke, At, Records, NoRows
<1>2. CASE ~Revocable(c) /\ Goto(c, "lookup")
  <2> DEFINE q == [r EXCEPT !.pc = "lookup"]
  <2>1. q \in Records /\ q.pc = "lookup" /\ q.token = j /\ q.rows = {} /\ q.new = None
    BY <1>1 DEF Records, PCs
  <2>2. Revoked(j)
    BY <1>1, <1>2 DEF Revocable, Committed, Revoked
  <2>3. call'[c] = q => CallOK(c)'
    BY <1>1, <2>1, <2>2, TokenAssumption DEF CallOK, Revoke, Committed, Revoked
  <2>4. Turn(c, q)
    BY <1>2 DEF Goto
  <2> HIDE DEF q
  <2> QED
    BY <1>1, <2>1, <2>3, <2>4, QuietMove DEF Revoke, NoRows
<1>3. CASE /\ Revocable(c) /\ Free(c, j)
           /\ Turn(c, [r EXCEPT !.pc = "insert", !.rows = {j}])
  <2> DEFINE q == [r EXCEPT !.pc = "insert", !.rows = {j}]
  <2>1. q \in Records /\ q.pc = "insert" /\ q.token = j /\ q.rows = {j} /\ q.new = None
    BY <1>1 DEF Records, PCs
  <2>2. call'[c] = q => CallOK(c)'
    BY <1>1, <1>3, <2>1, TokenAssumption DEF CallOK, Revoke, Committed, Revocable, Live
  <2>3. \A d \in Calls \ {c} : q.rows \cap call[d].rows = {}
    BY <1>3, <2>1 DEF Free
  <2>4. Turn(c, q)
    BY <1>3
  <2> HIDE DEF q
  <2> QED
    BY <1>1, <2>1, <2>2, <2>3, <2>4, QuietMove DEF Revoke, NoRows
<1> QED
  BY <1>2, <1>3 DEF Revoke

LEMMA LookupInv ==
  ASSUME TokensInv, NEW c \in Calls, Lookup(c)
  PROVE  TokensInv'
<1> DEFINE r == call[c]
           j == r.token
           pc == IF tokens[j].state = "revoked" THEN "read" ELSE "expire"
           q == [r EXCEPT !.pc = pc]
<1>1. /\ r \in Records /\ r.pc = "lookup" /\ r.rows = {} /\ r.new = None
      /\ j \in Tokens /\ Committed(j) /\ alarmed \subseteq Tokens
      /\ Ended(j) \/ Revoked(j)
  BY TypeParts DEF TokensInv, CallOK, Lookup, At, Records, NoRows
<1>2. pc \in {"read", "expire"} /\ (pc = "read" => Revoked(j)) /\ (pc = "expire" => Ended(j))
  BY <1>1 DEF Revoked
<1>3. Turn(c, q)
  BY DEF Lookup, Goto
<1> HIDE DEF pc
<1>4. q \in Records /\ q.pc = pc /\ q.token = j /\ q.rows = {} /\ q.new = None
  <2>1. pc \in PCs
    BY <1>2 DEF PCs
  <2> QED
    BY <1>1, <2>1 DEF Records
<1> HIDE DEF q
<1>5. call'[c] = q => CallOK(c)'
  BY <1>1, <1>2, <1>4, TokenAssumption DEF CallOK, Lookup, Committed, Revoked, Ended
<1> QED
  BY <1>1, <1>2, <1>3, <1>4, <1>5, QuietMove DEF Lookup, NoRows

LEMMA GraceMissInv ==
  ASSUME TokensInv, NEW c \in Calls, GraceMiss(c)
  PROVE  TokensInv'
<1> DEFINE r == call[c]
           j == r.token
           q == [r EXCEPT !.pc = "alarm"]
<1>1. /\ r \in Records /\ r.pc = "read" /\ r.rows = {} /\ r.new = None
      /\ j \in Tokens /\ Committed(j) /\ alarmed \subseteq Tokens /\ Revoked(j)
  BY TypeParts DEF TokensInv, CallOK, GraceMiss, At, Records, NoRows
<1>2. Turn(c, q)
  BY DEF GraceMiss, Goto
<1>3. Family(j) \in Tokens
  BY <1>1 DEF TokensInv, RowsOK, Committed
<1>4. q \in Records /\ q.pc = "alarm" /\ q.token = j /\ q.rows = {} /\ q.new = None
  BY <1>1 DEF Records, PCs
<1> HIDE DEF q
<1>5. call'[c] = q => CallOK(c)'
  BY <1>1, <1>4, TokenAssumption DEF CallOK, GraceMiss, Committed, Revoked, Family
<1> QED
  BY <1>1, <1>2, <1>3, <1>4, <1>5, QuietMove DEF GraceMiss, NoRows

LEMMA RevokeExpiredInv ==
  ASSUME TokensInv, NEW c \in Calls, RevokeExpired(c)
  PROVE  TokensInv'
<1> DEFINE r == call[c]
           j == r.token
           q == [r EXCEPT !.pc = "end", !.rows = {j}]
<1>1. /\ r \in Records /\ r.pc = "expire" /\ r.new = None
      /\ j \in Tokens /\ Committed(j) /\ alarmed \subseteq Tokens /\ Ended(j)
  BY TypeParts DEF TokensInv, CallOK, RevokeExpired, At, Records
<1>2. Turn(c, q) /\ \A d \in Calls \ {c} : j \notin call[d].rows
  BY DEF RevokeExpired, Free
<1>3. q \in Records /\ q.pc = "end" /\ q.token = j /\ q.rows = {j} /\ q.new = None
  BY <1>1 DEF Records, PCs
<1> HIDE DEF q
<1>4. call'[c] = q => CallOK(c)'
  BY <1>1, <1>3, TokenAssumption DEF CallOK, RevokeExpired, Committed, Ended
<1> QED
  BY <1>1, <1>2, <1>3, <1>4, QuietMove DEF RevokeExpired, NoRows

\* The session is closed.
LEMMA ClosedCall ==
  ASSUME NEW c \in Calls, call'[c] = Idle
  PROVE  /\ CallOK(c)'
         /\ call'[c].pc = "idle" /\ call'[c].rows = {}
BY TokenAssumption DEF CallOK, Idle

LEMMA GraceHitInv ==
  ASSUME TokensInv, NEW c \in Calls, GraceHit(c)
  PROVE  TokensInv'
<1> DEFINE j == call[c].token
<1>1. /\ TokensTypeOK /\ call[c] \in Records /\ call[c].pc = "read" /\ j \in Tokens
      /\ clock' >= clock /\ faults' \in Nat /\ faults' >= faults
      /\ GivenOK
  BY TypeParts DEF TokensInv, CallOK, GraceHit, At, Records
<1>2. /\ call' \in [Calls -> Records] /\ \A d \in Calls : NoRows(call'[d])
      /\ call'[c] = Idle /\ \A d \in Calls \ {c} : call'[d] = call[d]
  BY <1>1, IdleRecord, TurnMoves DEF GraceHit, CloseCall
<1>3. grace[j] \in Tokens /\ Committed(grace[j]) /\ Parent(grace[j]) = j
  BY <1>1, TypeParts DEF GraceHit, GivenOK
<1>4. given' \in [Tokens \cup {None} -> SUBSET Tokens]
  BY <1>1, <1>3, TypeParts DEF GraceHit, Answer
<1>5. TokensTypeOK'
  BY <1>1, <1>2, <1>4, TypeParts, NextTypeParts DEF GraceHit
<1>6. GivenOK'
  BY <1>1, <1>3, TypeParts, TokenAssumption DEF GivenOK, GraceHit, Answer, Committed, Parent
<1>7. GraceKept'
  BY <1>1, <1>2, SameGrace DEF TokensInv, GraceHit
<1> QED
  BY <1>1, <1>2, <1>5, <1>6, <1>7, ClosedCall, MoveInv DEF GraceHit

LEMMA SetGraceInv ==
  ASSUME TokensInv, NEW c \in Calls, SetGrace(c) \/ SetGraceFails(c)
  PROVE  TokensInv'
<1> DEFINE j == call[c].token
           n == call[c].new
<1>1. /\ TokensTypeOK /\ call[c] \in Records /\ call[c].pc = "grace" /\ j \in Tokens
      /\ clock' >= clock /\ faults' \in 0 .. MaxFaults /\ faults' \in Nat /\ faults' >= faults
      /\ GivenOK /\ n \in Tokens /\ Committed(n) /\ Parent(n) = j
  BY TypeParts, TokenAssumption
     DEF TokensInv, CallOK, SetGrace, SetGraceFails, At, Records, Fault
<1>2. /\ call' \in [Calls -> Records] /\ \A d \in Calls : NoRows(call'[d])
      /\ call'[c] = Idle /\ \A d \in Calls \ {c} : call'[d] = call[d]
  BY <1>1, IdleRecord, TurnMoves DEF SetGrace, SetGraceFails, CloseCall
<1>3. grace' = [grace EXCEPT ![j] = n] \/ (grace' = grace /\ faults' > 0)
  BY <1>1, TypeParts DEF SetGrace, SetGraceFails, StoreGrace, Fault
<1>4. given' = given \/ given' = [given EXCEPT ![j] = @ \cup {n}]
  BY DEF SetGrace, SetGraceFails, Answer
<1>5. /\ grace' \in [Tokens -> Tokens \cup {None}]
      /\ given' \in [Tokens \cup {None} -> SUBSET Tokens]
  BY <1>1, <1>3, <1>4, TypeParts
<1>6. TokensTypeOK'
  BY <1>1, <1>2, <1>5, TypeParts, NextTypeParts DEF SetGrace, SetGraceFails
<1>7. GivenOK'
  <2>1. UNCHANGED tokens
    BY DEF SetGrace, SetGraceFails
  <2>2. given'[None] = given[None]
    BY <1>1, <1>4, TypeParts, TokenAssumption
  <2>3. \A i \in Tokens : \A t \in given'[i] : Committed(t) /\ Parent(t) = i
    BY <1>1, <1>4, TypeParts DEF GivenOK
  <2>4. \A i \in Tokens : grace'[i] # None => Committed(grace'[i]) /\ Parent(grace'[i]) = i
    BY <1>1, <1>3, TypeParts DEF GivenOK
  <2> QED
    BY <1>1, <2>1, <2>2, <2>3, <2>4 DEF GivenOK, Committed, Parent
<1>8. GraceKept'
  <2>1. UNCHANGED <<tokens, lapsed>>
    BY DEF SetGrace, SetGraceFails
  <2>2. /\ \A i \in Tokens : grace[i] # None => grace'[i] # None
        /\ faults' > 0 \/ grace'[j] # None
    BY <1>1, <1>3, TypeParts, TokenAssumption
  <2> QED
    BY <1>1, <1>2, <2>1, <2>2, SameGrace DEF TokensInv
<1>9. UNCHANGED <<tokens, closed, spared, alarmed>>
  BY DEF SetGrace, SetGraceFails
<1> QED
  BY <1>1, <1>2, <1>6, <1>7, <1>8, <1>9, ClosedCall, MoveInv

LEMMA StartSweepInv ==
  ASSUME TokensInv, NEW c \in Calls, StartSweep(c)
  PROVE  TokensInv'
<1> DEFINE r == call[c]
           j == r.token
           S == {t \in Tokens : Committed(t) /\ Family(t) = Family(j)}
           q == [r EXCEPT !.pc = "sweep", !.todo = S]
<1>1. /\ TokensTypeOK /\ r \in Records /\ r.pc = "alarm" /\ r.rows = {} /\ r.new = None
      /\ j \in Tokens /\ Committed(j) /\ Revoked(j) /\ Family(j) \in alarmed
      /\ clock' >= clock /\ faults' \in Nat /\ faults' >= faults
  BY TypeParts DEF TokensInv, CallOK, StartSweep, At, Records, NoRows
<1>2. Turn(c, q)
  BY DEF StartSweep
<1>3. /\ q \in Records /\ NoRows(q) /\ q.pc = "sweep" /\ q.token = j
      /\ q.rows = {} /\ q.todo = S /\ q.new = None
  BY <1>1 DEF Records, PCs, NoRows
<1> HIDE DEF q
<1>4. /\ call' \in [Calls -> Records] /\ \A d \in Calls : NoRows(call'[d])
      /\ call'[c] = q /\ \A d \in Calls \ {c} : call'[d] = call[d]
  BY <1>1, <1>2, <1>3, TurnMoves
<1>5. TokensTypeOK'
  BY <1>1, <1>4, TypeParts, NextTypeParts DEF StartSweep
<1>6. CallOK(c)'
  BY <1>1, <1>3, <1>4, TokenAssumption DEF CallOK, StartSweep, Committed, Revoked, Family
<1>7. \A t \in Tokens : Live(t) /\ Family(t) = Family(q.token) => t \in q.rows \cup q.todo
  BY <1>3 DEF Live, Committed
<1>8. GivenOK' /\ GraceKept'
  BY <1>1, <1>4, SameGiven, SameGrace DEF TokensInv, StartSweep
<1> QED
  BY <1>1, <1>3, <1>4, <1>5, <1>6, <1>7, <1>8, MoveInv DEF StartSweep

LEMMA SweepRowInv ==
  ASSUME TokensInv, NEW c \in Calls, SweepRow(c)
  PROVE  TokensInv'
<1> DEFINE r == call[c]
           j == r.token
<1>1. /\ TokensTypeOK /\ r \in Records /\ r.pc = "sweep" /\ r.new = None
      /\ j \in Tokens /\ Committed(j) /\ Revoked(j) /\ Family(j) \in alarmed
      /\ \A s \in r.rows \cup r.todo : Committed(s) /\ Family(s) = Family(j)
      /\ clock' >= clock /\ faults' \in Nat /\ faults' >= faults
      /\ LocksOK /\ SweepsOK
  BY TypeParts DEF TokensInv, CallOK, SweepRow, At, Records
<1>2. PICK t \in r.todo : /\ Free(c, t)
                          /\ Turn(c, [r EXCEPT !.rows = @ \cup {t}, !.todo = @ \ {t}])
  BY DEF SweepRow, Unswept
<1> DEFINE q == [r EXCEPT !.rows = @ \cup {t}, !.todo = @ \ {t}]
<1>3. /\ q \in Records /\ NoRows(q) /\ q.pc = "sweep" /\ q.token = j
      /\ q.rows = r.rows \cup {t} /\ q.todo = r.todo \ {t} /\ q.new = None
  BY <1>1, <1>2 DEF Records, NoRows
<1> HIDE DEF q
<1>4. /\ call' \in [Calls -> Records] /\ \A d \in Calls : NoRows(call'[d])
      /\ call'[c] = q /\ \A d \in Calls \ {c} : call'[d] = call[d]
  BY <1>1, <1>2, <1>3, TurnMoves DEF q
<1>5. TokensTypeOK'
  BY <1>1, <1>4, TypeParts, NextTypeParts DEF SweepRow
<1>6. q.rows \cup q.todo = r.rows \cup r.todo
  BY <1>2, <1>3
<1>7. CallOK(c)'
  BY <1>1, <1>3, <1>4, <1>6, TokenAssumption DEF CallOK, SweepRow, Committed, Revoked, Family
<1>8. \A d \in Calls \ {c} : q.rows \cap call[d].rows = {}
  BY <1>1, <1>2, <1>3 DEF LocksOK, Free
<1>9. \A s \in Tokens : Live(s) /\ Family(s) = Family(q.token)
         => s \in q.rows \cup q.todo \/ s \in spared
  BY <1>1, <1>3, <1>6 DEF SweepsOK, At
<1>10. GivenOK' /\ GraceKept'
  BY <1>1, <1>4, SameGiven, SameGrace DEF TokensInv, SweepRow
<1> QED
  BY <1>1, <1>3, <1>4, <1>5, <1>7, <1>8, <1>9, <1>10, MoveInv DEF SweepRow

\* Time passes.
LEMMA TimeInv ==
  ASSUME TokensInv, Tick \/ \E j \in Tokens : Lapse(j)
  PROVE  TokensInv'
<1> USE DEF TokensInv
<1>1. /\ UNCHANGED <<tokens, call, given, alarmed, closed, spared, faults>>
      /\ clock \in Nat /\ clock' \in Nat /\ clock' >= clock
  BY TypeParts DEF Tick, Lapse
<1>2. /\ grace' \in [Tokens -> Tokens \cup {None}] /\ lapsed' \subseteq Tokens
      /\ \A j \in Tokens : grace'[j] \in {grace[j], None}
      /\ \A j \in Tokens : grace[j] # None => grace'[j] # None \/ j \in lapsed'
      /\ lapsed \subseteq lapsed'
  BY TypeParts DEF Tick, Lapse
<1>3. TokensTypeOK'
  BY <1>1, <1>2, TypeParts, NextTypeParts
<1>4. RowsOK' /\ SuccessorsOK' /\ OneLive' /\ AlarmCloses'
  BY <1>1 DEF RowsOK, SuccessorsOK, OneLive, AlarmCloses, Family, Parent, Committed, Revoked
<1>5. \A c \in Calls : CallOK(c)'
  BY <1>1, AlwaysCommitted, OtherCall
<1>6. LocksOK' /\ SweepsOK'
  BY <1>1 DEF LocksOK, SweepsOK, At, Live, Family, Committed
<1>7. GivenOK'
  BY <1>1, <1>2 DEF GivenOK, Committed, Parent
<1>8. SessionKept'
  <2>1. \A t \in Tokens : Ended(t) => Ended(t)'
    BY <1>1 DEF Ended, Tokens
  <2> QED
    BY <1>1, <2>1 DEF SessionKept, Family, Committed
<1>9. GraceKept'
  <2>1. SUFFICES ASSUME NEW n \in Tokens, Committed(n)', Parent(n)' # None
                 PROVE  LET j == Parent(n)' IN
                        \/ j \in lapsed' \/ faults' > 0 \/ grace'[j] # None
                        \/ \E c \in Calls : At(c, "grace")' /\ call'[c].token = j
    BY DEF GraceKept
  <2>2. Committed(n) /\ Parent(n) = Parent(n)' /\ Parent(n) \in Tokens
    BY <1>1, <2>1, TypeParts DEF Committed, Parent, RowType
  <2> QED
    BY <1>1, <1>2, <2>1, <2>2 DEF GraceKept, At
<1> QED
  BY <1>3, <1>4, <1>5, <1>6, <1>7, <1>8, <1>9

-----------------------------------------------------------------------------
(* The steps that add a row or take it back. *)

\* Locks are on committed rows, and the row of an open call is no such row.
LEMMA HeldRows ==
  ASSUME TokensInv, NEW d \in Calls
  PROVE  /\ call[d] \in Records
         /\ \A t \in call[d].rows : t \in Tokens /\ Committed(t)
         /\ At(d, "commit") => /\ call[d].new \in Tokens
                               /\ tokens[call[d].new].state = "new"
                               /\ ~Committed(call[d].new)
                               /\ call[d].new \notin call[d].rows
<1>1. call[d] \in Records /\ CallOK(d) /\ NoRows(call[d])
  BY TypeParts DEF TokensInv
<1>2. ASSUME NEW t \in call[d].rows
      PROVE  t \in Tokens /\ Committed(t)
  <2>1. call[d].token # None /\ t \in Tokens
    BY <1>1, <1>2 DEF CallOK, Records
  <2>2. CASE call[d].pc = "sweep"
    BY <1>1, <1>2, <2>1, <2>2 DEF CallOK
  <2>3. CASE call[d].pc # "sweep"
    <3>1. call[d].pc \in {"insert", "commit", "end"}
      BY <1>1, <1>2, <2>3 DEF CallOK, Records, PCs, NoRows
    <3> QED
      BY <1>1, <1>2, <2>1, <3>1 DEF CallOK
  <2> QED
    BY <2>1, <2>2, <2>3
<1>3. At(d, "commit") => /\ call[d].new \in Tokens
                         /\ tokens[call[d].new].state = "new"
  BY <1>1 DEF CallOK, At
<1> QED
  BY <1>1, <1>2, <1>3 DEF Committed

\* What depends on the committed rows alone.
LEMMA CommittedSame ==
  ASSUME TokensInv, NEW c \in Calls,
         \A t \in Tokens : Committed(t) \/ Committed(t)' => tokens'[t] = tokens[t],
         \A d \in Calls \ {c} : call'[d] = call[d],
         call[c].pc # "grace", call'[c].pc # "sweep",
         UNCHANGED <<grace, clock, given, lapsed, alarmed, closed, spared>>,
         faults' \in Nat, faults' >= faults
  PROVE  OneLive' /\ GivenOK' /\ SessionKept' /\ SweepsOK' /\ AlarmCloses' /\ GraceKept'
<1> USE DEF TokensInv
<1>1. /\ \A t \in Tokens : Committed(t) <=> Committed(t)'
      /\ \A t \in Tokens : Live(t) <=> Live(t)'
      /\ \A t \in Tokens : Revoked(t) <=> Revoked(t)'
      /\ \A t \in Tokens : Committed(t) => Family(t)' = Family(t) /\ Parent(t)' = Parent(t)
  BY DEF Committed, Live, Revoked, Family, Parent
<1>2. OneLive'
  BY <1>1 DEF OneLive, Live, Committed
<1>3. GivenOK'
  <2>1. \A j \in Tokens : given[j] \subseteq Tokens /\ (grace[j] # None => grace[j] \in Tokens)
    BY TypeParts
  <2>2. given[None] \subseteq Tokens
    BY TypeParts
  <2> QED
    BY <1>1, <2>1, <2>2 DEF GivenOK
<1>4. SessionKept'
  BY <1>1 DEF SessionKept, Committed, Revoked, Parent, Ended
<1>5. SweepsOK'
  <2>1. \A d \in Calls : At(d, "sweep") => call[d].token \in Tokens /\ Committed(call[d].token)
    BY TypeParts DEF CallOK, At, Records
  <2>2. \A t \in Tokens : Live(t) => Committed(t)
    BY DEF Live, Committed
  <2>3. closed' \subseteq {f \in Tokens : Committed(f)'}
    BY <1>1 DEF SweepsOK
  <2>4. ASSUME NEW d \in Calls, NEW t \in Tokens,
               At(d, "sweep")', Live(t)', Family(t)' = Family(call[d].token)'
        PROVE  t \in call'[d].rows \cup call'[d].todo \/ t \in spared'
    BY <1>1, <2>1, <2>2, <2>4 DEF SweepsOK, At
  <2> QED
    BY <2>3, <2>4 DEF SweepsOK
<1>6. AlarmCloses'
  BY <1>1 DEF AlarmCloses, Live, Committed
<1>7. GraceKept'
  <2>1. SUFFICES ASSUME NEW n \in Tokens, Committed(n)', Parent(n)' # None
                 PROVE  LET j == Parent(n)' IN
                        \/ j \in lapsed' \/ faults' > 0 \/ grace'[j] # None
                        \/ \E d \in Calls : At(d, "grace")' /\ call'[d].token = j
    BY DEF GraceKept
  <2>2. Committed(n) /\ Parent(n) = Parent(n)' /\ faults \in Nat
    BY <1>1, <2>1, TypeParts
  <2> QED
    BY <1>1, <2>1, <2>2 DEF GraceKept, At
<1> QED
  BY <1>2, <1>3, <1>4, <1>5, <1>6, <1>7

LEMMA InsertInv ==
  ASSUME TokensInv, NEW c \in Calls, Insert(c)
  PROVE  TokensInv'
<1> DEFINE r == call[c]
<1>a. PICK j : j = r.token
  OBVIOUS
<1>1. PICK n \in NextRow :
         /\ tokens' = [tokens EXCEPT ![n] = [state  |-> "new",
                                            family |-> IF j = None THEN n ELSE Family(j),
                                            parent |-> j]]
         /\ Turn(c, [r EXCEPT !.pc = "commit", !.new = n])
  BY <1>a DEF Insert
<1> DEFINE q == [r EXCEPT !.pc = "commit", !.new = n]
<1>2. /\ TokensTypeOK /\ RowsOK /\ SuccessorsOK /\ LocksOK
      /\ r \in Records /\ r.pc = "insert" /\ n \in Tokens /\ tokens[n].state = "none"
      /\ clock' \in Nat /\ clock' >= clock /\ faults' \in Nat /\ faults' >= faults
      /\ UNCHANGED <<grace, clock, given, lapsed, alarmed, closed, spared, faults>>
  <2>1. n \in Tokens /\ tokens[n].state = "none"
    BY <1>1 DEF NextRow, Tokens
  <2> QED
    BY <2>1, TypeParts DEF TokensInv, Insert, At
<1>3. /\ j = None => r.rows = {}
      /\ j # None => j \in Tokens /\ Committed(j) /\ Live(j) /\ r.rows = {j} /\ Family(j) \in Tokens
  BY <1>a, <1>2 DEF TokensInv, CallOK, Records, RowsOK, Committed
<1>4. q \in Records /\ NoRows(q) /\ q.pc = "commit" /\ q.token = j /\ q.rows = r.rows /\ q.new = n
  BY <1>a, <1>2 DEF Records, PCs, NoRows
<1>5. Turn(c, q)
  BY <1>1
<1> HIDE DEF q
<1>6. /\ call' \in [Calls -> Records] /\ \A d \in Calls : NoRows(call'[d])
      /\ call'[c] = q /\ \A d \in Calls \ {c} : call'[d] = call[d]
  BY <1>2, <1>4, <1>5, TurnMoves
<1>7. /\ tokens'[n].state = "new" /\ Parent(n)' = j
      /\ Family(n)' = (IF j = None THEN n ELSE Family(j))
      /\ \A t \in Tokens \ {n} : tokens'[t] = tokens[t]
  BY <1>1, <1>2, TypeParts DEF Parent, Family
<1>8. tokens' \in [Tokens -> RowType]
  BY <1>1, <1>2, <1>3, TypeParts DEF RowType
<1>9. TokensTypeOK'
  BY <1>2, <1>6, <1>8, TypeParts, NextTypeParts
<1>10. \A t \in Tokens : Committed(t) \/ Committed(t)' => tokens'[t] = tokens[t]
  BY <1>2, <1>7 DEF Committed
<1>11. Kept
  BY <1>10 DEF Kept, Committed, Revoked, Family, Parent
<1>12. RowsOK'
  <2> SUFFICES ASSUME NEW t \in Tokens
               PROVE  /\ tokens'[t].state = "none" => tokens'[t] = NoRow
                      /\ tokens'[t].state # "none" =>
                           /\ Family(t)' \in Tokens
                           /\ Parent(t)' = None => Family(t)' = t
                           /\ Family(t)' # t => Committed(Family(t))'
                           /\ Parent(t)' # None => /\ Committed(Parent(t))'
                                                   /\ Family(Parent(t))' = Family(t)'
    BY DEF RowsOK
  <2>1. CASE t = n
    <3>1. CASE j = None
      BY <2>1, <3>1, <1>2, <1>7
    <3>2. CASE j # None
      <4>1. Committed(j)' /\ Family(j)' = Family(j) /\ Family(t)' = Family(j) /\ Parent(t)' = j
        BY <2>1, <3>2, <1>3, <1>7, <1>11 DEF Kept
      <4>2. Committed(Family(j))
        BY <3>2, <1>2, <1>3 DEF RowsOK, Committed
      <4>3. Committed(Family(j))'
        BY <3>2, <4>2, <1>3, <1>11 DEF Kept
      <4> QED
        BY <2>1, <3>2, <4>1, <4>3, <1>3, <1>7
    <3> QED
      BY <3>1, <3>2
  <2>2. CASE t # n
    <3>1. tokens'[t] = tokens[t] /\ Family(t)' = Family(t) /\ Parent(t)' = Parent(t)
      BY <2>2, <1>7 DEF Family, Parent
    <3>2. Parent(t) # None => Parent(t) \in Tokens
      BY <1>2, TypeParts DEF Parent, RowType
    <3> QED
      BY <3>1, <3>2, <1>2, <1>11 DEF RowsOK, Kept
  <2> QED
    BY <2>1, <2>2
<1>13. SuccessorsOK'
  <2>1. ASSUME NEW t \in Tokens, Committed(t)', Parent(t)' # None
        PROVE  Revoked(Parent(t))'
    <3>1. Committed(t) /\ Parent(t)' = Parent(t) /\ Parent(t) \in Tokens
      BY <2>1, <1>2, <1>10, TypeParts DEF Committed, Parent, RowType
    <3> QED
      BY <2>1, <3>1, <1>2, <1>11 DEF SuccessorsOK, Kept
  <2>2. ASSUME NEW t \in Tokens, t # n, tokens[t].state # "none", j # None, Parent(t) = j
        PROVE  FALSE
    <3>1. CASE Committed(t)
      BY <2>2, <3>1, <1>2, <1>3 DEF SuccessorsOK, Revoked, Live
    <3>2. CASE tokens[t].state = "new"
      <4>1. PICK d \in Calls : At(d, "commit") /\ call[d].new = t
        BY <3>2, <1>2 DEF LocksOK
      <4>2. d # c /\ call[d].token = j /\ call[d].rows = {j}
        BY <2>2, <4>1, <1>2 DEF TokensInv, CallOK, At
      <4> QED
        BY <2>2, <4>2, <1>2, <1>3 DEF LocksOK
    <3> QED
      BY <2>2, <3>1, <3>2, <1>2, TypeParts DEF Committed, RowType
  <2>3. ASSUME NEW s \in Tokens, NEW t \in Tokens,
               tokens'[s].state # "none", tokens'[t].state # "none",
               Parent(s)' = Parent(t)', Parent(t)' # None
        PROVE  s = t
    BY <2>2, <2>3, <1>2, <1>7 DEF SuccessorsOK, Parent
  <2> QED
    BY <2>1, <2>3 DEF SuccessorsOK
<1>14. \A d \in Calls : CallOK(d)'
  <2> TAKE d \in Calls
  <2>1. CASE d = c
    <3>1. j # None => tokens'[j] = tokens[j] /\ Committed(j)' /\ Live(j)'
      BY <1>3, <1>10 DEF Committed, Live
    <3> QED
      BY <2>1, <3>1, <1>2, <1>3, <1>4, <1>6, <1>7 DEF CallOK
  <2>2. CASE d # c
    <3>1. /\ \A t \in call[d].rows : tokens'[t] = tokens[t]
          /\ call[d].pc = "commit" => tokens'[call[d].new] = tokens[call[d].new]
      BY <1>2, <1>7, <1>10, HeldRows DEF At
    <3> QED
      BY <2>2, <3>1, <1>2, <1>6, <1>11, OtherCall DEF TokensInv
  <2> QED
    BY <2>1, <2>2
<1>15. LocksOK'
  <2>1. \A d \in Calls : At(d, "commit") => call[d].new # n
    BY <1>2, HeldRows
  <2> QED
    BY <2>1, <1>2, <1>4, <1>6, <1>7 DEF LocksOK, At
<1>16. OneLive' /\ GivenOK' /\ SessionKept' /\ SweepsOK' /\ AlarmCloses' /\ GraceKept'
  BY <1>2, <1>4, <1>6, <1>10, CommittedSame
<1> QED
  BY <1>9, <1>12, <1>13, <1>14, <1>15, <1>16 DEF TokensInv

\* A call breaks off: its new row disappears, its locks are gone.
LEMMA RollbackInv ==
  ASSUME TokensInv, NEW c \in Calls, Conflict(c) \/ CallFails(c)
  PROVE  TokensInv'
<1> DEFINE r == call[c]
           n == r.new
<1>1. /\ TokensTypeOK /\ RowsOK /\ SuccessorsOK /\ LocksOK
      /\ r \in Records /\ r.pc # "grace" /\ CallOK(c)
      /\ UNCHANGED <<grace, clock, given, lapsed, alarmed, closed, spared>>
      /\ clock' \in Nat /\ clock' >= clock
      /\ faults' \in 0 .. MaxFaults /\ faults' \in Nat /\ faults' >= faults
      /\ RollbackRows(c) /\ CloseCall(c)
  BY TypeParts, TokenAssumption DEF TokensInv, Conflict, CallFails, At, Fault
<1>2. /\ call' \in [Calls -> Records] /\ \A d \in Calls : NoRows(call'[d])
      /\ call'[c] = Idle /\ \A d \in Calls \ {c} : call'[d] = call[d]
  BY <1>1, IdleRecord, TurnMoves DEF CloseCall
<1>3. /\ n # None => At(c, "commit") /\ n \in Tokens /\ tokens[n].state = "new" /\ tokens'[n] = NoRow
      /\ \A t \in Tokens : t # n => tokens'[t] = tokens[t]
  BY <1>1 DEF RollbackRows, CallOK, At
<1>4. None \notin Tokens
  BY TokenAssumption
<1>5. tokens' \in [Tokens -> RowType]
  BY <1>1, TypeParts DEF RollbackRows, RowType, NoRow
<1>6. TokensTypeOK'
  BY <1>1, <1>2, <1>5, TypeParts, NextTypeParts
<1>7. \A t \in Tokens : Committed(t) \/ Committed(t)' => t # n /\ tokens'[t] = tokens[t]
  BY <1>3, <1>4 DEF Committed, NoRow
<1>8. Kept
  BY <1>7 DEF Kept, Committed, Revoked, Family, Parent
<1>9. RowsOK'
  <2> SUFFICES ASSUME NEW t \in Tokens
               PROVE  /\ tokens'[t].state = "none" => tokens'[t] = NoRow
                      /\ tokens'[t].state # "none" =>
                           /\ Family(t)' \in Tokens
                           /\ Parent(t)' = None => Family(t)' = t
                           /\ Family(t)' # t => Committed(Family(t))'
                           /\ Parent(t)' # None => /\ Committed(Parent(t))'
                                                   /\ Family(Parent(t))' = Family(t)'
    BY DEF RowsOK
  <2>1. CASE t = n
    BY <2>1, <1>3, <1>4 DEF NoRow
  <2>2. CASE t # n
    <3>1. tokens'[t] = tokens[t] /\ Family(t)' = Family(t) /\ Parent(t)' = Parent(t)
      BY <2>2, <1>3 DEF Family, Parent
    <3>2. Parent(t) # None => Parent(t) \in Tokens
      BY <1>1, TypeParts DEF Parent, RowType
    <3> QED
      BY <3>1, <3>2, <1>1, <1>8 DEF RowsOK, Kept
  <2> QED
    BY <2>1, <2>2
<1>10. SuccessorsOK'
  <2>1. \A t \in Tokens : tokens'[t].state # "none" => t # n /\ tokens'[t] = tokens[t]
    BY <1>3, <1>4 DEF NoRow
  <2>2. \A t \in Tokens : Parent(t) # None => Parent(t) \in Tokens
    BY <1>1, TypeParts DEF Parent, RowType
  <2> QED
    BY <2>1, <2>2, <1>1, <1>7, <1>8 DEF SuccessorsOK, Kept, Parent, Committed
<1>11. \A d \in Calls : CallOK(d)'
  <2> TAKE d \in Calls
  <2>1. CASE d = c
    BY <2>1, <1>2, ClosedCall
  <2>2. CASE d # c
    <3>1. \A t \in call[d].rows : tokens'[t] = tokens[t]
      BY <1>7, HeldRows
    <3>2. call[d].pc = "commit" => tokens'[call[d].new] = tokens[call[d].new]
      BY <2>2, <1>1, <1>3, <1>4, HeldRows DEF LocksOK, At
    <3> QED
      BY <2>2, <3>1, <3>2, <1>1, <1>2, <1>8, OtherCall DEF TokensInv
  <2> QED
    BY <2>1, <2>2
<1>12. LocksOK'
  BY <1>1, <1>2, <1>3, <1>4, ClosedCall DEF LocksOK, At, NoRow
<1>13. OneLive' /\ GivenOK' /\ SessionKept' /\ SweepsOK' /\ AlarmCloses' /\ GraceKept'
  BY <1>1, <1>2, <1>7, ClosedCall, CommittedSame
<1> QED
  BY <1>6, <1>9, <1>10, <1>11, <1>12, <1>13 DEF TokensInv

-----------------------------------------------------------------------------
(* The commits. *)

\* What a commit makes of the rows.
LEMMA CommitFacts ==
  ASSUME TokensInv, NEW c \in Calls, CommitRows(c), call[c].pc \in {"commit", "sweep", "end"}
  PROVE  LET r == call[c] IN
         /\ tokens' \in [Tokens -> RowType]
         /\ \A t \in Tokens :
               /\ Family(t)' = Family(t) /\ Parent(t)' = Parent(t)
               /\ tokens[t].state = "none" <=> tokens'[t].state = "none"
               /\ tokens[t].state = "none" => tokens'[t] = tokens[t]
               /\ Committed(t)' <=> Committed(t) \/ t = r.new
               /\ Live(t)' <=> t = r.new \/ (Live(t) /\ t \notin r.rows)
               /\ Revoked(t)' <=> Revoked(t) \/ t \in r.rows
               /\ t # r.new /\ t \notin r.rows => tokens'[t] = tokens[t]
         /\ r.pc # "commit" => r.new = None
         /\ r.pc = "commit" => /\ r.new \in Tokens /\ ~Committed(r.new) /\ tokens[r.new].state = "new"
                               /\ Parent(r.new) = r.token
                               /\ r.token = None => r.rows = {}
                               /\ r.token # None => /\ r.token \in Tokens /\ r.rows = {r.token}
                                                   /\ Live(r.token)
<1> DEFINE r == call[c]
<1>1. /\ r \in Records /\ CallOK(c) /\ tokens \in [Tokens -> RowType]
      /\ \A t \in r.rows : t \in Tokens /\ Committed(t)
      /\ None \notin Tokens
  BY TypeParts, HeldRows, TokenAssumption DEF TokensInv
<1>2. /\ r.pc # "commit" => r.new = None
      /\ r.pc = "commit" => /\ r.new \in Tokens /\ ~Committed(r.new) /\ tokens[r.new].state = "new"
                            /\ Parent(r.new) = r.token
                            /\ r.token = None => r.rows = {}
                            /\ r.token # None => /\ r.token \in Tokens /\ r.rows = {r.token}
                                                /\ Live(r.token)
  BY <1>1 DEF CallOK, Committed, Records
<1>3. r.new \in Tokens => r.pc = "commit"
  BY <1>1, <1>2
<1>4. \A t \in Tokens :
         /\ t = r.new => tokens'[t] = [tokens[t] EXCEPT !.state = "live"]
         /\ t # r.new /\ t \in r.rows => tokens'[t] = [tokens[t] EXCEPT !.state = "revoked"]
         /\ t # r.new /\ t \notin r.rows => tokens'[t] = tokens[t]
  BY DEF CommitRows, CommittedRow
<1>5. tokens' \in [Tokens -> RowType]
  <2>1. \A t \in Tokens : CommittedRow(c, t) \in RowType
    BY <1>1 DEF CommittedRow, RowType
  <2> QED
    BY <2>1 DEF CommitRows
<1>6. ASSUME NEW t \in Tokens
      PROVE  /\ Family(t)' = Family(t) /\ Parent(t)' = Parent(t)
             /\ tokens[t].state = "none" <=> tokens'[t].state = "none"
             /\ tokens[t].state = "none" => tokens'[t] = tokens[t]
             /\ Committed(t)' <=> Committed(t) \/ t = r.new
             /\ Live(t)' <=> t = r.new \/ (Live(t) /\ t \notin r.rows)
             /\ Revoked(t)' <=> Revoked(t) \/ t \in r.rows
  <2>1. tokens[t] \in RowType
    BY <1>1
  <2>2. CASE t = r.new
    <3>1. tokens[t].state = "new" /\ t \notin r.rows
      BY <1>1, <1>2, <1>3, <2>2
    <3>2. /\ tokens'[t].state = "live" /\ tokens'[t].family = tokens[t].family
          /\ tokens'[t].parent = tokens[t].parent
      BY <1>4, <2>1, <2>2 DEF RowType
    <3> QED
      BY <2>2, <3>1, <3>2 DEF Committed, Live, Revoked, Family, Parent
  <2>3. CASE t # r.new /\ t \in r.rows
    <3>1. /\ tokens'[t].state = "revoked" /\ tokens'[t].family = tokens[t].family
          /\ tokens'[t].parent = tokens[t].parent
      BY <1>4, <2>1, <2>3 DEF RowType
    <3> QED
      BY <1>1, <2>3, <3>1 DEF Committed, Live, Revoked, Family, Parent
  <2>4. CASE t # r.new /\ t \notin r.rows
    BY <1>4, <2>4 DEF Committed, Live, Revoked, Family, Parent
  <2> QED
    BY <2>2, <2>3, <2>4
<1> QED
  BY <1>2, <1>4, <1>5, <1>6

\* The part of the invariant that every commit keeps in the same way.
LEMMA CommitKeeps ==
  ASSUME TokensInv, NEW c \in Calls, CommitRows(c), call[c].pc \in {"commit", "sweep", "end"},
         \A d \in Calls \ {c} : call'[d] = call[d],
         call'[c].pc \in {"idle", "grace"}, call'[c].rows = {}, CallOK(c)',
         clock' = clock, clock' \in Nat, alarmed' = alarmed
  PROVE  /\ Kept /\ RowsOK' /\ SuccessorsOK' /\ (\A d \in Calls : CallOK(d)')
         /\ LocksOK' /\ OneLive'
<1> DEFINE r == call[c]
<1>1. /\ TokensTypeOK /\ RowsOK /\ SuccessorsOK /\ LocksOK /\ OneLive
      /\ r.pc = "commit" => At(c, "commit")
      /\ None \notin Tokens
  BY TokenAssumption DEF TokensInv, At
<1>2. \A t \in Tokens : tokens[t].state \in {"none", "new", "live", "revoked"}
                        /\ (Parent(t) # None => Parent(t) \in Tokens)
                        /\ (Family(t) # None => Family(t) \in Tokens)
  BY <1>1, TypeParts DEF RowType, Parent, Family
<1>3. Kept
  BY CommitFacts DEF Kept
<1>4. RowsOK'
  <2> SUFFICES ASSUME NEW t \in Tokens
               PROVE  /\ tokens'[t].state = "none" => tokens'[t] = NoRow
                      /\ tokens'[t].state # "none" =>
                           /\ Family(t)' \in Tokens
                           /\ Parent(t)' = None => Family(t)' = t
                           /\ Family(t)' # t => Committed(Family(t))'
                           /\ Parent(t)' # None => /\ Committed(Parent(t))'
                                                   /\ Family(Parent(t))' = Family(t)'
    BY DEF RowsOK
  <2>1. /\ Family(t)' = Family(t) /\ Parent(t)' = Parent(t)
        /\ tokens[t].state = "none" <=> tokens'[t].state = "none"
        /\ tokens[t].state = "none" => tokens'[t] = tokens[t]
    BY CommitFacts
  <2> QED
    BY <1>1, <1>2, <1>3, <2>1 DEF RowsOK, Kept
<1>5. SuccessorsOK'
  <2>1. ASSUME NEW t \in Tokens, Committed(t)', Parent(t)' # None
        PROVE  Revoked(Parent(t))'
    <3>1. Parent(t)' = Parent(t) /\ Parent(t) \in Tokens
      BY <1>2, <2>1, CommitFacts
    <3>2. CASE Committed(t)
      BY <1>1, <1>3, <2>1, <3>1, <3>2 DEF SuccessorsOK, Kept
    <3>3. CASE t = r.new
      <4>1. r.pc = "commit" /\ Parent(t) = r.token /\ r.token # None
        BY <1>1, <2>1, <3>1, <3>3, CommitFacts
      <4> QED
        BY <3>1, <4>1, CommitFacts
    <3> QED
      BY <2>1, <3>2, <3>3, CommitFacts
  <2>2. ASSUME NEW s \in Tokens, NEW t \in Tokens,
               tokens'[s].state # "none", tokens'[t].state # "none",
               Parent(s)' = Parent(t)', Parent(t)' # None
        PROVE  s = t
    <3>1. /\ tokens[s].state # "none" /\ tokens[t].state # "none"
          /\ Parent(s) = Parent(t) /\ Parent(t) # None
      BY <2>2, CommitFacts
    <3> QED
      BY <3>1, <1>1 DEF SuccessorsOK
  <2> QED
    BY <2>1, <2>2 DEF SuccessorsOK
<1>6. ASSUME NEW d \in Calls, d # c
      PROVE  /\ \A t \in call[d].rows : tokens'[t] = tokens[t]
             /\ call[d].pc = "commit" => tokens'[call[d].new] = tokens[call[d].new]
  <2>1. \A t \in call[d].rows : t \in Tokens /\ t # r.new /\ t \notin r.rows
    BY <1>1, <1>6, HeldRows, CommitFacts DEF LocksOK
  <2>2. call[d].pc = "commit" => /\ call[d].new \in Tokens /\ call[d].new # r.new
                                /\ call[d].new \notin r.rows
    BY <1>1, <1>6, HeldRows, CommitFacts DEF LocksOK, At
  <2> QED
    BY <2>1, <2>2, CommitFacts
<1>7. \A d \in Calls : CallOK(d)'
  <2> TAKE d \in Calls
  <2>1. CASE d = c
    BY <2>1
  <2>2. CASE d # c
    <3>1. clock' >= clock /\ alarmed \subseteq alarmed' /\ CallOK(d)
      BY <1>1, TypeParts DEF TokensInv
    <3> QED
      BY <2>2, <3>1, <1>1, <1>3, <1>6, OtherCall
  <2> QED
    BY <2>1, <2>2
<1>8. LocksOK'
  <2>1. \A d, e \in Calls : d # e => call'[d].rows \cap call'[e].rows = {}
    BY <1>1 DEF LocksOK
  <2>2. \A d, e \in Calls : At(d, "commit")' /\ At(e, "commit")' /\ call'[d].new = call'[e].new => d = e
    BY <1>1 DEF LocksOK, At
  <2>3. ASSUME NEW t \in Tokens, tokens'[t].state = "new"
        PROVE  \E d \in Calls : At(d, "commit")' /\ call'[d].new = t
    <3>1. tokens[t].state = "new" /\ t # r.new
      BY <1>2, <2>3, CommitFacts DEF Committed, Live
    <3>2. PICK d \in Calls : At(d, "commit") /\ call[d].new = t
      BY <1>1, <3>1 DEF LocksOK
    <3> QED
      BY <3>1, <3>2 DEF At
  <2> QED
    BY <2>1, <2>2, <2>3 DEF LocksOK
<1>9. OneLive'
  <2>1. ASSUME NEW t \in Tokens, t # r.new, r.new \in Tokens, Live(t), t \notin r.rows,
               Family(t) = Family(r.new)
        PROVE  FALSE
    <3>1. r.pc = "commit" /\ ~Committed(r.new) /\ tokens[r.new].state = "new" /\ Parent(r.new) = r.token
      BY <1>1, <2>1, CommitFacts
    <3>2. CASE r.token = None
      BY <1>1, <2>1, <3>1, <3>2 DEF RowsOK, Live
    <3>3. CASE r.token # None
      <4>1. r.token \in r.rows /\ Live(r.token) /\ r.token \in Tokens
        BY <3>1, <3>3, CommitFacts
      <4>2. Family(r.token) = Family(t)
        BY <1>1, <2>1, <3>1, <3>3 DEF RowsOK
      <4> QED
        BY <1>1, <2>1, <4>1, <4>2 DEF OneLive, Live
    <3> QED
      BY <3>2, <3>3
  <2>2. ASSUME NEW s \in Tokens, NEW t \in Tokens, Live(s)', Live(t)', Family(s)' = Family(t)'
        PROVE  s = t
    <3>1. Family(s) = Family(t)
      BY <2>2, CommitFacts
    <3>2. /\ s = r.new \/ (Live(s) /\ s \notin r.rows)
          /\ t = r.new \/ (Live(t) /\ t \notin r.rows)
      BY <2>2, CommitFacts
    <3> QED
      BY <1>1, <2>1, <3>1, <3>2 DEF OneLive, Live
  <2> QED
    BY <2>2 DEF OneLive, Live
<1> QED
  BY <1>3, <1>4, <1>5, <1>7, <1>8, <1>9

\* The commit of a login or of an exchange.
LEMMA CommitInv ==
  ASSUME TokensInv, NEW c \in Calls, Commit(c) \/ CommitFails(c)
  PROVE  TokensInv'
<1> DEFINE r == call[c]
<1>a. PICK j, n : j = r.token /\ n = r.new
  OBVIOUS
<1> DEFINE q == [r EXCEPT !.pc = "grace", !.rows = {}]
<1>1. /\ TokensTypeOK /\ RowsOK /\ SuccessorsOK /\ LocksOK /\ OneLive /\ GivenOK /\ SessionKept
      /\ SweepsOK /\ AlarmCloses /\ GraceKept
      /\ r \in Records /\ r.pc = "commit" /\ CommitRows(c) /\ NoteRotation(c)
      /\ clock \in Nat /\ faults' \in 0 .. MaxFaults /\ faults \in Nat /\ faults' \in Nat /\ faults' >= faults
      /\ UNCHANGED <<grace, clock, lapsed, alarmed, closed>>
      /\ None \notin Tokens
  BY TypeParts, TokenAssumption DEF TokensInv, Commit, CommitFails, At, Fault
<1>2. /\ n \in Tokens /\ ~Committed(n) /\ Parent(n) = j /\ tokens[n].state = "new"
      /\ j = None => r.rows = {}
      /\ j # None => j \in Tokens /\ r.rows = {j} /\ Live(j)
      /\ n \notin r.rows
  BY <1>a, <1>1, CommitFacts, HeldRows DEF At
<1>3. /\ tokens' \in [Tokens -> RowType]
      /\ \A t \in Tokens :
            /\ Family(t)' = Family(t) /\ Parent(t)' = Parent(t)
            /\ Committed(t)' <=> Committed(t) \/ t = n
            /\ Live(t)' <=> t = n \/ (Live(t) /\ t \notin r.rows)
            /\ Revoked(t)' <=> Revoked(t) \/ t \in r.rows
  BY <1>a, <1>1, CommitFacts
<1>4. \/ /\ Turn(c, Idle)
         /\ \/ faults' > 0 /\ given' = given
            \/ j = None /\ given' = [given EXCEPT ![None] = @ \cup {n}]
      \/ j # None /\ Turn(c, q) /\ given' = given
  BY <1>a, <1>1 DEF Commit, CommitFails, CloseCall, Answer, Fault
<1>5. q \in Records /\ NoRows(q) /\ q.pc = "grace" /\ q.token = j /\ q.rows = {} /\ q.new = n
  BY <1>a, <1>1 DEF Records, PCs, NoRows
<1> HIDE DEF q
<1>6. /\ call' \in [Calls -> Records] /\ \A d \in Calls : NoRows(call'[d])
      /\ \A d \in Calls \ {c} : call'[d] = call[d]
      /\ call'[c] = Idle \/ (j # None /\ call'[c] = q)
  BY <1>1, <1>4, <1>5, IdleRecord, TurnMoves
<1>7. call'[c].pc \in {"idle", "grace"} /\ call'[c].rows = {} /\ CallOK(c)'
  <2>1. CASE call'[c] = Idle
    BY <2>1, ClosedCall
  <2>2. CASE j # None /\ call'[c] = q
    <3>1. Committed(n)' /\ Parent(n)' = j /\ Committed(j)'
      BY <1>2, <1>3, <2>2 DEF Live, Committed
    <3> QED
      BY <1>2, <1>5, <2>2, <3>1 DEF CallOK
  <2> QED
    BY <1>6, <2>1, <2>2
<1>8. /\ Kept /\ RowsOK' /\ SuccessorsOK' /\ (\A d \in Calls : CallOK(d)')
      /\ LocksOK' /\ OneLive'
  BY <1>1, <1>6, <1>7, CommitKeeps
<1>9. TokensTypeOK'
  <2>1. given' \in [Tokens \cup {None} -> SUBSET Tokens]
    BY <1>1, <1>2, <1>4, TypeParts
  <2>2. spared' \subseteq Tokens
    BY <1>a, <1>1, <1>2, TypeParts DEF NoteRotation
  <2> QED
    BY <1>1, <1>3, <1>6, <2>1, <2>2, TypeParts, NextTypeParts
<1>10. GivenOK'
  <2>1. \A t \in given'[None] : t \in Tokens /\ (t \in given[None] \/ t = n)
    BY <1>1, <1>2, <1>4, TypeParts
  <2>2. \A i \in Tokens : given'[i] = given[i] /\ given[i] \subseteq Tokens
                          /\ grace[i] \in Tokens \cup {None}
    BY <1>1, <1>4, TypeParts
  <2>3. \A t \in given'[None] : Committed(t)'
    BY <1>1, <1>3, <2>1 DEF GivenOK
  <2>4. \A i \in Tokens : \A t \in given'[i] : Committed(t)' /\ Parent(t)' = i
    BY <1>1, <1>3, <2>2 DEF GivenOK
  <2>5. ASSUME NEW i \in Tokens, grace'[i] # None
        PROVE  (Committed(grace[i]) /\ Parent(grace[i]) = i)'
    <3>1. PICK g \in Tokens : g = grace[i]
      BY <1>1, <2>2, <2>5
    <3>2. g = grace'[i] /\ Committed(g) /\ Parent(g) = i
      BY <1>1, <2>5, <3>1 DEF GivenOK
    <3>3. Committed(g)' /\ Parent(g)' = i
      BY <1>3, <3>2
    <3> QED
      BY <3>2, <3>3 DEF Committed, Parent
  <2> QED
    BY <1>1, <2>3, <2>4, <2>5 DEF GivenOK
<1>11. SessionKept'
  <2>1. ASSUME NEW t \in Tokens, Revoked(t)'
        PROVE  \/ Ended(t)' \/ Family(t)' \in alarmed'
               \/ \E s \in Tokens : Parent(s)' = t /\ Committed(s)'
    <3>1. CASE Revoked(t)
      BY <1>1, <1>3, <3>1 DEF SessionKept, Revoked, Parent, Ended
    <3>2. CASE t \in r.rows
      BY <1>2, <1>3, <3>2
    <3> QED
      BY <1>3, <2>1, <3>1, <3>2
  <2> QED
    BY <2>1 DEF SessionKept, Revoked, Parent
<1>12. SweepsOK'
  <2>1. closed' \subseteq {f \in Tokens : Committed(f)'}
    BY <1>1, <1>3 DEF SweepsOK
  <2>2. ASSUME NEW d \in Calls, NEW t \in Tokens,
               At(d, "sweep")', Live(t)', Family(t)' = Family(call[d].token)'
        PROVE  t \in call'[d].rows \cup call'[d].todo \/ t \in spared'
    <3>1. d # c /\ call'[d] = call[d] /\ At(d, "sweep") /\ call[d].token \in Tokens
      BY <1>1, <1>6, <1>7, <2>2, HeldRows DEF TokensInv, CallOK, At, Records
    <3>2. Family(t) = Family(call[d].token) /\ Family(t)' = Family(t)
      BY <1>3, <2>2, <3>1 DEF Family
    <3>3. CASE t = n
      BY <1>a, <1>1, <3>1, <3>2, <3>3 DEF NoteRotation, Sweeping
    <3>4. CASE t # n
      BY <1>1, <1>3, <2>2, <3>1, <3>2, <3>4 DEF SweepsOK, NoteRotation
    <3> QED
      BY <3>3, <3>4
  <2> QED
    BY <2>1, <2>2 DEF SweepsOK
<1>13. AlarmCloses'
  <2>1. ASSUME NEW t \in Tokens, Family(t)' \in closed', Live(t)'
        PROVE  t \in spared'
    <3>1. Family(t) \in closed /\ Family(t)' = Family(t) /\ spared \subseteq spared'
      BY <1>1, <1>3, <2>1 DEF NoteRotation
    <3>2. CASE t = n
      <4>1. CASE j = None
        BY <1>1, <1>2, <3>1, <3>2, <4>1 DEF RowsOK, SweepsOK
      <4>2. CASE j # None
        <5>1. Family(n) = Family(j) /\ Live(j) /\ j \in Tokens
          BY <1>1, <1>2, <4>2 DEF RowsOK
        <5>2. j \in spared
          BY <1>1, <3>1, <3>2, <5>1 DEF AlarmCloses, Live
        <5> QED
          BY <1>a, <1>1, <3>2, <5>2 DEF NoteRotation
      <4> QED
        BY <4>1, <4>2
    <3>3. CASE t # n
      BY <1>1, <1>3, <2>1, <3>1, <3>3 DEF AlarmCloses, Live
    <3> QED
      BY <3>2, <3>3
  <2> QED
    BY <2>1 DEF AlarmCloses, Live
<1>14. GraceKept'
  <2>1. SUFFICES ASSUME NEW m \in Tokens, Committed(m)', Parent(m)' # None
                 PROVE  LET i == Parent(m)' IN
                        \/ i \in lapsed' \/ faults' > 0 \/ grace'[i] # None
                        \/ \E d \in Calls : At(d, "grace")' /\ call'[d].token = i
    BY DEF GraceKept
  <2>2. Parent(m)' = Parent(m) /\ (Committed(m) \/ m = n)
    BY <1>3, <2>1
  <2>3. CASE Committed(m)
    BY <1>1, <1>6, <2>1, <2>2, <2>3 DEF GraceKept, At
  <2>4. CASE m = n
    <3>1. faults' > 0 \/ call'[c] = q
      BY <1>1, <1>2, <1>4, <2>1, <2>2, <2>4, <1>6, TurnMoves, <1>5
    <3> QED
      BY <1>2, <1>5, <2>2, <2>4, <3>1 DEF At
  <2> QED
    BY <2>2, <2>3, <2>4
<1> QED
  BY <1>8, <1>9, <1>10, <1>11, <1>12, <1>13, <1>14 DEF TokensInv

\* The commit of an alarm, or of the revocation of a token that is over.
LEMMA RevocationInv ==
  ASSUME TokensInv, NEW c \in Calls, CommitAlarm(c) \/ CommitExpired(c)
  PROVE  TokensInv'
<1> DEFINE r == call[c]
<1>a. PICK j : j = r.token
  OBVIOUS
<1>1. /\ TokensTypeOK /\ RowsOK /\ GivenOK /\ SessionKept
      /\ SweepsOK /\ AlarmCloses /\ GraceKept
      /\ r \in Records /\ CommitRows(c) /\ r.pc \in {"sweep", "end"} /\ Turn(c, Idle)
      /\ clock \in Nat /\ UNCHANGED <<grace, clock, given, lapsed, alarmed, faults>>
      /\ spared' \subseteq spared /\ spared \ r.rows \subseteq spared'
      /\ r.pc = "sweep" => r.todo = {} /\ closed' = closed \cup {Family(j)}
      /\ r.pc = "end" => closed' = closed
  BY <1>a, TypeParts DEF TokensInv, CommitAlarm, CommitExpired, At, Unswept, CloseCall
<1>2. /\ j \in Tokens /\ Committed(j) /\ Family(j) \in Tokens
      /\ r.pc = "sweep" => Family(j) \in alarmed /\ \A t \in r.rows : Family(t) = Family(j)
      /\ r.pc = "end" => r.rows = {j} /\ Ended(j)
  BY <1>a, <1>1 DEF TokensInv, CallOK, Records, RowsOK, Committed
<1>3. /\ call' \in [Calls -> Records] /\ \A d \in Calls : NoRows(call'[d])
      /\ call'[c] = Idle /\ \A d \in Calls \ {c} : call'[d] = call[d]
  BY <1>1, IdleRecord, TurnMoves
<1>4. /\ tokens' \in [Tokens -> RowType] /\ r.new \notin Tokens
      /\ \A t \in Tokens :
            /\ Family(t)' = Family(t) /\ Parent(t)' = Parent(t)
            /\ Committed(t)' <=> Committed(t)
            /\ Live(t)' <=> Live(t) /\ t \notin r.rows
            /\ Revoked(t)' <=> Revoked(t) \/ t \in r.rows
  BY <1>1, CommitFacts, TokenAssumption
<1>5. /\ Kept /\ RowsOK' /\ SuccessorsOK' /\ (\A d \in Calls : CallOK(d)')
      /\ LocksOK' /\ OneLive'
  BY <1>1, <1>3, ClosedCall, CommitKeeps
<1>6. TokensTypeOK'
  BY <1>1, <1>2, <1>3, <1>4, TypeParts, NextTypeParts
<1>7. GivenOK'
  <2>1. /\ given[None] \subseteq Tokens
        /\ \A i \in Tokens : given[i] \subseteq Tokens /\ grace[i] \in Tokens \cup {None}
    BY <1>1, TypeParts
  <2> QED
    BY <1>1, <1>4, <2>1 DEF GivenOK
<1>8. SessionKept'
  <2>1. ASSUME NEW t \in Tokens, Revoked(t)'
        PROVE  \/ Ended(t)' \/ Family(t)' \in alarmed'
               \/ \E s \in Tokens : Parent(s)' = t /\ Committed(s)'
    <3>1. CASE Revoked(t)
      BY <1>1, <1>4, <3>1 DEF SessionKept, Revoked, Parent, Ended
    <3>2. CASE t \in r.rows
      BY <1>1, <1>2, <1>4, <3>2 DEF Ended
    <3> QED
      BY <1>4, <2>1, <3>1, <3>2
  <2> QED
    BY <2>1 DEF SessionKept, Revoked, Parent
<1>9. SweepsOK'
  <2>1. closed' \subseteq {f \in Tokens : Committed(f)'}
    <3>1. Committed(Family(j))
      BY <1>1, <1>2 DEF RowsOK, Committed
    <3> QED
      BY <1>1, <1>2, <1>4, <3>1 DEF SweepsOK
  <2>2. ASSUME NEW d \in Calls, NEW t \in Tokens,
               At(d, "sweep")', Live(t)', Family(t)' = Family(call[d].token)'
        PROVE  t \in call'[d].rows \cup call'[d].todo \/ t \in spared'
    <3>1. d # c /\ call'[d] = call[d] /\ At(d, "sweep") /\ call[d].token \in Tokens
      BY <1>1, <1>3, <2>2, HeldRows, ClosedCall DEF TokensInv, CallOK, At, Records
    <3>2. Family(t) = Family(call[d].token) /\ Family(t)' = Family(t) /\ Live(t) /\ t \notin r.rows
      BY <1>4, <2>2, <3>1 DEF Family
    <3> QED
      BY <1>1, <3>1, <3>2 DEF SweepsOK
  <2> QED
    BY <2>1, <2>2 DEF SweepsOK
<1>10. AlarmCloses'
  <2>1. ASSUME NEW t \in Tokens, Family(t)' \in closed', Live(t)'
        PROVE  t \in spared'
    <3>1. Family(t)' = Family(t) /\ Live(t) /\ t \notin r.rows
      BY <1>4, <2>1
    <3>2. CASE Family(t) \in closed
      BY <1>1, <3>1, <3>2 DEF AlarmCloses, Live
    <3>3. CASE r.pc = "sweep" /\ Family(t) = Family(j)
      BY <1>a, <1>1, <3>1, <3>3 DEF SweepsOK, At
    <3> QED
      BY <1>1, <2>1, <3>1, <3>2, <3>3
  <2> QED
    BY <2>1 DEF AlarmCloses, Live
<1>11. GraceKept'
  <2>1. SUFFICES ASSUME NEW m \in Tokens, Committed(m)', Parent(m)' # None
                 PROVE  LET i == Parent(m)' IN
                        \/ i \in lapsed' \/ faults' > 0 \/ grace'[i] # None
                        \/ \E d \in Calls : At(d, "grace")' /\ call'[d].token = i
    BY DEF GraceKept
  <2> QED
    BY <1>1, <1>3, <1>4, <2>1 DEF GraceKept, At
<1> QED
  BY <1>5, <1>6, <1>7, <1>8, <1>9, <1>10, <1>11 DEF TokensInv

-----------------------------------------------------------------------------
(* The specification. *)

\* router.py:74-194.  Every step of every call, failure and lapse keeps it.
THEOREM Inductive == TokensInv /\ [TokensNext]_tokenVars => TokensInv'
<1> SUFFICES ASSUME TokensInv, [TokensNext]_tokenVars PROVE TokensInv'
    OBVIOUS
<1>1. ASSUME NEW c \in Calls, Login(c) \/ CallStep(c) \/ FailStep(c)
      PROVE  TokensInv'
  BY <1>1, LoginInv, RevokeInv, InsertInv, CommitInv, SetGraceInv, LookupInv, GraceHitInv,
     GraceMissInv, StartSweepInv, SweepRowInv, RevocationInv, RevokeExpiredInv, RollbackInv
     DEF CallStep, FailStep
<1>2. ASSUME NEW c \in Calls, NEW j \in Tokens, Refresh(c, j)
      PROVE  TokensInv'
  BY <1>2, RefreshInv
<1>3. CASE Tick \/ \E j \in Tokens : Lapse(j)
  BY <1>3, TimeInv
<1>4. CASE UNCHANGED tokenVars
  BY <1>4 DEF tokenVars, TokensInv, TokensTypeOK, RowsOK, SuccessorsOK, CallOK, LocksOK, OneLive,
     GivenOK, SessionKept, SweepsOK, AlarmCloses, GraceKept, Committed, Family, Parent, Live,
     Revoked, Ended, At
<1> QED
  BY <1>1, <1>2, <1>3, <1>4 DEF TokensNext

\* router.py:74-194, service.py:66-109.  How the rows, the locks and the calls
\* fit together, always.
THEOREM InvariantHolds == TokensSpec => []TokensInv
<1>1. TokensInit => TokensInv
  BY InitInv
<1>2. TokensInv /\ [TokensNext]_tokenVars => TokensInv'
  BY Inductive
<1> QED
  BY <1>1, <1>2, PTL DEF TokensSpec

\* service.py:76-82, for any number of calls, tokens and failures: a family has
\* at most one token that can be exchanged.
THEOREM OneLiveHolds == TokensSpec => []OneLive
BY InvariantHolds, PTL DEF TokensInv

\* router.py:142-155, 190-194.  Every answer to a token carries one successor.
THEOREM SamePairHolds == TokensSpec => []SamePair
<1>1. TokensInv => SamePair
  <2> SUFFICES ASSUME TokensInv, NEW j \in Tokens, NEW s \in Tokens, NEW t \in Tokens,
                      s \in given[j], t \in given[j]
               PROVE  s = t
    BY DEF SamePair
  <2>1. Parent(s) = j /\ Parent(t) = j /\ Committed(s) /\ Committed(t) /\ j # None
    BY TokenAssumption DEF TokensInv, GivenOK
  <2> QED
    BY <2>1 DEF TokensInv, SuccessorsOK, Committed
<1> QED
  BY <1>1, InvariantHolds, PTL

\* router.py:188-190.  What was answered, or may be answered from the grace
\* entry, is committed.
THEOREM GivenIsStoredHolds == TokensSpec => []GivenIsStored
<1>1. TokensInv => GivenIsStored
  <2> SUFFICES ASSUME TokensInv, NEW t \in Tokens, ~Committed(t), NEW j \in Tokens \cup {None}
               PROVE  t \notin given[j] /\ (j # None => grace[j] # t)
    BY DEF GivenIsStored
  <2> QED
    BY TokenAssumption DEF TokensInv, GivenOK
<1> QED
  BY <1>1, InvariantHolds, PTL

\* router.py:140-186.  No call that breaks off loses a session.
THEOREM SessionKeptHolds == TokensSpec => []SessionKept
BY InvariantHolds, PTL DEF TokensInv

\* router.py:149-153, service.py:102-109.  After an alarm only tokens that were
\* committed while the rows were revoked, and what these are exchanged for, can
\* be exchanged, until the next alarm of the family.
THEOREM AlarmClosesHolds == TokensSpec => []AlarmCloses
BY InvariantHolds, PTL DEF TokensInv

\* router.py:148-155, 188-190.  An alarm for a token that was exchanged has a
\* cause: its grace entry ran out, its lifetime or its family ended, something
\* failed, or the entry is about to be written.
THEOREM AlarmHasCause == TokensSpec => AlarmForCause
<1>1. ASSUME TokensInv, NEW c \in Calls, GraceMiss(c)
      PROVE  LET j == call[c].token IN
             \/ j \in lapsed \/ Ended(j) \/ Family(j) \in alarmed \/ faults > 0
             \/ \E d \in Calls : At(d, "grace") /\ call[d].token = j
  <2> DEFINE j == call[c].token
  <2>1. j \in Tokens /\ Revoked(j) /\ grace[j] = None
    BY <1>1, TypeParts DEF TokensInv, CallOK, GraceMiss, At, Records
  <2>2. CASE Ended(j) \/ Family(j) \in alarmed
    BY <2>2
  <2>3. CASE \E s \in Tokens : tokens[s].parent = j /\ Committed(s)
    BY <1>1, <2>1, <2>3, TokenAssumption DEF TokensInv, GraceKept, Parent
  <2> QED
    BY <1>1, <2>1, <2>2, <2>3 DEF TokensInv, SessionKept, Revoked
<1>2. TokensInv /\ [TokensNext]_tokenVars =>
        [\A c \in Calls : GraceMiss(c) =>
            LET j == call[c].token IN
            \/ j \in lapsed \/ Ended(j) \/ Family(j) \in alarmed \/ faults > 0
            \/ \E d \in Calls : At(d, "grace") /\ call[d].token = j]_tokenVars
  BY <1>1
<1> QED
  BY <1>2, InvariantHolds, PTL DEF TokensSpec, AlarmForCause
=============================================================================
