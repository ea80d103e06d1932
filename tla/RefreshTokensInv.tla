--------------------------- MODULE RefreshTokensInv ---------------------------
(***************************************************************************)
(* The inductive invariant of RefreshTokens: how the rows hang together,   *)
(* and what a call that is at work relies on.                              *)
(***************************************************************************)
EXTENDS RefreshTokens

Live(t) == tokens[t].state = "live"

Revoked(t) == tokens[t].state = "revoked"

Parent(t) == tokens[t].parent

\* A family goes back to its first token, and a token to the one it was
\* exchanged for.
RowsOK ==
    \A t \in Tokens :
        /\ tokens[t].state = "none" => tokens[t] = NoRow
        /\ tokens[t].state # "none" =>
              /\ Family(t) \in Tokens
              /\ Parent(t) = None => Family(t) = t
              /\ Family(t) # t => Committed(Family(t))
              /\ Parent(t) # None => /\ Committed(Parent(t))
                                     /\ Family(Parent(t)) = Family(t)

\* An exchange revokes the token and gives it one successor.
SuccessorsOK ==
    /\ \A t \in Tokens : Committed(t) /\ Parent(t) # None => Revoked(Parent(t))
    /\ \A s, t \in Tokens : tokens[s].state # "none" /\ tokens[t].state # "none"
                               /\ Parent(s) = Parent(t) /\ Parent(t) # None => s = t

\* What a call holds and knows at each of its steps.
CallOK(c) ==
    LET r == call[c] IN
    /\ r.pc = "idle" => r = Idle
    /\ r.token = None => r.pc \in {"idle", "insert", "commit"} /\ r.rows = {}
    /\ r.token # None => Committed(r.token)
    /\ r.pc \in {"insert", "commit"} /\ r.token # None => r.rows = {r.token} /\ Live(r.token)
    /\ r.pc = "commit" => /\ r.new \in Tokens
                          /\ tokens[r.new].state = "new" /\ Parent(r.new) = r.token
    /\ r.pc = "grace" => /\ r.new \in Tokens /\ r.rows = {} /\ r.token # None
                         /\ Committed(r.new) /\ Parent(r.new) = r.token
    /\ r.pc \notin {"commit", "grace"} => r.new = None
    /\ r.pc = "lookup" => Ended(r.token) \/ Revoked(r.token)
    /\ r.pc \in {"read", "alarm", "sweep"} => Revoked(r.token)
    /\ r.pc \in {"alarm", "sweep"} => Family(r.token) \in alarmed
    /\ r.pc = "sweep" =>
          \A t \in r.rows \cup r.todo : Committed(t) /\ Family(t) = Family(r.token)
    /\ r.pc \in {"expire", "end"} => Ended(r.token)
    /\ r.pc = "expire" => r.rows = {}
    /\ r.pc = "end" => r.rows = {r.token}

\* A row has one holder; a row that is not committed belongs to a call.
LocksOK ==
    /\ \A c, d \in Calls : c # d => call[c].rows \cap call[d].rows = {}
    /\ \A c, d \in Calls : At(c, "commit") /\ At(d, "commit") /\ call[c].new = call[d].new => c = d
    /\ \A t \in Tokens : tokens[t].state = "new" =>
          \E c \in Calls : At(c, "commit") /\ call[c].new = t

\* What was answered, and what may be answered again, is the successor.
GivenOK ==
    /\ \A t \in given[None] : Committed(t)
    /\ \A j \in Tokens : \A t \in given[j] : Committed(t) /\ Parent(t) = j
    /\ \A j \in Tokens : grace[j] # None => Committed(grace[j]) /\ Parent(grace[j]) = j

\* A row that a revocation will miss was committed after its statement began,
\* or comes from such a row.
SweepsOK ==
    /\ closed \subseteq {f \in Tokens : Committed(f)}
    /\ \A c \in Calls, t \in Tokens :
          At(c, "sweep") /\ Live(t) /\ Family(t) = Family(call[c].token)
             => t \in call[c].rows \cup call[c].todo \/ t \in spared

\* The grace entry of an exchanged token is there, or there is a reason.
GraceKept ==
    \A n \in Tokens :
        Committed(n) /\ Parent(n) # None =>
            LET j == Parent(n) IN
            \/ j \in lapsed \/ faults > 0 \/ grace[j] # None
            \/ \E c \in Calls : At(c, "grace") /\ call[c].token = j

\* router.py:74-194, service.py:66-109.  The rows of a family, their locks, the
\* grace entries and the calls at work fit together: what a call found at an
\* earlier statement still holds when it uses it.
TokensInv ==
    /\ TokensTypeOK
    /\ RowsOK /\ SuccessorsOK
    /\ \A c \in Calls : CallOK(c)
    /\ LocksOK
    /\ OneLive /\ GivenOK /\ SessionKept
    /\ SweepsOK /\ AlarmCloses
    /\ GraceKept
=============================================================================
