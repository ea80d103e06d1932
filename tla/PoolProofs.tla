----------------------------- MODULE PoolProofs -----------------------------
(***************************************************************************)
(* An amount that is free in Redis is held by nobody, and a restart finds  *)
(* the amounts of all pending intents: PoolInv is kept by every step, for  *)
(* any numbers of requests, deliveries, admins, rows, amounts and pages.   *)
(* The lemmas are by what becomes of an amount: it stays where it is, or   *)
(* it is passed on.                                                        *)
(***************************************************************************)
EXTENDS ReconciliationProofs, FiniteSetTheorems, WellFoundedInduction

LEMMA InitPool == Init => PoolInv
BY DEF Init, StoreInit, PoolInit, CreationInit, HandlerInit, AdminInit, PoolInv, Fresh, OneOwner,
       Carries, Keeps, AsksFor, Returns, Live, Blank, NoRequest, NoDelivery, NoConfirmation, At,
       Handling, Confirming, ScanOK, Pending, StartupInit, Down

LEMMA FaultsOnly ==
  ASSUME [Next]_vars
  PROVE  UNCHANGED faults \/ \E k \in FaultKinds : Fault(k)
<1>1. ASSUME NEW c \in Creators, CreatorStep(c)
      PROVE  UNCHANGED faults \/ \E k \in FaultKinds : Fault(k)
  BY <1>1 DEF CreatorStep, Creation, SpopAmount, NoFreeAmount, SpopFails, TrackAmount, TrackFails,
     ChooseFallback, FallbackFails, InsertOrder, InsertConflict, InsertFails, CommitOrder,
     CommitFails, UntrackAmount, GiveBackAmount, CompensationFails, poolVars, FaultKinds
<1>2. ASSUME NEW w \in Workers, WorkerStep(w)
      PROVE  UNCHANGED faults \/ \E k \in FaultKinds : Fault(k)
  BY <1>2 DEF WorkerStep, Handle, CheckProcessed, SelectIntent, LockIntent, FlushPaid,
     FlushConflict, CommitPaid, ReleaseAmount, ReleaseFails, HandlerFails, WorkerCrash,
     poolVars, FaultKinds
<1>3. ASSUME NEW d \in Admins, AdminStep(d)
      PROVE  UNCHANGED faults \/ \E k \in FaultKinds : Fault(k)
  BY <1>3 DEF AdminStep, Confirmation, LockPayment, FlushConfirmed, ReleaseConfirmed,
     ReleaseConfirmedFails, CommitConfirmed, ConfirmFails, poolVars, FaultKinds
<1>4. CASE BootStep
  BY <1>4 DEF BootStep, StartupStep, SeedOrSkip, SeedBatch, ClearPending, ScanPage, AddBuffer,
     Rebuild, poolVars
<1> QED
  BY <1>1, <1>2, <1>3, <1>4 DEF Next, Customer, Pay, Deliver, Receive, Request, CreateOrder,
     AdminSelect, SelectPayment, ApiCrash, vars, poolVars, FaultKinds

\* No fault is taken back, and only a restart leaves the served state.
LEMMA CalmBack ==
  ASSUME IInv, [Next]_vars, Calm'
  PROVE  Calm
<1>1. faults \in [FaultKinds -> Nat]
  BY DEF IInv, TypeOK, PoolTypeOK
<1>2. \A k \in FaultKinds : faults[k] \in Nat /\ faults'[k] \in Nat /\ faults[k] <= faults'[k]
  BY <1>1, FaultsOnly DEF Fault
<1>3. CASE ApiCrash
  <2>1. faults'["restart"] = faults["restart"] + 1
    BY <1>1, <1>3 DEF ApiCrash, Fault, FaultKinds
  <2> QED
    BY <1>2, <2>1 DEF Calm, FaultKinds
<1>4. CASE ~ApiCrash
  <2>1. Booting("up") => Booting("up")'
    BY <1>4 DEF Next, vars, processVars, Booting, Customer, Pay, Deliver, WorkerStep, Request,
       CreatorStep, AdminSelect, AdminStep, BootStep, StartupStep, SeedOrSkip, SeedBatch,
       ClearPending, ScanPage, AddBuffer, Rebuild
  <2> QED
    BY <1>2, <2>1 DEF Calm, FaultKinds
<1> QED
  BY <1>3, <1>4

LEMMA CalmEnds ==
  ASSUME IInv, Calm'
  PROVE  /\ ~Fault("redis")
         /\ Fault("db") => Admins = {}
<1>1. faults \in [FaultKinds -> Nat]
  BY DEF IInv, TypeOK, PoolTypeOK
<1>2. ASSUME NEW k \in FaultKinds, Fault(k) PROVE faults'[k] # 0
  BY <1>1, <1>2 DEF Fault
<1> QED
  BY <1>2 DEF Calm, FaultKinds

LEMMA OfferedStays ==
  ASSUME IInv, Next, NEW a \in Amounts, a \in free_amounts' => a \in free_amounts
  PROVE  Offered(a)' => Offered(a)
<1>1. faults \in [FaultKinds -> Nat]
  BY DEF IInv, TypeOK, PoolTypeOK
<1>2. faults'["restart"] = 0 => faults["restart"] = 0
  BY <1>1, FaultsOnly DEF Fault, FaultKinds
<1> QED
  BY <1>2 DEF Offered

-----------------------------------------------------------------------------
(* What becomes of an amount *)

LEMMA OwnerStays ==
  ASSUME NEW a \in Amounts, OneOwner(a),
         \A c \in Creators : Carries(c, a)' => Carries(c, a),
         \A i \in Intents : AsksFor(i, a)' => AsksFor(i, a),
         \A i \in Intents : Keeps(i, a)' => Keeps(i, a),
         \A w \in Workers : Returns(w, a)' => Returns(w, a),
         Offered(a)' => Offered(a)
  PROVE  OneOwner(a)'
BY DEF OneOwner

LEMMA OwnerGone ==
  ASSUME NEW a \in Amounts,
         \A c \in Creators : ~Carries(c, a)',
         \A i \in Intents : ~AsksFor(i, a)',
         \A w \in Workers : ~Returns(w, a)'
  PROVE  OneOwner(a)'
BY DEF OneOwner, Keeps

\* SPOP
LEMMA FreeToRequest ==
  ASSUME NEW a \in Amounts, OneOwner(a), Offered(a), ~Offered(a)',
         NEW c \in Creators,
         \A d \in Creators : Carries(d, a)' => d = c \/ Carries(d, a),
         \A i \in Intents : AsksFor(i, a)' => AsksFor(i, a),
         \A i \in Intents : Keeps(i, a)' => Keeps(i, a),
         \A w \in Workers : Returns(w, a)' => Returns(w, a)
  PROVE  OneOwner(a)'
BY DEF OneOwner

\* The insert
LEMMA RequestToIntent ==
  ASSUME NEW a \in Amounts, OneOwner(a), NEW c \in Creators, Carries(c, a),
         \A d \in Creators : Carries(d, a)' => Carries(d, a) /\ d # c,
         \A w \in Workers : Returns(w, a)' => Returns(w, a),
         Offered(a)' => Offered(a)
  PROVE  OneOwner(a)'
BY DEF OneOwner

\* The commit of a payment
LEMMA IntentToDelivery ==
  ASSUME IInv, NEW a \in Amounts, OneOwner(a), NEW i \in Intents, Keeps(i, a), NEW w \in Workers,
         \A c \in Creators : Carries(c, a)' => Carries(c, a),
         \A j \in Intents : AsksFor(j, a)' => AsksFor(j, a) /\ j # i,
         \A v \in Workers : Returns(v, a)' => Returns(v, a) \/ v = w,
         Offered(a)' => Offered(a)
  PROVE  OneOwner(a)'
<1>1. \A j \in Intents : AsksFor(j, a) => j = i
  BY DEF IInv, UniqueLive, Keeps, AsksFor
<1> QED
  BY <1>1 DEF OneOwner, Keeps

\* The release
LEMMA DeliveryToFree ==
  ASSUME NEW a \in Amounts, OneOwner(a), NEW w \in Workers, Returns(w, a),
         \A c \in Creators : Carries(c, a)' => Carries(c, a),
         \A i \in Intents : AsksFor(i, a)' => AsksFor(i, a),
         \A i \in Intents : Keeps(i, a)' => Keeps(i, a),
         \A v \in Workers : Returns(v, a)' => Returns(v, a) /\ v # w
  PROVE  OneOwner(a)'
BY DEF OneOwner, Keeps

\* The release by an admin
LEMMA IntentToFree ==
  ASSUME IInv, NEW a \in Amounts, OneOwner(a), NEW i \in Intents, Keeps(i, a),
         \A c \in Creators : Carries(c, a)' => Carries(c, a),
         \A j \in Intents : AsksFor(j, a)' => AsksFor(j, a),
         \A j \in Intents : Keeps(j, a)' => Keeps(j, a) /\ j # i,
         \A v \in Workers : Returns(v, a)' => Returns(v, a)
  PROVE  OneOwner(a)'
<1>1. \A j \in Intents : Keeps(j, a) => j = i
  BY DEF IInv, UniqueLive, Keeps, AsksFor
<1> QED
  BY <1>1 DEF OneOwner, Keeps

\* The compensation
LEMMA RequestToFree ==
  ASSUME NEW a \in Amounts, OneOwner(a), NEW c \in Creators, Carries(c, a),
         \A d \in Creators : Carries(d, a)' => Carries(d, a) /\ d # c,
         \A i \in Intents : AsksFor(i, a)' => AsksFor(i, a),
         \A i \in Intents : Keeps(i, a)' => Keeps(i, a),
         \A w \in Workers : Returns(w, a)' => Returns(w, a)
  PROVE  OneOwner(a)'
BY DEF OneOwner

-----------------------------------------------------------------------------
(* A request *)

LEMMA WhileUp ==
  ASSUME Booting("up"), UNCHANGED boot,
         \A c \in Creators : request'[c].source = "REDIS" /\ request'[c].pc # "fallback",
         \A a \in Amounts : OneOwner(a)'
  PROVE  PoolInv'
BY DEF PoolInv, Fresh, ScanOK, Booting, At

\* A step of request c: the amounts of the others are as they were.
LEMMA OthersCarry ==
  ASSUME IInv, NEW c \in Creators, NEW r, Become(c, r)
  PROVE  /\ request'[c] = r
         /\ \A d \in Creators \ {c} : request'[d] = request[d]
         /\ \A d \in Creators \ {c}, a \in Amounts : Carries(d, a)' <=> Carries(d, a)
<1>1. request' = [request EXCEPT ![c] = r] /\ request \in [Creators -> Requests]
  BY DEF IInv, TypeOK, CreationTypeOK, Become
<1>2. /\ request'[c] = r
      /\ \A d \in Creators \ {c} : request'[d] = request[d]
  BY <1>1
<1> QED
  BY <1>2 DEF Carries

\* The next step of a request that goes on with its amount, or ends.
LEMMA CarriesOn ==
  ASSUME IInv, PoolInv, Calm, Next, Booting("up"), UNCHANGED <<intents, handler, admin, boot>>,
         NEW c \in Creators, NEW r, Become(c, r),
         r.source = "REDIS", r.pc # "fallback",
         \/ r.pc = "idle"
         \/ /\ request[c].pc \in {"track", "insert", "untrack", "give_back"}
            /\ r.amount = request[c].amount,
         free_amounts' \subseteq free_amounts
  PROVE  PoolInv'
<1>1. /\ request'[c] = r
      /\ \A d \in Creators \ {c} : request'[d] = request[d]
      /\ \A d \in Creators \ {c}, a \in Amounts : Carries(d, a)' <=> Carries(d, a)
  BY OthersCarry
<1>2. \A d \in Creators : request'[d].source = "REDIS" /\ request'[d].pc # "fallback"
  BY <1>1 DEF PoolInv, At
<1>3. ASSUME NEW a \in Amounts PROVE OneOwner(a)'
  <2>1. Carries(c, a)' => Carries(c, a)
    BY <1>1 DEF Carries
  <2>2. \A d \in Creators : Carries(d, a)' => Carries(d, a)
    BY <1>1, <2>1
  <2>3. \A i \in Intents : /\ AsksFor(i, a)' => AsksFor(i, a)
                           /\ Keeps(i, a)' => Keeps(i, a)
    BY DEF Keeps, AsksFor, Live, Released, Confirming
  <2>4. \A w \in Workers : Returns(w, a)' => Returns(w, a)
    BY DEF Returns, Handling
  <2> QED
    BY <2>2, <2>3, <2>4, OwnerStays, OfferedStays DEF PoolInv
<1> QED
  BY <1>2, <1>3, WhileUp

LEMMA SpopPool ==
  ASSUME IInv, PoolInv, Calm, Next, NEW c \in Creators, CreatorStep(c), SpopAmount(c)
  PROVE  PoolInv'
<1>1. PICK b \in free_amounts :
          /\ Pop(b)
          /\ Become(c, [request[c] EXCEPT !.pc = "track", !.amount = b])
  BY DEF SpopAmount
<1>2. request[c] \in Requests /\ b \in Amounts
  BY DEF IInv, TypeOK, CreationTypeOK, PoolTypeOK
<1> DEFINE r == [request[c] EXCEPT !.pc = "track", !.amount = b]
<1>3. r.pc = "track" /\ r.amount = b /\ r.source = request[c].source
  BY <1>2 DEF Requests
<1>4. /\ request'[c] = r
      /\ \A d \in Creators \ {c} : request'[d] = request[d]
      /\ \A d \in Creators \ {c}, a \in Amounts : Carries(d, a)' <=> Carries(d, a)
  BY <1>1, OthersCarry
<1>5. \A d \in Creators : request'[d].source = "REDIS" /\ request'[d].pc # "fallback"
  BY <1>3, <1>4 DEF PoolInv, At
<1>6. ASSUME NEW a \in Amounts PROVE OneOwner(a)'
  <2>1. Carries(c, a)' => a = b
    BY <1>3, <1>4 DEF Carries
  <2>2. \A i \in Intents : /\ AsksFor(i, a)' => AsksFor(i, a)
                           /\ Keeps(i, a)' => Keeps(i, a)
    BY DEF CreatorStep, SpopAmount, storeVars, Keeps, AsksFor, Live, Released, Confirming
  <2>3. \A w \in Workers : Returns(w, a)' => Returns(w, a)
    BY DEF CreatorStep, Returns, Handling
  <2>4. free_amounts' = free_amounts \ {b}
    BY <1>1 DEF Pop
  <2>5. CASE a = b
    <3>1. Offered(a) /\ ~Offered(a)'
      BY <2>4, <2>5 DEF Offered, Calm, CreatorStep
    <3> HIDE DEF r
    <3> QED
      BY <1>4, <2>2, <2>3, <3>1, FreeToRequest DEF PoolInv
  <2>6. CASE a # b
    BY <1>4, <2>1, <2>2, <2>3, <2>4, <2>6, OwnerStays, OfferedStays DEF PoolInv
  <2> QED
    BY <2>5, <2>6
<1> QED
  BY <1>5, <1>6, WhileUp DEF CreatorStep

LEMMA InsertPool ==
  ASSUME IInv, PoolInv, Calm, Next, NEW c \in Creators, CreatorStep(c), InsertOrder(c)
  PROVE  PoolInv'
<1> DEFINE b == request[c].amount
<1>1. PICK i \in Intents :
          /\ IsNextId(i) /\ InsertRow(i, b)
          /\ Become(c, [request[c] EXCEPT !.pc = "commit", !.intent = i])
  BY DEF InsertOrder
<1>2. /\ request[c] \in Requests /\ b \in Amounts
      /\ intents \in [Intents -> [status : {"NONE", "NEW", "PENDING", "PAID"},
                                  amount : Amounts \cup {None}, sms : Sms \cup {None}]]
  BY DEF IInv, TypeOK, StoreTypeOK, CreationTypeOK, CreatorsOK, InsertOrder, At
<1> DEFINE r == [request[c] EXCEPT !.pc = "commit", !.intent = i]
<1>3. r.pc = "commit" /\ r.source = request[c].source
  BY <1>2 DEF Requests
<1>4. /\ request'[c] = r
      /\ \A d \in Creators \ {c} : request'[d] = request[d]
      /\ \A d \in Creators \ {c}, a \in Amounts : Carries(d, a)' <=> Carries(d, a)
  BY <1>1, OthersCarry
<1>5. \A d \in Creators : request'[d].source = "REDIS" /\ request'[d].pc # "fallback"
  BY <1>3, <1>4 DEF PoolInv, At
<1>6. intents'[i].amount = b /\ \A j \in Intents \ {i} : intents'[j] = intents[j]
  BY <1>1, <1>2 DEF InsertRow
<1>7. ASSUME NEW a \in Amounts PROVE OneOwner(a)'
  <2>1. ~Carries(c, a)'
    BY <1>3, <1>4 DEF Carries
  <2>2. \A j \in Intents : /\ AsksFor(j, a)' => (j = i /\ a = b) \/ AsksFor(j, a)
                           /\ Keeps(j, a)' => (j = i /\ a = b) \/ Keeps(j, a)
    BY <1>6 DEF CreatorStep, Keeps, AsksFor, Live, Released, Confirming
  <2>3. \A w \in Workers : Returns(w, a)' => Returns(w, a)
    BY DEF CreatorStep, Returns, Handling
  <2>4. Offered(a)' => Offered(a)
    BY OfferedStays DEF InsertOrder, poolVars
  <2>5. CASE a = b
    <3>1. Carries(c, a)
      BY <2>5 DEF Carries, InsertOrder, At
    <3> HIDE DEF b
    <3> QED
      BY <1>4, <2>1, <2>3, <2>4, <3>1, RequestToIntent DEF PoolInv
  <2>6. CASE a # b
    BY <1>4, <2>1, <2>2, <2>3, <2>4, <2>6, OwnerStays DEF PoolInv
  <2> QED
    BY <2>5, <2>6
<1> QED
  BY <1>5, <1>7, WhileUp DEF CreatorStep

LEMMA GiveBackPool ==
  ASSUME IInv, PoolInv, Calm, Next, NEW c \in Creators, CreatorStep(c), GiveBackAmount(c)
  PROVE  PoolInv'
<1> DEFINE b == request[c].amount
<1>1. /\ request'[c] = NoRequest
      /\ \A d \in Creators \ {c} : request'[d] = request[d]
      /\ \A d \in Creators \ {c}, a \in Amounts : Carries(d, a)' <=> Carries(d, a)
  BY OthersCarry DEF GiveBackAmount, Answer
<1>2. \A d \in Creators : request'[d].source = "REDIS" /\ request'[d].pc # "fallback"
  BY <1>1 DEF PoolInv, At, NoRequest
<1>3. ASSUME NEW a \in Amounts PROVE OneOwner(a)'
  <2>1. ~Carries(c, a)'
    BY <1>1 DEF Carries, NoRequest
  <2>2. \A j \in Intents : /\ AsksFor(j, a)' => AsksFor(j, a)
                           /\ Keeps(j, a)' => Keeps(j, a)
    BY DEF CreatorStep, GiveBackAmount, storeVars, Keeps, AsksFor, Live, Released, Confirming
  <2>3. \A w \in Workers : Returns(w, a)' => Returns(w, a)
    BY DEF CreatorStep, Returns, Handling
  <2>4. free_amounts' = free_amounts \cup {b}
    BY DEF GiveBackAmount, GiveBack
  <2>5. CASE a = b
    <3>1. Carries(c, a)
      BY <2>5 DEF Carries, GiveBackAmount, At
    <3> QED
      BY <1>1, <2>1, <2>2, <2>3, <3>1, RequestToFree DEF PoolInv
  <2>6. CASE a # b
    BY <1>1, <2>1, <2>2, <2>3, <2>4, <2>6, OwnerStays, OfferedStays DEF PoolInv
  <2> QED
    BY <2>5, <2>6
<1> QED
  BY <1>2, <1>3, WhileUp DEF CreatorStep

\* The end of the transaction: the row is pending now, or it is gone.
LEMMA EndOfInsertPool ==
  ASSUME IInv, PoolInv, Calm, Next, NEW c \in Creators, CreatorStep(c),
         CommitOrder(c) \/ CommitFails(c)
  PROVE  PoolInv'
<1> DEFINE k == request[c].intent
<1>1. /\ request'[c] = NoRequest
      /\ \A d \in Creators \ {c} : request'[d] = request[d]
      /\ \A d \in Creators \ {c}, a \in Amounts : Carries(d, a)' <=> Carries(d, a)
  BY OthersCarry DEF CommitOrder, CommitFails, Answer
<1>2. \A d \in Creators : request'[d].source = "REDIS" /\ request'[d].pc # "fallback"
  BY <1>1 DEF PoolInv, At, NoRequest
<1>3. /\ k \in Intents /\ intents[k].status = "NEW"
      /\ intents \in [Intents -> [status : {"NONE", "NEW", "PENDING", "PAID"},
                                  amount : Amounts \cup {None}, sms : Sms \cup {None}]]
  BY DEF IInv, TypeOK, StoreTypeOK, CreatorsOK, CommitOrder, CommitFails
<1>4. /\ \A j \in Intents \ {k} : intents'[j] = intents[j]
      /\ intents'[k].status \in {"NEW", "PENDING"} => intents'[k].amount = intents[k].amount
  BY <1>3 DEF CommitOrder, CommitFails, CommitRow, RollbackRow, Blank
<1>5. ASSUME NEW a \in Amounts PROVE OneOwner(a)'
  <2>1. ~Carries(c, a)'
    BY <1>1 DEF Carries, NoRequest
  <2>2. \A i \in Intents : Released(i)' <=> Released(i)
    BY DEF CreatorStep, Released, Confirming
  <2>3. \A j \in Intents : /\ AsksFor(j, a)' => AsksFor(j, a)
                           /\ Keeps(j, a)' => Keeps(j, a)
    BY <1>3, <1>4, <2>2 DEF Keeps, AsksFor, Live
  <2>4. \A w \in Workers : Returns(w, a)' => Returns(w, a)
    BY DEF CreatorStep, Returns, Handling
  <2>5. Offered(a)' => Offered(a)
    BY OfferedStays DEF CommitOrder, CommitFails, poolVars, poolSets
  <2> QED
    BY <1>1, <2>1, <2>3, <2>4, <2>5, OwnerStays DEF PoolInv
<1> QED
  BY <1>2, <1>5, WhileUp DEF CreatorStep

LEMMA CreatorPool ==
  ASSUME IInv, PoolInv, Calm, Next, Calm', NEW c \in Creators, CreatorStep(c)
  PROVE  PoolInv'
<1>1. request[c] \in Requests /\ request[c].source = "REDIS" /\ request[c].pc # "fallback"
  BY DEF IInv, TypeOK, CreationTypeOK, PoolInv, At
<1>2. UNCHANGED <<handler, admin, boot>> /\ Booting("up")
  BY DEF CreatorStep
<1>3. CASE NoFreeAmount(c)
  BY <1>2, <1>3, CarriesOn DEF NoFreeAmount, Answer, NoRequest, storeVars, poolVars
<1>4. CASE TrackAmount(c)
  <2> DEFINE r == [request[c] EXCEPT !.pc = "insert", !.amount = request[c].amount,
                                     !.source = "REDIS"]
  <2>1. r.pc = "insert" /\ r.amount = request[c].amount /\ r.source = "REDIS"
    BY <1>1 DEF Requests
  <2>2. /\ Become(c, r) /\ free_amounts' = free_amounts /\ request[c].pc = "track"
        /\ UNCHANGED intents
    BY <1>4 DEF TrackAmount, Allocated, Track, At, storeVars
  <2> QED
    BY <1>2, <2>1, <2>2, CarriesOn
<1>5. CASE InsertConflict(c) \/ InsertFails(c)
  <2> DEFINE r == [request[c] EXCEPT !.pc = "untrack"]
  <2>1. r.pc = "untrack" /\ r.amount = request[c].amount /\ r.source = "REDIS"
    BY <1>1 DEF Requests
  <2>2. /\ Become(c, r) /\ free_amounts' = free_amounts /\ request[c].pc = "insert"
        /\ UNCHANGED intents
    BY <1>1, <1>5 DEF InsertConflict, InsertFails, Goto, At, storeVars, poolVars, poolSets
  <2> QED
    BY <1>2, <2>1, <2>2, CarriesOn
<1>6. CASE UntrackAmount(c)
  <2> DEFINE r == [request[c] EXCEPT !.pc = "give_back"]
  <2>1. r.pc = "give_back" /\ r.amount = request[c].amount /\ r.source = "REDIS"
    BY <1>1 DEF Requests
  <2>2. /\ Become(c, r) /\ free_amounts' = free_amounts /\ request[c].pc = "untrack"
        /\ UNCHANGED intents
    BY <1>6 DEF UntrackAmount, Goto, Untrack, At, storeVars
  <2> QED
    BY <1>2, <2>1, <2>2, CarriesOn
<1>7. ~(SpopFails(c) \/ TrackFails(c) \/ CompensationFails(c))
  BY CalmEnds DEF SpopFails, TrackFails, CompensationFails
<1>8. ~(ChooseFallback(c) \/ FallbackFails(c))
  BY <1>1 DEF ChooseFallback, FallbackFails, At
<1> QED
  BY <1>3, <1>4, <1>5, <1>6, <1>7, <1>8, SpopPool, InsertPool, GiveBackPool, EndOfInsertPool
  DEF CreatorStep, Creation

-----------------------------------------------------------------------------
(* A delivery *)

\* The worker does not wait for the API: it may have all but startup done.
LEMMA ByWorker ==
  ASSUME IInv, PoolInv, Calm, Next, NEW w \in Workers, Deliver(w) \/ WorkerStep(w),
         \A a \in Amounts : OneOwner(a)',
         \A i \in Intents : Pending(i)' => /\ Pending(i) /\ intents'[i].amount = intents[i].amount
                                           /\ Tracked(i) => Tracked(i)'
  PROVE  PoolInv'
<1>1. UNCHANGED <<request, admin, boot>>
  BY DEF Deliver, WorkerStep
<1>2. CASE Booting("up")
  BY <1>1, <1>2, WhileUp DEF PoolInv, At
<1>3. CASE ~Booting("up")
  <2>1. faults["restart"] # 0
    BY <1>3 DEF PoolInv, Fresh, Deliver, WorkerStep, Handle, CheckProcessed, SelectIntent,
       LockIntent, FlushPaid, FlushConflict, CommitPaid, ReleaseAmount, ReleaseFails,
       HandlerFails, WorkerCrash, Handling
  <2>2. faults'["restart"] # 0
    <3>1. faults \in [FaultKinds -> Nat]
      BY DEF IInv, TypeOK, PoolTypeOK
    <3> QED
      BY <2>1, <3>1, FaultsOnly DEF Fault, FaultKinds
  <2>3. Fresh'
    BY <1>1, <1>3, <2>2 DEF PoolInv, Fresh, Booting, At, Confirming
  <2>4. ScanOK'
    BY <1>1 DEF PoolInv, ScanOK, Tracked, Pending, Booting
  <2> QED
    BY <1>1, <2>3, <2>4 DEF PoolInv, At
<1> QED
  BY <1>2, <1>3

\* A step of delivery w: the others return what they did.
LEMMA OthersReturn ==
  ASSUME IInv, NEW w \in Workers, NEW h, Turn(w, h)
  PROVE  /\ handler'[w] = h
         /\ \A v \in Workers \ {w}, a \in Amounts : Returns(v, a)' <=> Returns(v, a)
<1>1. handler' = [handler EXCEPT ![w] = h] /\ handler \in [Workers -> Deliveries]
  BY DEF IInv, TypeOK, HandlerTypeOK, Turn
<1>2. handler'[w] = h /\ \A v \in Workers \ {w} : handler'[v] = handler[v]
  BY <1>1
<1> QED
  BY <1>2 DEF Returns, Handling

\* A step with no commit and no release.
LEMMA NotReturned ==
  ASSUME IInv, PoolInv, Calm, Next, NEW w \in Workers, WorkerStep(w),
         UNCHANGED <<intents, poolSets>>,
         NEW h, Turn(w, h), h.pc # "release"
  PROVE  PoolInv'
<1>1. /\ handler'[w] = h
      /\ \A v \in Workers \ {w}, a \in Amounts : Returns(v, a)' <=> Returns(v, a)
  BY OthersReturn
<1>2. ASSUME NEW a \in Amounts PROVE OneOwner(a)'
  <2>1. \A v \in Workers : Returns(v, a)' => Returns(v, a)
    BY <1>1 DEF Returns, Handling
  <2>2. \A c \in Creators : Carries(c, a)' => Carries(c, a)
    BY DEF WorkerStep, Carries
  <2>3. \A i \in Intents : /\ AsksFor(i, a)' => AsksFor(i, a)
                           /\ Keeps(i, a)' => Keeps(i, a)
    BY DEF WorkerStep, Keeps, AsksFor, Live, Released, Confirming
  <2> QED
    BY <2>1, <2>2, <2>3, OwnerStays, OfferedStays DEF PoolInv, poolSets
<1> QED
  BY <1>2, ByWorker DEF Tracked, Pending, poolSets

LEMMA CommitPaidPool ==
  ASSUME IInv, PoolInv, Calm, Next, NEW w \in Workers, WorkerStep(w), CommitPaid(w)
  PROVE  PoolInv'
<1> DEFINE i == handler[w].intent
           b == SmsAmount[handler[w].sms]
           h == [handler[w] EXCEPT !.pc = "release"]
<1>1. /\ handler[w] \in Deliveries
      /\ intents \in [Intents -> [status : {"NONE", "NEW", "PENDING", "PAID"},
                                  amount : Amounts \cup {None}, sms : Sms \cup {None}]]
  BY DEF IInv, TypeOK, HandlerTypeOK, StoreTypeOK
<1>2. h.pc = "release" /\ h.sms = handler[w].sms
  BY <1>1 DEF Deliveries
<1>3. /\ handler'[w] = h
      /\ \A v \in Workers \ {w}, a \in Amounts : Returns(v, a)' <=> Returns(v, a)
  BY OthersReturn DEF CommitPaid, Proceed
<1>4. /\ HandlerHolds(w) /\ i \in Intents /\ Pending(i) /\ intents[i].amount = b
  BY DEF IInv, HandlersOK, CommitPaid, Handling, HandlerHolds
<1>5. ~Released(i)
  BY <1>4 DEF IInv, LockExclusive, AdminHolds, Released, Confirming
<1>6. Keeps(i, b)
  BY <1>4, <1>5 DEF Keeps, AsksFor, Live, Pending
<1>7. intents'[i].status = "PAID" /\ \A j \in Intents \ {i} : intents'[j] = intents[j]
  BY <1>1, <1>4 DEF CommitPaid, PayRow
<1>8. ASSUME NEW a \in Amounts PROVE OneOwner(a)'
  <2>1. \A c \in Creators : Carries(c, a)' => Carries(c, a)
    BY DEF WorkerStep, Carries
  <2>2. \A j \in Intents : Released(j)' <=> Released(j)
    BY DEF WorkerStep, Released, Confirming
  <2>3. \A j \in Intents : /\ AsksFor(j, a)' => AsksFor(j, a) /\ j # i
                           /\ Keeps(j, a)' => Keeps(j, a)
    BY <1>7, <2>2 DEF Keeps, AsksFor, Live
  <2>4. Returns(w, a)' => a = b
    BY <1>2, <1>3 DEF Returns
  <2>5. Offered(a)' => Offered(a)
    BY OfferedStays DEF CommitPaid, poolVars
  <2>6. CASE a = b
    <3> HIDE DEF i, b, h
    <3> QED
      BY <1>3, <1>4, <1>6, <2>1, <2>3, <2>5, <2>6, IntentToDelivery DEF PoolInv
  <2>7. CASE a # b
    BY <1>3, <2>1, <2>3, <2>4, <2>5, <2>7, OwnerStays DEF PoolInv
  <2> QED
    BY <2>6, <2>7
<1> QED
  BY <1>7, <1>8, ByWorker DEF CommitPaid, poolVars, Tracked, Pending

LEMMA ReleasePool ==
  ASSUME IInv, PoolInv, Calm, Next, NEW w \in Workers, WorkerStep(w), ReleaseAmount(w)
  PROVE  PoolInv'
<1> DEFINE b == SmsAmount[handler[w].sms]
<1>1. /\ handler'[w] = NoDelivery
      /\ \A v \in Workers \ {w}, a \in Amounts : Returns(v, a)' <=> Returns(v, a)
  BY OthersReturn DEF ReleaseAmount, Leave
<1>2. ASSUME NEW a \in Amounts PROVE OneOwner(a)'
  <2>1. \A c \in Creators : Carries(c, a)' => Carries(c, a)
    BY DEF WorkerStep, Carries
  <2>2. \A j \in Intents : /\ AsksFor(j, a)' => AsksFor(j, a)
                           /\ Keeps(j, a)' => Keeps(j, a)
    BY DEF WorkerStep, ReleaseAmount, storeVars, Keeps, AsksFor, Live, Released, Confirming
  <2>3. ~Returns(w, a)'
    BY <1>1 DEF Returns, Handling, NoDelivery
  <2>4. free_amounts' \subseteq free_amounts \cup {b}
    BY DEF ReleaseAmount, Release
  <2>5. CASE a = b
    <3>1. Returns(w, a)
      BY <2>5 DEF Returns, ReleaseAmount
    <3> QED
      BY <1>1, <2>1, <2>2, <2>3, <3>1, DeliveryToFree DEF PoolInv
  <2>6. CASE a # b
    BY <1>1, <2>1, <2>2, <2>3, <2>4, <2>6, OwnerStays, OfferedStays DEF PoolInv
  <2> QED
    BY <2>5, <2>6
<1>3. ASSUME NEW i \in Intents, Pending(i) PROVE Tracked(i) => Tracked(i)'
  <2>1. Returns(w, b) /\ b \in Amounts
    BY StoreAssumption DEF Returns, ReleaseAmount, IInv, HandlersOK, Handling
  <2>2. AsksFor(i, intents[i].amount)
    BY <1>3 DEF AsksFor, Live, Pending
  <2>3. intents[i].amount # b
    BY <2>1, <2>2 DEF PoolInv, OneOwner
  <2> QED
    BY <2>3 DEF Tracked, ReleaseAmount, Release, storeVars
<1> QED
  BY <1>2, <1>3, ByWorker DEF ReleaseAmount, storeVars, Pending

LEMMA WorkerPool ==
  ASSUME IInv, PoolInv, Calm, Next, Calm', NEW w \in Workers, WorkerStep(w)
  PROVE  PoolInv'
<1>1. handler[w] \in Deliveries /\ NoDelivery.pc # "release"
  BY DEF IInv, TypeOK, HandlerTypeOK, NoDelivery
<1>2. ASSUME NEW pc \in {"select", "flush", "commit"}
      PROVE  [handler[w] EXCEPT !.pc = pc].pc # "release"
  BY <1>1 DEF Deliveries
<1>3. \A i : [handler[w] EXCEPT !.pc = "lock", !.intent = i].pc # "release"
  BY <1>1 DEF Deliveries
<1>4. CASE CheckProcessed(w) \/ LockIntent(w) \/ FlushPaid(w)
  BY <1>1, <1>2, <1>4, NotReturned
  DEF CheckProcessed, LockIntent, FlushPaid, Proceed, Leave, storeVars, poolVars, poolSets
<1>5. CASE SelectIntent(w)
  BY <1>1, <1>3, <1>5, NotReturned DEF SelectIntent, Leave, storeVars, poolVars, poolSets
<1>6. CASE FlushConflict(w) \/ HandlerFails(w) \/ WorkerCrash(w)
  BY <1>1, <1>6, NotReturned
  DEF FlushConflict, HandlerFails, WorkerCrash, Leave, poolVars, poolSets
<1>7. ~ReleaseFails(w)
  BY CalmEnds DEF ReleaseFails
<1> QED
  BY <1>4, <1>5, <1>6, <1>7, CommitPaidPool, ReleasePool DEF WorkerStep, Handle

LEMMA DeliverPool ==
  ASSUME IInv, PoolInv, Calm, Next, NEW w \in Workers, Deliver(w)
  PROVE  PoolInv'
<1>1. PICK s \in Sms : payer[s] # None /\ Receive(w, s)
  BY DEF Deliver
<1> DEFINE h == [NoDelivery EXCEPT !.pc = "check", !.sms = s]
<1>2. h.pc = "check" /\ Turn(w, h) /\ UNCHANGED <<storeVars, poolVars>>
  BY <1>1 DEF Receive, NoDelivery
<1>3. /\ handler'[w] = h
      /\ \A v \in Workers \ {w}, a \in Amounts : Returns(v, a)' <=> Returns(v, a)
  BY <1>2, OthersReturn
<1>4. ASSUME NEW a \in Amounts PROVE OneOwner(a)'
  <2>1. \A v \in Workers : Returns(v, a)' => Returns(v, a)
    <3>1. ~Returns(w, a)'
      BY <1>2, <1>3 DEF Returns, Handling
    <3> QED
      BY <1>3, <3>1
  <2>2. \A c \in Creators : Carries(c, a)' => Carries(c, a)
    BY DEF Deliver, Carries
  <2>3. \A i \in Intents : /\ AsksFor(i, a)' => AsksFor(i, a)
                           /\ Keeps(i, a)' => Keeps(i, a)
    BY <1>2 DEF Deliver, storeVars, Keeps, AsksFor, Live, Released, Confirming
  <2> QED
    BY <1>2, <2>1, <2>2, <2>3, OwnerStays, OfferedStays DEF PoolInv, poolVars
<1> QED
  BY <1>2, <1>4, ByWorker DEF storeVars, poolVars, Tracked, Pending

-----------------------------------------------------------------------------
(* A confirmation *)

\* A step of admin d: the other confirmations are where they were.
LEMMA OthersConfirm ==
  ASSUME IInv, NEW d \in Admins, NEW r, Step(d, r)
  PROVE  /\ admin'[d] = r
         /\ \A e \in Admins \ {d} : admin'[e] = admin[e]
BY DEF IInv, TypeOK, AdminTypeOK, Step

\* A step before the release.
LEMMA NotReleased ==
  ASSUME IInv, PoolInv, Calm, Next, Booting("up"), NEW d \in Admins,
         UNCHANGED <<intents, poolSets, request, handler, boot>>,
         ~Confirming(d, "commit"), NEW r, Step(d, r), r.pc # "commit"
  PROVE  PoolInv'
<1>1. /\ admin'[d] = r
      /\ \A e \in Admins \ {d} : admin'[e] = admin[e]
  BY OthersConfirm
<1>2. ASSUME NEW a \in Amounts PROVE OneOwner(a)'
  <2>1. \A i \in Intents : Released(i)' <=> Released(i)
    BY <1>1 DEF Released, Confirming
  <2>2. \A i \in Intents : /\ AsksFor(i, a)' => AsksFor(i, a)
                           /\ Keeps(i, a)' => Keeps(i, a)
    BY <2>1 DEF Keeps, AsksFor, Live
  <2>3. \A c \in Creators : Carries(c, a)' => Carries(c, a)
    BY DEF Carries
  <2>4. \A w \in Workers : Returns(w, a)' => Returns(w, a)
    BY DEF Returns, Handling
  <2> QED
    BY <2>2, <2>3, <2>4, OwnerStays, OfferedStays DEF PoolInv, poolSets
<1> QED
  BY <1>2, WhileUp DEF PoolInv, At

LEMMA ReleaseConfirmedPool ==
  ASSUME IInv, PoolInv, Calm, Next, NEW d \in Admins, AdminStep(d), ReleaseConfirmed(d)
  PROVE  PoolInv'
<1> DEFINE k == admin[d].intent
           b == intents[k].amount
           r == [admin[d] EXCEPT !.pc = "commit"]
<1>1. /\ admin[d] \in Confirmations /\ RowsOK
      /\ k \in Intents /\ Pending(k) /\ AdminHolds(d)
  BY DEF IInv, TypeOK, AdminTypeOK, AdminsOK, AdminHolds, ReleaseConfirmed, Confirming
<1>2. b \in Amounts
  BY <1>1 DEF RowsOK, Pending
<1>3. r.pc = "commit" /\ r.intent = k
  BY <1>1 DEF Confirmations
<1>4. /\ admin'[d] = r
      /\ \A e \in Admins \ {d} : admin'[e] = admin[e]
  BY OthersConfirm DEF ReleaseConfirmed, Advance
<1>5. \A e \in Admins : Confirming(e, "commit") => admin[e].intent # k
  BY <1>1 DEF IInv, LockExclusive, AdminHolds, Confirming, ReleaseConfirmed
<1>6. Keeps(k, b)
  BY <1>1, <1>5 DEF Keeps, AsksFor, Live, Pending, Released
<1>7. \A i \in Intents : Released(i)' <=> Released(i) \/ i = k
  BY <1>3, <1>4 DEF Released, Confirming, ReleaseConfirmed
<1>8. ASSUME NEW a \in Amounts PROVE OneOwner(a)'
  <2>1. \A c \in Creators : Carries(c, a)' => Carries(c, a)
    BY DEF AdminStep, Carries
  <2>2. \A j \in Intents : /\ AsksFor(j, a)' => AsksFor(j, a)
                           /\ Keeps(j, a)' => Keeps(j, a) /\ j # k
    BY <1>7 DEF ReleaseConfirmed, storeVars, Keeps, AsksFor, Live
  <2>3. \A w \in Workers : Returns(w, a)' => Returns(w, a)
    BY DEF AdminStep, Returns, Handling
  <2>4. free_amounts' \subseteq free_amounts \cup {b}
    BY DEF ReleaseConfirmed, Release
  <2>5. CASE a = b
    <3> HIDE DEF k, b, r
    <3> QED
      BY <1>1, <1>6, <2>1, <2>2, <2>3, <2>5, IntentToFree DEF PoolInv
  <2>6. CASE a # b
    BY <2>1, <2>2, <2>3, <2>4, <2>6, OwnerStays, OfferedStays DEF PoolInv
  <2> QED
    BY <2>5, <2>6
<1> QED
  BY <1>8, WhileUp DEF AdminStep, PoolInv, At

LEMMA CommitConfirmedPool ==
  ASSUME IInv, PoolInv, Calm, Next, NEW d \in Admins, AdminStep(d), CommitConfirmed(d)
  PROVE  PoolInv'
<1> DEFINE k == admin[d].intent
<1>1. /\ k \in Intents
      /\ intents \in [Intents -> [status : {"NONE", "NEW", "PENDING", "PAID"},
                                  amount : Amounts \cup {None}, sms : Sms \cup {None}]]
  BY DEF IInv, TypeOK, StoreTypeOK, AdminsOK, CommitConfirmed, Confirming
<1>2. /\ admin'[d] = NoConfirmation
      /\ \A e \in Admins \ {d} : admin'[e] = admin[e]
  BY OthersConfirm DEF CommitConfirmed, Respond
<1>3. \A i \in Intents : Released(i) => Released(i)' \/ i = k
  BY <1>2 DEF Released, Confirming
<1>4. intents'[k].status = "PAID" /\ \A j \in Intents \ {k} : intents'[j] = intents[j]
  BY <1>1 DEF CommitConfirmed, PayRow
<1>5. ASSUME NEW a \in Amounts PROVE OneOwner(a)'
  <2>1. \A c \in Creators : Carries(c, a)' => Carries(c, a)
    BY DEF AdminStep, Carries
  <2>2. \A j \in Intents : /\ AsksFor(j, a)' => AsksFor(j, a)
                           /\ Keeps(j, a)' => Keeps(j, a)
    BY <1>3, <1>4 DEF Keeps, AsksFor, Live
  <2>3. \A w \in Workers : Returns(w, a)' => Returns(w, a)
    BY DEF AdminStep, Returns, Handling
  <2> QED
    BY <2>1, <2>2, <2>3, OwnerStays, OfferedStays DEF PoolInv, CommitConfirmed, poolVars
<1> QED
  BY <1>5, WhileUp DEF AdminStep, PoolInv, At

LEMMA AdminPool ==
  ASSUME IInv, PoolInv, Calm, Next, Calm', NEW d \in Admins, AdminSelect(d) \/ AdminStep(d)
  PROVE  PoolInv'
<1>1. admin[d] \in Confirmations /\ NoConfirmation.pc # "commit"
  BY DEF IInv, TypeOK, AdminTypeOK, NoConfirmation
<1>2. ASSUME NEW pc \in {"flush", "release"}
      PROVE  [admin[d] EXCEPT !.pc = pc].pc # "commit"
  BY <1>1 DEF Confirmations
<1>3. CASE AdminSelect(d)
  BY <1>3, NotReleased
  DEF AdminSelect, SelectPayment, Confirming, storeVars, poolVars, poolSets
<1>4. CASE AdminStep(d) /\ (LockPayment(d) \/ FlushConfirmed(d))
  BY <1>1, <1>2, <1>4, NotReleased
  DEF AdminStep, LockPayment, FlushConfirmed, Respond, Advance, Confirming, poolVars, poolSets
<1>5. ~ReleaseConfirmedFails(d) /\ ~ConfirmFails(d)
  BY CalmEnds DEF ReleaseConfirmedFails, ConfirmFails
<1> QED
  BY <1>3, <1>4, <1>5, ReleaseConfirmedPool, CommitConfirmedPool DEF AdminStep, Confirmation

-----------------------------------------------------------------------------
(* Startup and the customers *)

\* A page begins with the first pending intent after the cursor ...
LEMMA PageEmpty ==
  ASSUME NEW n \in Nat, Page(n) = {}, NEW i \in Intents, Pending(i)
  PROVE  i <= n
<1> SUFFICES ASSUME n < i PROVE FALSE
  BY DEF Intents
<1> DEFINE S == {j \in Intents : Pending(j) /\ n < j}
           R == OpToRel(<, Nat)
<1>1. i \in S /\ S \subseteq Nat
  BY DEF Intents
<1>2. PICK m \in S : \A j \in S : <<j, m>> \notin R
  <2>1. IsWellFoundedOn(R, Nat)
    BY NatLessThanWellFounded
  <2> HIDE DEF R, S
  <2> QED
    BY <1>1, <2>1, WFMin
<1>3. ASSUME NEW j \in S, j < m PROVE FALSE
  BY <1>1, <1>2, <1>3 DEF OpToRel
<1>4. Cardinality({j \in Intents : Pending(j) /\ n < j /\ j < m}) < PageSize
  <2>1. {j \in Intents : Pending(j) /\ n < j /\ j < m} = {}
    <3> SUFFICES ASSUME NEW j \in Intents, Pending(j), n < j, j < m PROVE FALSE
      OBVIOUS
    <3> QED
      BY <1>3
  <2>2. Cardinality({}) = 0
    BY FS_EmptySet
  <2>3. 0 < PageSize
    BY StartupAssumption
  <2> HIDE DEF R, S
  <2> QED
    BY <2>1, <2>2, <2>3
<1> QED
  BY <1>1, <1>4 DEF Page

\* ... and leaves out none before its last.
LEMMA PageFull ==
  ASSUME NEW n \in Nat, NEW last \in Page(n), NEW i \in Intents, Pending(i), n < i, i <= last
  PROVE  i \in Page(n)
<1> DEFINE Before(m) == {j \in Intents : Pending(j) /\ n < j /\ j < m}
<1>1. Before(i) \subseteq Before(last)
  BY DEF Page, Intents
<1>2. IsFiniteSet(Before(last))
  <2>1. IsFiniteSet(Intents)
    BY FS_Interval, StoreAssumption DEF Intents
  <2> QED
    BY <2>1, FS_Subset
<1>3. Cardinality(Before(last)) < PageSize
  BY DEF Page
<1>4. Cardinality(Before(i)) <= Cardinality(Before(last))
  BY <1>1, <1>2, FS_Subset
<1>5. Cardinality(Before(i)) \in Nat /\ Cardinality(Before(last)) \in Nat
  BY <1>1, <1>2, FS_Subset, FS_CardinalityType
<1>6. Cardinality(Before(i)) < PageSize
  <2> HIDE DEF Before
  <2> QED
    BY <1>3, <1>4, <1>5, StartupAssumption
<1> QED
  BY <1>6 DEF Page

LEMMA ScanPageOK ==
  ASSUME IInv, ScanOK, ScanPage
  PROVE  ScanOK'
<1>1. boot \in [pc     : {"down", "seed", "clear", "scan", "add", "add_last", "diff", "up"},
                batch  : DOMAIN Batches,
                cursor : 0 .. MaxIntents,
                buffer : SUBSET Amounts]
  BY DEF IInv, TypeOK, StartupTypeOK
<1>2. UNCHANGED <<intents, pending_orders>> /\ boot.pc = "scan" /\ boot.cursor \in Nat
  <2>1. boot.cursor \in Nat
    BY <1>1, StoreAssumption
  <2> QED
    BY <2>1 DEF ScanPage, storeVars, poolVars, Booting
<1> DEFINE n == boot.cursor
<1>3. CASE Page(n) = {} /\ Boot(IF boot.buffer = {} THEN "diff" ELSE "add_last")
  <2>1. \A i \in Intents : Pending(i) => Tracked(i) \/ intents[i].amount \in boot.buffer
    BY <1>2, <1>3, PageEmpty DEF ScanOK
  <2>2. /\ boot'.pc = IF boot.buffer = {} THEN "diff" ELSE "add_last"
        /\ boot'.buffer = boot.buffer
    BY <1>1, <1>3 DEF Boot
  <2> QED
    BY <1>2, <2>1, <2>2 DEF ScanOK, Booting, Tracked, Pending
<1>4. ASSUME NEW last \in Page(n),
             boot'.cursor = last, boot'.pc \in {"add", "scan"},
             boot'.buffer = boot.buffer \cup {intents[i].amount : i \in Page(n)}
      PROVE  ScanOK'
  <2>1. ASSUME NEW i \in Intents, Pending(i), i <= last
        PROVE  Tracked(i) \/ intents[i].amount \in boot'.buffer
    <3>1. CASE i <= n
      BY <1>2, <1>4, <2>1, <3>1 DEF ScanOK
    <3>2. CASE n < i
      BY <1>2, <1>4, <2>1, <3>2, PageFull
    <3> QED
      BY <1>2, <3>1, <3>2 DEF Intents
  <2> QED
    BY <1>2, <1>4, <2>1 DEF ScanOK, Booting, Tracked, Pending
<1>5. ASSUME NEW last \in Page(n), NEW buffer, NEW pc \in {"add", "scan"},
             buffer = boot.buffer \cup {intents[i].amount : i \in Page(n)},
             boot' = [boot EXCEPT !.cursor = last, !.buffer = buffer, !.pc = pc]
      PROVE  ScanOK'
  BY <1>1, <1>4, <1>5
<1> QED
  BY <1>3, <1>5 DEF ScanPage

LEMMA StartupScanOK ==
  ASSUME IInv, ScanOK, StartupStep
  PROVE  ScanOK'
<1>1. boot \in [pc     : {"down", "seed", "clear", "scan", "add", "add_last", "diff", "up"},
                batch  : DOMAIN Batches,
                cursor : 0 .. MaxIntents,
                buffer : SUBSET Amounts]
  BY DEF IInv, TypeOK, StartupTypeOK
<1>2. CASE SeedOrSkip \/ SeedBatch
  <2>1. boot'.pc \in {"seed", "clear"} /\ boot'.cursor = 0
    BY <1>1, <1>2 DEF SeedOrSkip, SeedBatch, Boot, Booting, ScanOK
  <2> QED
    BY <2>1 DEF ScanOK, Booting
<1>3. CASE ClearPending
  <2>1. boot'.pc = "scan" /\ boot'.cursor = 0
    BY <1>1, <1>3 DEF ClearPending, Boot, Booting, ScanOK
  <2> QED
    BY <2>1 DEF ScanOK, Booting, Intents
<1>4. CASE AddBuffer
  <2>1. /\ boot'.pc = (IF boot.pc = "add" THEN "scan" ELSE "diff") /\ boot'.cursor = boot.cursor
        /\ pending_orders' = pending_orders \cup boot.buffer /\ UNCHANGED intents
        /\ boot.pc \in {"add", "add_last"}
    BY <1>1, <1>4 DEF AddBuffer, storeVars
  <2> QED
    BY <2>1 DEF ScanOK, Booting, Tracked, Pending
<1>5. CASE Rebuild
  BY <1>5 DEF Rebuild, Down, ScanOK, Booting
<1> QED
  BY <1>2, <1>3, <1>4, <1>5, ScanPageOK DEF StartupStep

\* The first start finds nobody who has an amount, and a later one hands out
\* none before it ends.
LEMMA BootPool ==
  ASSUME IInv, PoolInv, Calm, Calm', Next, BootStep
  PROVE  PoolInv'
<1>1. ~Booting("up")
  BY DEF BootStep, StartupStep, SeedOrSkip, SeedBatch, ClearPending, ScanPage, AddBuffer, Rebuild,
         Booting
<1>2. UNCHANGED <<intents, request, handler, admin, payer, faults>>
  BY DEF BootStep, StartupStep, SeedOrSkip, SeedBatch, ClearPending, ScanPage, AddBuffer, Rebuild,
         storeVars, poolVars
<1>3. Fresh'
  BY <1>1, <1>2 DEF PoolInv, Fresh, At, Handling, Confirming
<1>4. ScanOK'
  BY StartupScanOK DEF PoolInv, BootStep
<1>5. CASE faults["restart"] = 0
  <2>1. ASSUME NEW a \in Amounts PROVE OneOwner(a)'
    BY <1>1, <1>2, <1>5, OwnerGone
    DEF PoolInv, Fresh, Carries, AsksFor, Live, Returns, At, Handling
  <2> QED
    BY <1>2, <1>3, <1>4, <2>1 DEF PoolInv, At
<1>6. CASE faults["restart"] # 0
  <2>1. ASSUME NEW a \in Amounts PROVE OneOwner(a)'
    BY <1>2, <1>6 DEF PoolInv, OneOwner, Offered, Carries, Keeps, AsksFor, Live, Released, Returns,
       Handling, Confirming
  <2> QED
    BY <1>2, <1>3, <1>4, <2>1 DEF PoolInv, At
<1> QED
  BY <1>5, <1>6

\* A restart takes the requests and the confirmations away.
LEMMA CrashPool ==
  ASSUME IInv, PoolInv, Calm, ApiCrash
  PROVE  PoolInv'
<1>1. /\ UNCHANGED handler
      /\ \A c \in Creators : request'[c] = NoRequest
      /\ \A d \in Admins : admin'[d] = NoConfirmation
      /\ \A i \in Intents :
            intents'[i] = IF intents[i].status = "NEW" THEN Blank ELSE intents[i]
      /\ boot' = Down
  BY DEF ApiCrash
<1>2. faults'["restart"] # 0
  BY DEF ApiCrash, Fault, IInv, TypeOK, PoolTypeOK, FaultKinds
<1>3. Fresh'
  BY <1>1, <1>2 DEF Fresh, At, Confirming, NoRequest, NoConfirmation
<1>4. ScanOK'
  BY <1>1 DEF ScanOK, Down, Booting
<1>5. ASSUME NEW a \in Amounts PROVE OneOwner(a)'
  <2>1. \A c \in Creators : ~Carries(c, a)'
    BY <1>1 DEF Carries, NoRequest
  <2>2. \A i \in Intents : AsksFor(i, a)' => AsksFor(i, a)
    BY <1>1 DEF AsksFor, Live, Blank
  <2>3. \A w \in Workers : Returns(w, a)' <=> Returns(w, a)
    BY <1>1 DEF Returns, Handling
  <2> QED
    BY <1>2, <2>1, <2>2, <2>3 DEF PoolInv, OneOwner, Offered
<1> QED
  BY <1>1, <1>3, <1>4, <1>5 DEF PoolInv, At, NoRequest

LEMMA QuietPool ==
  ASSUME PoolInv, Calm, UNCHANGED <<storeVars, poolVars, request, handler, admin, boot>>,
         payer' = payer \/ Customer
  PROVE  PoolInv'
<1>1. Fresh' /\ ScanOK'
  BY DEF PoolInv, Fresh, ScanOK, Tracked, Booting, At, Handling, Confirming, storeVars, poolVars,
     Customer, Pay, Pending
<1>2. ASSUME NEW a \in Amounts PROVE OneOwner(a)'
  BY DEF PoolInv, OneOwner, Offered, Carries, Keeps, AsksFor, Live, Released, Returns, Handling,
     Confirming, storeVars, poolVars
<1> QED
  BY <1>1, <1>2 DEF PoolInv, At

-----------------------------------------------------------------------------
(* The theorems *)

LEMMA PoolInductive ==
  ASSUME IInv, PoolInv, [Next]_vars
  PROVE  PoolInv'
<1> SUFFICES ASSUME Calm' PROVE PoolInv'
  BY DEF PoolInv
<1>1. Calm
  BY CalmBack
<1>2. ASSUME NEW c \in Creators, Request(c) PROVE PoolInv'
  <2> DEFINE r == [request[c] EXCEPT !.pc = "spop"]
  <2>1. request[c] \in Requests /\ request[c].source = "REDIS"
    BY <1>1 DEF IInv, TypeOK, CreationTypeOK, PoolInv
  <2>2. r.pc = "spop" /\ r.source = "REDIS" /\ Become(c, r)
    BY <1>2, <2>1 DEF Requests, Request, CreateOrder, Goto
  <2>3. /\ request'[c] = r
        /\ \A d \in Creators \ {c} : request'[d] = request[d]
        /\ \A d \in Creators \ {c}, a \in Amounts : Carries(d, a)' <=> Carries(d, a)
    BY <2>2, OthersCarry
  <2>4. ASSUME NEW a \in Amounts PROVE OneOwner(a)'
    <3>1. ~Carries(c, a)'
      BY <2>2, <2>3 DEF Carries
    <3>2. \A i \in Intents : /\ AsksFor(i, a)' => AsksFor(i, a)
                             /\ Keeps(i, a)' => Keeps(i, a)
      BY <1>2 DEF Request, CreateOrder, storeVars, Keeps, AsksFor, Live, Released, Confirming
    <3>3. \A w \in Workers : Returns(w, a)' => Returns(w, a)
      BY <1>2 DEF Request, Returns, Handling
    <3>4. Offered(a)' => Offered(a)
      BY <1>2, OfferedStays DEF Next, Request, CreateOrder, poolVars
    <3> QED
      BY <1>1, <2>3, <3>1, <3>2, <3>3, <3>4, OwnerStays DEF PoolInv
  <2> QED
    BY <1>1, <1>2, <2>2, <2>3, <2>4, WhileUp DEF Request, PoolInv, At
<1>3. CASE Customer
  BY <1>1, <1>3, QuietPool DEF Customer, Pay
<1>4. CASE UNCHANGED vars
  BY <1>1, <1>4, QuietPool DEF vars, processVars
<1> QED
  BY <1>1, <1>2, <1>3, <1>4, CreatorPool, WorkerPool, DeliverPool, AdminPool, BootPool, CrashPool
  DEF Next

\* service.py:176-193, handlers.py:19-21, admin/service.py:39-43, main.py:27-42:
\* while Redis does not raise, an amount has one owner, or it may be free, and
\* startup has the amounts of the pending intents it has passed.
THEOREM PoolInvariance == Spec => []PoolInv
BY InitPool, PoolInductive, Invariance, PTL DEF Spec

\* service.py:176-193, handlers.py:19-21, admin/service.py:39-43: an amount is
\* not free in Redis while a pending intent holds it, for any number of
\* requests, deliveries and admins at work between the two stores.
THEOREM FreeIsNotHeld == Spec => []FreeNotHeld
<1>1. IInv /\ PoolInv => FreeNotHeld
  <2> SUFFICES ASSUME IInv, PoolInv, Undisturbed, NEW i \in Intents, Pending(i),
                      rowLock[i] # "updated"
               PROVE  intents[i].amount \notin free_amounts
    BY DEF FreeNotHeld
  <2>1. ~Released(i)
    BY DEF IInv, AdminsOK, AdminHolds, Released, Confirming
  <2>2. intents[i].amount \in Amounts /\ Keeps(i, intents[i].amount)
    BY <2>1 DEF IInv, RowsOK, Keeps, AsksFor, Live, Pending
  <2> QED
    BY <2>2 DEF PoolInv, Calm, Undisturbed, OneOwner, Offered
<1> QED
  BY <1>1, PoolInvariance, Invariance, PTL

\* main.py:27-42: the first restart ends with the amount of every pending
\* intent tracked and not free, for any number of pages, any size of the
\* buffer and whatever the worker pays between two of them.
THEOREM RestartRebuilds == Spec => BootRebuild
<1> DEFINE Rebuilt ==
        /\ Rebuild
        /\ faults["redis"] = 0 /\ faults["restart"] <= 1
        /\ faults["db"] = 0 \/ Admins = {}
        => \A i \in Intents :
              Pending(i) => intents[i].amount \in pending_orders' \ free_amounts'
<1>1. IInv /\ PoolInv => Rebuilt
  <2> SUFFICES ASSUME IInv, PoolInv, Rebuild, faults["redis"] = 0, faults["restart"] <= 1,
                      faults["db"] = 0 \/ Admins = {}, NEW i \in Intents, Pending(i)
               PROVE  intents[i].amount \in pending_orders' \ free_amounts'
    OBVIOUS
  <2>1. faults["restart"] \in {0, 1} /\ ~Booting("up") /\ Booting("diff")
    BY DEF IInv, TypeOK, PoolTypeOK, FaultKinds, Rebuild, Booting
  <2>2. Tracked(i)
    BY <2>1 DEF PoolInv, Calm, ScanOK
  <2> QED
    BY <2>2 DEF Tracked, Rebuild
<1>2. IInv /\ PoolInv => [Rebuilt]_vars
  BY <1>1
<1> QED
  BY <1>2, PoolInvariance, Invariance, PTL DEF BootRebuild
=============================================================================
