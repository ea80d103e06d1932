------------------------ MODULE ReconciliationProofs ------------------------
(***************************************************************************)
(* Why the properties of Reconciliation hold for any number of requests,   *)
(* deliveries, admins, rows, amounts and faults: IInv is inductive; so is  *)
(* PayerInv on top of it, when no admin confirms by hand; and each commit  *)
(* of the system is a step of the ledger.  The lemmas are by process: what *)
(* a step leaves alone is in one lemma for each, then one for each action  *)
(* that changes the rows or their locks.                                   *)
(***************************************************************************)
EXTENDS ReconciliationInv, TLAPS

LEMMA InitInv == Init => IInv
<1> SUFFICES ASSUME Init PROVE IInv
    OBVIOUS
<1> USE DEF Init, StoreInit, PoolInit, CreationInit, HandlerInit, AdminInit, StartupInit
<1>1. TypeOK
  BY StoreAssumption, StartupAssumption, CreationAssumption
     DEF TypeOK, StoreTypeOK, PoolTypeOK, Blank, CreationTypeOK, Requests, NoRequest, HandlerTypeOK, Deliveries, NoDelivery,
         AdminTypeOK, Confirmations, NoConfirmation, StartupTypeOK, Down, FaultKinds
<1>2. RowsOK /\ UniqueLive /\ OneIntentPerSms
  BY DEF RowsOK, UniqueLive, OneIntentPerSms, Live, Blank
<1>3. CreatorsOK /\ HandlersOK /\ AdminsOK
  BY DEF CreatorsOK, At, NoRequest, HandlersOK, HandlerHolds, Handling, NoDelivery,
         AdminsOK, AdminHolds, Confirming, NoConfirmation
<1>4. LockExclusive /\ SmsClaimed
  BY DEF LockExclusive, SmsClaimed, HandlerHolds, Handling, NoDelivery,
         AdminHolds, NoConfirmation
<1> QED
  BY <1>1, <1>2, <1>3, <1>4 DEF IInv

-----------------------------------------------------------------------------
(* A request. *)

\* A step that leaves the rows and the other processes alone.
LEMMA RequestOnly ==
  ASSUME IInv, UNCHANGED <<storeVars, handler, admin, boot, payer>>,
         PoolTypeOK', CreationTypeOK', CreatorsOK'
  PROVE  IInv'
<1> USE DEF IInv, storeVars
<1>1. TypeOK'
  BY DEF TypeOK, StoreTypeOK, HandlerTypeOK, AdminTypeOK, StartupTypeOK
<1>2. RowsOK' /\ UniqueLive' /\ OneIntentPerSms'
  BY DEF RowsOK, UniqueLive, OneIntentPerSms, Live
<1>3. HandlersOK' /\ AdminsOK'
  BY DEF HandlersOK, HandlerHolds, Handling, AdminsOK, AdminHolds, Confirming, Pending
<1>4. LockExclusive' /\ SmsClaimed'
  BY DEF LockExclusive, SmsClaimed, HandlerHolds, Handling, AdminHolds, SmsUsed
<1> QED
  BY <1>1, <1>2, <1>3, <1>4

LEMMA FaultType ==
  ASSUME faults \in [FaultKinds -> Nat], NEW k \in FaultKinds, Fault(k)
  PROVE  faults' \in [FaultKinds -> Nat]
BY DEF Fault

\* The commands keep the sets inside Amounts.
LEMMA PoolCommands ==
  ASSUME PoolTypeOK, NEW a \in Amounts,
         \/ UNCHANGED poolSets
         \/ Pop(a) \/ Track(a) \/ Untrack(a) \/ GiveBack(a) \/ Release(a),
         faults' \in [FaultKinds -> Nat]
  PROVE  PoolTypeOK'
BY DEF PoolTypeOK, poolSets, Pop, Track, Untrack, GiveBack, Release

\* A request goes on to a step that holds no row.
LEMMA RequestGoesOn ==
  ASSUME CreationTypeOK, CreatorsOK, UNCHANGED intents, NEW c \in Creators,
         NEW r \in Requests, r.pc # "commit",
         r.pc \in {"track", "insert", "untrack", "give_back"} => r.amount \in Amounts,
         Become(c, r)
  PROVE  CreationTypeOK' /\ CreatorsOK'
<1>1. CreationTypeOK'
  BY DEF CreationTypeOK, Become
<1>2. CreatorsOK'
  BY DEF CreationTypeOK, CreatorsOK, Become, At
<1> QED
  BY <1>1, <1>2

LEMMA RequestInv ==
  ASSUME IInv, NEW c \in Creators, Request(c)
  PROVE  IInv'
<1> DEFINE r == [request[c] EXCEPT !.pc = "spop"]
<1>1. PoolTypeOK'
  BY DEF IInv, TypeOK, PoolTypeOK, poolVars, Request, CreateOrder
<1>2. r \in Requests /\ r.pc = "spop"
  BY DEF IInv, TypeOK, CreationTypeOK, Requests
<1>3. CreationTypeOK' /\ CreatorsOK'
  BY <1>2, RequestGoesOn DEF IInv, TypeOK, Request, CreateOrder, Goto, storeVars
<1> QED
  BY <1>1, <1>3, RequestOnly DEF Request, CreateOrder

\* The steps of a request outside its transaction on the rows.
LEMMA AllocationInv ==
  ASSUME IInv, NEW c \in Creators, CreatorStep(c),
         ~(InsertOrder(c) \/ CommitOrder(c) \/ CommitFails(c))
  PROVE  IInv'
<1>a. /\ PoolTypeOK /\ CreationTypeOK /\ CreatorsOK
      /\ faults \in [FaultKinds -> Nat] /\ "redis" \in FaultKinds /\ "db" \in FaultKinds
      /\ request[c] \in Requests
  BY DEF IInv, TypeOK, PoolTypeOK, FaultKinds, CreationTypeOK
<1>b. NoRequest \in Requests /\ NoRequest.pc = "idle"
  BY CreationAssumption DEF NoRequest, Requests
<1>c. ASSUME NEW pc \in {"fallback", "untrack", "give_back"}
      PROVE  /\ [request[c] EXCEPT !.pc = pc] \in Requests
             /\ [request[c] EXCEPT !.pc = pc].pc = pc
             /\ [request[c] EXCEPT !.pc = pc].amount = request[c].amount
  BY <1>a DEF Requests
<1>d. UNCHANGED <<storeVars, handler, admin, boot, payer>>
  BY DEF CreatorStep, Creation, SpopAmount, NoFreeAmount, SpopFails, TrackAmount, TrackFails,
         ChooseFallback, FallbackFails, InsertConflict, InsertFails, UntrackAmount,
         GiveBackAmount, CompensationFails
<1>e. Answer(c) => CreationTypeOK' /\ CreatorsOK'
  BY <1>a, <1>b, <1>d, RequestGoesOn DEF Answer, storeVars
<1>1. CASE SpopAmount(c)
  <2>1. PICK a \in free_amounts : Pop(a) /\ Become(c, [request[c] EXCEPT !.pc = "track", !.amount = a])
    BY <1>1 DEF SpopAmount
  <2>2. a \in Amounts
    BY <1>a DEF PoolTypeOK
  <2>3. PoolTypeOK'
    BY <1>1, <1>a, <2>1, <2>2, PoolCommands DEF SpopAmount
  <2> DEFINE r == [request[c] EXCEPT !.pc = "track", !.amount = a]
  <2>4. r \in Requests /\ r.pc = "track" /\ r.amount \in Amounts
    BY <1>a, <2>2 DEF Requests
  <2>5. CreationTypeOK' /\ CreatorsOK'
    BY <1>a, <1>d, <2>1, <2>4, RequestGoesOn DEF storeVars
  <2> QED
    BY <1>d, <2>3, <2>5, RequestOnly
<1>2. CASE NoFreeAmount(c)
  BY <1>2, <1>a, <1>d, <1>e, RequestOnly DEF NoFreeAmount, PoolTypeOK, poolVars
<1>3. CASE SpopFails(c)
  <2>1. faults' \in [FaultKinds -> Nat]
    BY <1>3, <1>a, FaultType DEF SpopFails
  <2>2. PoolTypeOK'
    <3>1. CASE UNCHANGED poolSets
      BY <3>1, <2>1, <1>a DEF PoolTypeOK, poolSets
    <3>2. CASE \E a \in free_amounts : Pop(a)
      BY <3>2, <2>1, <1>a DEF PoolTypeOK, Pop
    <3> QED
      BY <1>3, <3>1, <3>2 DEF SpopFails
  <2>3. CreationTypeOK' /\ CreatorsOK'
    BY <1>3, <1>a, <1>c, <1>d, RequestGoesOn DEF SpopFails, Goto, storeVars
  <2> QED
    BY <1>d, <2>2, <2>3, RequestOnly
<1>4. CASE TrackAmount(c)
  <2>1. request[c].amount \in Amounts
    BY <1>4, <1>a DEF TrackAmount, CreatorsOK, At
  <2>2. PoolTypeOK'
    BY <1>4, <1>a, <2>1, PoolCommands DEF TrackAmount
  <2> DEFINE r == [request[c] EXCEPT !.pc = "insert", !.amount = request[c].amount, !.source = "REDIS"]
  <2>3. r \in Requests /\ r.pc = "insert" /\ r.amount \in Amounts
    BY <1>a, <2>1 DEF Requests
  <2>4. CreationTypeOK' /\ CreatorsOK'
    BY <1>4, <1>a, <1>d, <2>3, RequestGoesOn DEF TrackAmount, Allocated, storeVars
  <2> QED
    BY <1>d, <2>2, <2>4, RequestOnly
<1>5. CASE TrackFails(c)
  <2>1. faults' \in [FaultKinds -> Nat] /\ request[c].amount \in Amounts
    BY <1>5, <1>a, FaultType DEF TrackFails, CreatorsOK, At
  <2>2. PoolTypeOK'
    BY <1>5, <1>a, <2>1, PoolCommands DEF TrackFails
  <2> DEFINE r == [request[c] EXCEPT !.pc = "fallback", !.amount = None]
  <2>3. r \in Requests /\ r.pc = "fallback"
    BY <1>a DEF Requests
  <2>4. CreationTypeOK' /\ CreatorsOK'
    BY <1>5, <1>a, <1>d, <2>3, RequestGoesOn DEF TrackFails, storeVars
  <2> QED
    BY <1>d, <2>2, <2>4, RequestOnly
<1>6. CASE ChooseFallback(c)
  <2>1. PoolTypeOK'
    BY <1>6, <1>a DEF ChooseFallback, PoolTypeOK, poolVars
  <2>2. ASSUME NEW a \in Amounts, Allocated(c, a, "POSTGRES")
        PROVE  CreationTypeOK' /\ CreatorsOK'
    <3> DEFINE r == [request[c] EXCEPT !.pc = "insert", !.amount = a, !.source = "POSTGRES"]
    <3>1. r \in Requests /\ r.pc = "insert" /\ r.amount \in Amounts
      BY <1>a DEF Requests
    <3> QED
      BY <1>a, <1>d, <2>2, <3>1, RequestGoesOn DEF Allocated, storeVars
  <2>3. CreationTypeOK' /\ CreatorsOK'
    BY <1>6, <1>e, <2>2 DEF ChooseFallback, Candidates
  <2> QED
    BY <1>d, <2>1, <2>3, RequestOnly
<1>7. CASE FallbackFails(c)
  <2>1. PoolTypeOK'
    BY <1>7, <1>a, FaultType DEF FallbackFails, PoolTypeOK, poolSets
  <2> QED
    BY <1>7, <1>d, <1>e, <2>1, RequestOnly DEF FallbackFails
<1>8. CASE InsertConflict(c)
  <2>1. PoolTypeOK' /\ request[c].amount \in Amounts
    BY <1>8, <1>a DEF InsertConflict, PoolTypeOK, poolVars, CreatorsOK, At
  <2> DEFINE r == [NoRequest EXCEPT !.pc = "spop", !.attempt = request[c].attempt + 1]
  <2>2. request[c].attempt < MaxAttempts => r \in Requests /\ r.pc = "spop"
    <3>1. request[c].attempt < MaxAttempts => request[c].attempt + 1 \in 1 .. MaxAttempts
      BY <1>a, CreationAssumption DEF Requests
    <3> QED
      BY <1>b, <3>1 DEF Requests, NoRequest
  <2>3. Goto(c, "untrack") => CreationTypeOK' /\ CreatorsOK'
    BY <1>a, <1>c, <1>d, <2>1, RequestGoesOn DEF Goto, storeVars
  <2>4. CreationTypeOK' /\ CreatorsOK'
    BY <1>8, <1>a, <1>d, <1>e, <2>2, <2>3, RequestGoesOn DEF InsertConflict, storeVars
  <2> QED
    BY <1>d, <2>1, <2>4, RequestOnly
<1>9. CASE InsertFails(c)
  <2>1. PoolTypeOK' /\ request[c].amount \in Amounts
    BY <1>9, <1>a, FaultType DEF InsertFails, PoolTypeOK, poolSets, CreatorsOK, At
  <2>2. Goto(c, "untrack") => CreationTypeOK' /\ CreatorsOK'
    BY <1>a, <1>c, <1>d, <2>1, RequestGoesOn DEF Goto, storeVars
  <2> QED
    BY <1>9, <1>d, <1>e, <2>1, <2>2, RequestOnly DEF InsertFails
<1>10. CASE UntrackAmount(c)
  <2>1. request[c].amount \in Amounts
    BY <1>10, <1>a DEF UntrackAmount, CreatorsOK, At
  <2>2. PoolTypeOK'
    BY <1>10, <1>a, <2>1, PoolCommands DEF UntrackAmount
  <2>3. CreationTypeOK' /\ CreatorsOK'
    BY <1>10, <1>a, <1>c, <1>d, <2>1, RequestGoesOn DEF UntrackAmount, Goto, storeVars
  <2> QED
    BY <1>d, <2>2, <2>3, RequestOnly
<1>11. CASE GiveBackAmount(c)
  <2>1. request[c].amount \in Amounts
    BY <1>11, <1>a DEF GiveBackAmount, CreatorsOK, At
  <2>2. PoolTypeOK'
    BY <1>11, <1>a, <2>1, PoolCommands DEF GiveBackAmount
  <2> QED
    BY <1>11, <1>d, <1>e, <2>2, RequestOnly DEF GiveBackAmount
<1>12. CASE CompensationFails(c)
  <2>1. faults' \in [FaultKinds -> Nat] /\ request[c].amount \in Amounts
    BY <1>12, <1>a, FaultType DEF CompensationFails, CreatorsOK, At
  <2>2. PoolTypeOK'
    BY <1>12, <1>a, <2>1, PoolCommands DEF CompensationFails
  <2> QED
    BY <1>12, <1>d, <1>e, <2>2, RequestOnly DEF CompensationFails
<1> QED
  BY <1>1, <1>2, <1>3, <1>4, <1>5, <1>6, <1>7, <1>8, <1>9, <1>10, <1>11, <1>12
     DEF CreatorStep, Creation

\* A step that only opens or ends a NEW row keeps what the others rely on.
LEMMA CommittedKept ==
  ASSUME IInv, StoreTypeOK', UNCHANGED <<rowLock, handler, admin>>,
         \A i \in Intents : intents[i].status \in {"PENDING", "PAID"} => intents'[i] = intents[i],
         \A i \in Intents : intents'[i].sms = intents[i].sms
  PROVE  HandlersOK' /\ AdminsOK' /\ LockExclusive' /\ SmsClaimed' /\ OneIntentPerSms'
<1>1. HandlersOK'
  BY DEF IInv, HandlersOK, HandlerHolds, Handling, Pending
<1>2. AdminsOK'
  BY DEF IInv, AdminsOK, AdminHolds, Confirming, Pending
<1>3. LockExclusive'
  BY DEF IInv, LockExclusive, HandlerHolds, AdminHolds
<1>4. SmsClaimed' /\ OneIntentPerSms'
  BY DEF IInv, SmsClaimed, OneIntentPerSms, SmsUsed, Handling
<1> QED
  BY <1>1, <1>2, <1>3, <1>4

\* The transaction of a request on its row.
LEMMA RowInv ==
  ASSUME IInv, NEW c \in Creators, CreatorStep(c),
         InsertOrder(c) \/ CommitOrder(c) \/ CommitFails(c)
  PROVE  IInv'
<1>a. /\ TypeOK /\ StoreTypeOK /\ PoolTypeOK /\ CreationTypeOK /\ CreatorsOK
      /\ RowsOK /\ UniqueLive
      /\ faults \in [FaultKinds -> Nat] /\ "db" \in FaultKinds
      /\ request[c] \in Requests
  BY DEF IInv, TypeOK, PoolTypeOK, FaultKinds, CreationTypeOK
<1>b. UNCHANGED <<rowLock, handler, admin, boot, payer, poolSets>>
  BY DEF CreatorStep, InsertOrder, CommitOrder, CommitFails, poolVars, poolSets
<1>c. NoRequest \in Requests /\ NoRequest.pc = "idle"
  BY CreationAssumption DEF NoRequest, Requests
<1>d. PoolTypeOK'
  BY <1>a, <1>b, FaultType
     DEF InsertOrder, CommitOrder, CommitFails, poolVars, poolSets, PoolTypeOK
<1>e. HandlerTypeOK' /\ AdminTypeOK' /\ StartupTypeOK' /\ payer' \in [Sms -> Intents \cup {None}]
  BY <1>a, <1>b DEF TypeOK, HandlerTypeOK, AdminTypeOK, StartupTypeOK
<1>f. ASSUME StoreTypeOK', CreationTypeOK', RowsOK', UniqueLive', CreatorsOK',
             \A i \in Intents : intents[i].status \in {"PENDING", "PAID"} => intents'[i] = intents[i],
             \A i \in Intents : intents'[i].sms = intents[i].sms
      PROVE  IInv'
  BY <1>b, <1>d, <1>e, <1>f, CommittedKept DEF IInv, TypeOK
<1>1. CASE InsertOrder(c)
  <2>1. PICK i \in Intents : /\ intents[i].status = "NONE"
                             /\ InsertRow(i, request[c].amount)
                             /\ Become(c, [request[c] EXCEPT !.pc = "commit", !.intent = i])
    BY <1>1 DEF InsertOrder, IsNextId
  <2>2. request[c].amount \in Amounts
    BY <1>1, <1>a DEF InsertOrder, CreatorsOK, At
  <2>3. [request[c] EXCEPT !.pc = "commit", !.intent = i] \in Requests
    BY <1>a DEF Requests
  <2>4. StoreTypeOK' /\ CreationTypeOK'
    BY <1>a, <1>b, <2>1, <2>2, <2>3 DEF StoreTypeOK, InsertRow, CreationTypeOK, Become
  <2>5. /\ \A j \in Intents \ {i} : intents'[j] = intents[j]
        /\ intents'[i] = [status |-> "NEW", amount |-> request[c].amount, sms |-> None]
        /\ intents[i].sms = None
    BY <1>a, <2>1 DEF StoreTypeOK, InsertRow, RowsOK, Blank
  <2>6. RowsOK'
    BY <1>a, <2>2, <2>5 DEF RowsOK, Blank
  <2>7. UniqueLive'
    <3>1. \A j \in Intents : Live(j) => intents[j].amount # request[c].amount
      BY <1>1 DEF InsertOrder, Conflict, Undecided, Live, Pending
    <3> QED
      BY <1>a, <2>5, <3>1 DEF UniqueLive, Live
  <2>8. CreatorsOK'
    BY <1>a, <2>1, <2>5 DEF CreatorsOK, CreationTypeOK, Become, At
  <2> QED
    BY <1>f, <2>1, <2>4, <2>5, <2>6, <2>7, <2>8
<1>2. CASE CommitOrder(c) \/ CommitFails(c)
  <2> DEFINE i == request[c].intent
  <2>1. i \in Intents /\ intents[i].status = "NEW" /\ At(c, "commit")
    BY <1>2, <1>a DEF CommitOrder, CommitFails, CreatorsOK
  <2>2. \/ intents' = [intents EXCEPT ![i].status = "PENDING"]
        \/ intents' = [intents EXCEPT ![i] = Blank]
    BY <1>2 DEF CommitOrder, CommitRow, CommitFails, RollbackRow
  <2>3. request' = [request EXCEPT ![c] = NoRequest]
    BY <1>2 DEF CommitOrder, CommitFails, Answer, Become
  <2>4. StoreTypeOK' /\ CreationTypeOK'
    <3> DEFINE Rows == [status : {"NONE", "NEW", "PENDING", "PAID"},
                        amount : Amounts \cup {None}, sms : Sms \cup {None}]
    <3>1. intents \in [Intents -> Rows] /\ rowLock' = rowLock
      BY <1>a, <1>b DEF StoreTypeOK
    <3>2. Blank \in Rows /\ [intents[i] EXCEPT !.status = "PENDING"] \in Rows
      BY <2>1, <3>1 DEF Blank
    <3>3. CreationTypeOK'
      BY <1>a, <1>c, <2>3 DEF CreationTypeOK
    <3>4. intents' \in [Intents -> Rows]
      <4> HIDE DEF Rows
      <4> QED
        BY <2>1, <2>2, <3>1, <3>2
    <3> QED
      BY <1>a, <3>1, <3>3, <3>4 DEF StoreTypeOK
  <2>5. /\ \A j \in Intents \ {i} : intents'[j] = intents[j]
        /\ intents[i].amount \in Amounts /\ intents[i].sms = None
        /\ \/ intents'[i] = [status |-> "PENDING", amount |-> intents[i].amount, sms |-> None]
           \/ intents'[i] = Blank
    BY <1>a, <2>1, <2>2 DEF StoreTypeOK, RowsOK, Blank
  <2>6. RowsOK' /\ UniqueLive'
    BY <1>a, <2>1, <2>5 DEF RowsOK, UniqueLive, Live, Blank
  <2>7. CreatorsOK'
    BY <1>a, <1>c, <2>1, <2>3, <2>5 DEF CreatorsOK, CreationTypeOK, At
  <2>8. \A j \in Intents : intents'[j].sms = intents[j].sms
    BY <2>5 DEF Blank
  <2> QED
    BY <1>f, <2>1, <2>4, <2>5, <2>6, <2>7, <2>8
<1> QED
  BY <1>1, <1>2

LEMMA CreatorInv ==
  ASSUME IInv, NEW c \in Creators, CreatorStep(c)
  PROVE  IInv'
BY AllocationInv, RowInv

-----------------------------------------------------------------------------
(* A delivery. *)

LEMMA CreatorsKept ==
  ASSUME IInv, UNCHANGED request,
         \A i \in Intents : intents[i].status = "NEW" => intents'[i].status = "NEW"
  PROVE  CreatorsOK'
BY DEF IInv, CreatorsOK, At

\* A delivery gives its row back, if it holds one, and goes on without.
LEMMA DeliveryLeaves ==
  ASSUME IInv, NEW w \in Workers, NEW h \in Deliveries, Turn(w, h),
         h.pc \notin {"flush", "commit"},
         h.pc # "idle" => h.sms \in Sms,
         h.pc = "lock" => /\ h.intent \in Intents /\ Pending(h.intent)
                          /\ intents[h.intent].amount = SmsAmount[h.sms],
         Rollback(w), PoolTypeOK', UNCHANGED <<intents, request, admin, boot, payer>>
  PROVE  IInv'
<1>a. /\ handler \in [Workers -> Deliveries] /\ StoreTypeOK
      /\ HandlersOK /\ AdminsOK /\ LockExclusive
  BY DEF IInv, TypeOK, HandlerTypeOK
<1>b. handler'[w] = h /\ \A v \in Workers \ {w} : handler'[v] = handler[v]
  BY <1>a DEF Turn
<1>c. HandlerHolds(w) => handler[w].intent \in Intents
  BY <1>a DEF HandlersOK, HandlerHolds
<1>1. TypeOK'
  <2>1. StoreTypeOK'
    BY <1>a, <1>c DEF StoreTypeOK, Rollback, UnlockRow, HandlerHolds
  <2>2. HandlerTypeOK'
    BY <1>a DEF HandlerTypeOK, Turn
  <2> QED
    BY <2>1, <2>2 DEF IInv, TypeOK, CreationTypeOK, AdminTypeOK, StartupTypeOK
<1>2. RowsOK' /\ UniqueLive' /\ OneIntentPerSms' /\ CreatorsOK'
  BY CreatorsKept DEF IInv, RowsOK, UniqueLive, OneIntentPerSms, Live
<1>3. \A i \in Intents : rowLock'[i] # rowLock[i] => HandlerHolds(w) /\ i = handler[w].intent
  BY <1>a DEF Rollback, UnlockRow, HandlerHolds, StoreTypeOK
<1>4. HandlersOK'
  <2>1. SUFFICES ASSUME NEW v \in Workers, v # w
                 PROVE  HandlerHolds(v) => rowLock'[handler[v].intent] = rowLock[handler[v].intent]
    BY <1>a, <1>b DEF HandlersOK, HandlerHolds, Handling, Pending
  <2> QED
    BY <1>a, <1>3, <2>1 DEF HandlersOK, LockExclusive, HandlerHolds
<1>5. AdminsOK'
  BY <1>a, <1>3 DEF AdminsOK, LockExclusive, AdminHolds, Confirming, Pending
<1>6. LockExclusive'
  BY <1>a, <1>b DEF LockExclusive, HandlerHolds, AdminHolds
<1>7. SmsClaimed'
  BY <1>b DEF IInv, SmsClaimed, Handling, SmsUsed
<1> QED
  BY <1>1, <1>2, <1>4, <1>5, <1>6, <1>7 DEF IInv

\* A delivery takes a row, or keeps it, and its lock with it.
LEMMA DeliveryHolds ==
  ASSUME IInv, NEW w \in Workers, NEW h \in Deliveries, Turn(w, h),
         h.pc \in {"flush", "commit"}, h.sms = handler[w].sms, h.sms \in Sms,
         h.intent = handler[w].intent, h.intent \in Intents,
         Pending(h.intent), intents[h.intent].amount = SmsAmount[h.sms],
         rowLock' = [rowLock EXCEPT ![h.intent] =
                        IF h.pc = "flush" THEN "locked" ELSE "updated"],
         HandlerHolds(w) \/ rowLock[h.intent] = "free",
         UNCHANGED <<intents, request, admin, boot, payer, poolVars>>,
         SmsClaimed'
  PROVE  IInv'
<1>a. /\ handler \in [Workers -> Deliveries] /\ StoreTypeOK
      /\ HandlersOK /\ AdminsOK /\ LockExclusive
  BY DEF IInv, TypeOK, HandlerTypeOK
<1>b. handler'[w] = h /\ \A v \in Workers \ {w} : handler'[v] = handler[v]
  BY <1>a DEF Turn
<1>1. TypeOK'
  <2>1. StoreTypeOK'
    BY <1>a DEF StoreTypeOK
  <2>2. HandlerTypeOK'
    BY <1>a DEF HandlerTypeOK, Turn
  <2> QED
    BY <2>1, <2>2 DEF IInv, TypeOK, CreationTypeOK, AdminTypeOK, StartupTypeOK, PoolTypeOK, poolVars
<1>2. RowsOK' /\ UniqueLive' /\ OneIntentPerSms' /\ CreatorsOK'
  BY CreatorsKept DEF IInv, RowsOK, UniqueLive, OneIntentPerSms, Live
<1>3. /\ \A i \in Intents \ {h.intent} : rowLock'[i] = rowLock[i]
      /\ rowLock'[h.intent] = IF h.pc = "flush" THEN "locked" ELSE "updated"
  BY <1>a DEF StoreTypeOK
<1>4. /\ \A v \in Workers \ {w} : HandlerHolds(v) => handler[v].intent # h.intent
      /\ \A d \in Admins : AdminHolds(d) => admin[d].intent # h.intent
  BY <1>a DEF LockExclusive, HandlersOK, AdminsOK, HandlerHolds, AdminHolds
<1>5. HandlersOK'
  <2>1. ASSUME NEW v \in Workers, v # w
        PROVE  HandlerHolds(v) => /\ handler[v].intent \in Intents
                                  /\ rowLock'[handler[v].intent] = rowLock[handler[v].intent]
    BY <1>a, <1>3, <1>4, <2>1 DEF HandlersOK, HandlerHolds
  <2> QED
    BY <1>a, <1>b, <1>3, <2>1 DEF HandlersOK, HandlerHolds, Handling, Pending
<1>6. AdminsOK'
  BY <1>a, <1>3, <1>4 DEF AdminsOK, AdminHolds, Confirming, Pending
<1>7. LockExclusive'
  BY <1>a, <1>b, <1>4 DEF LockExclusive, HandlerHolds, AdminHolds
<1> QED
  BY <1>1, <1>2, <1>5, <1>6, <1>7 DEF IInv

LEMMA PayRowEffect ==
  ASSUME StoreTypeOK, NEW t \in Intents, NEW s \in Sms \cup {None}, PayRow(t, s)
  PROVE  /\ \A i \in Intents \ {t} : intents'[i] = intents[i] /\ rowLock'[i] = rowLock[i]
         /\ intents'[t] = [status |-> "PAID", amount |-> intents[t].amount, sms |-> s]
         /\ StoreTypeOK'
BY DEF StoreTypeOK, PayRow, UnlockRow

\* The commit: the row is paid, its lock given back, its notification recorded.
LEMMA PaidInv ==
  ASSUME IInv, NEW w \in Workers, WorkerStep(w), CommitPaid(w)
  PROVE  IInv'
<1> DEFINE t == handler[w].intent
           s == handler[w].sms
<1>a. /\ handler \in [Workers -> Deliveries] /\ StoreTypeOK
      /\ HandlersOK /\ AdminsOK /\ LockExclusive /\ SmsClaimed /\ RowsOK
  BY DEF IInv, TypeOK, HandlerTypeOK
<1>b. /\ UNCHANGED <<request, admin, boot, payer, poolVars>>
      /\ HandlerHolds(w) /\ Handling(w, "commit") /\ PayRow(t, s)
      /\ handler' = [handler EXCEPT ![w] = [handler[w] EXCEPT !.pc = "release"]]
  BY DEF WorkerStep, CommitPaid, Proceed, Turn, HandlerHolds, Handling
<1>c. /\ t \in Intents /\ s \in Sms /\ Pending(t)
      /\ handler[w] \in Deliveries
  BY <1>a, <1>b DEF HandlersOK, Handling, HandlerHolds
<1>d. [handler[w] EXCEPT !.pc = "release"] \in Deliveries
  BY <1>c DEF Deliveries
<1>e. /\ \A v \in Workers \ {w} : handler'[v] = handler[v]
      /\ handler'[w].pc = "release" /\ handler'[w].sms = s /\ handler'[w].intent = t
  BY <1>a, <1>b, <1>c DEF Deliveries
<1>f. /\ \A i \in Intents \ {t} : intents'[i] = intents[i] /\ rowLock'[i] = rowLock[i]
      /\ intents'[t] = [status |-> "PAID", amount |-> intents[t].amount, sms |-> s]
  BY <1>a, <1>b, <1>c, PayRowEffect
<1>g. /\ \A v \in Workers \ {w} : HandlerHolds(v) => handler[v].intent # t
      /\ \A d \in Admins : AdminHolds(d) => admin[d].intent # t
  BY <1>a, <1>b DEF LockExclusive
<1>1. TypeOK'
  <2>1. StoreTypeOK'
    BY <1>a, <1>b, <1>c, PayRowEffect
  <2>2. HandlerTypeOK'
    BY <1>a, <1>b, <1>d DEF HandlerTypeOK
  <2> QED
    BY <1>b, <2>1, <2>2
       DEF IInv, TypeOK, CreationTypeOK, AdminTypeOK, StartupTypeOK, PoolTypeOK, poolVars
<1>2. RowsOK'
  BY <1>a, <1>c, <1>f DEF RowsOK, Pending, Blank
<1>3. UniqueLive'
  BY <1>c, <1>f DEF IInv, UniqueLive, Live
<1>4. OneIntentPerSms'
  BY <1>a, <1>b, <1>c, <1>f DEF IInv, OneIntentPerSms, SmsClaimed, SmsUsed
<1>5. CreatorsOK'
  BY <1>b, <1>c, <1>f, CreatorsKept DEF Pending
<1>6. HandlersOK'
  <2>1. ASSUME NEW v \in Workers, v # w
        PROVE  HandlerHolds(v) => /\ intents'[handler[v].intent] = intents[handler[v].intent]
                                  /\ rowLock'[handler[v].intent] = rowLock[handler[v].intent]
    BY <1>a, <1>f, <1>g, <2>1 DEF HandlersOK, HandlerHolds
  <2> QED
    BY <1>a, <1>c, <1>e, <1>f, <2>1 DEF HandlersOK, HandlerHolds, Handling, Pending
<1>7. AdminsOK'
  <2>1. ASSUME NEW d \in Admins
        PROVE  AdminHolds(d) => /\ intents'[admin[d].intent] = intents[admin[d].intent]
                                /\ rowLock'[admin[d].intent] = rowLock[admin[d].intent]
    BY <1>a, <1>f, <1>g DEF AdminsOK, AdminHolds, Confirming
  <2> QED
    BY <1>a, <1>b, <1>c, <1>f, <2>1 DEF AdminsOK, AdminHolds, Confirming, Pending
<1>8. LockExclusive'
  BY <1>a, <1>b, <1>e DEF LockExclusive, HandlerHolds, AdminHolds
<1>9. SmsClaimed'
  BY <1>a, <1>b, <1>c, <1>e, <1>f DEF SmsClaimed, SmsUsed, Handling
<1> QED
  BY <1>1, <1>2, <1>3, <1>4, <1>5, <1>6, <1>7, <1>8, <1>9 DEF IInv

LEMMA DeliverInv ==
  ASSUME IInv, NEW w \in Workers, Deliver(w)
  PROVE  IInv'
<1>1. PICK s \in Sms : Receive(w, s)
  BY DEF Deliver
<1> DEFINE h == [NoDelivery EXCEPT !.pc = "check", !.sms = s]
<1>2. h \in Deliveries /\ h.pc = "check" /\ h.sms = s
  BY DEF Deliveries, NoDelivery
<1>3. PoolTypeOK'
  BY <1>1 DEF IInv, TypeOK, PoolTypeOK, Receive, poolVars
<1>4. Rollback(w)
  BY <1>1 DEF Receive, Rollback, Handling, storeVars
<1> QED
  BY <1>1, <1>2, <1>3, <1>4, DeliveryLeaves DEF Receive, Deliver, storeVars

LEMMA WorkerInv ==
  ASSUME IInv, NEW w \in Workers, WorkerStep(w)
  PROVE  IInv'
<1>a. /\ PoolTypeOK /\ HandlersOK
      /\ faults \in [FaultKinds -> Nat]
      /\ {"redis", "db", "worker"} \subseteq FaultKinds
      /\ handler[w] \in Deliveries /\ handler \in [Workers -> Deliveries]
  BY DEF IInv, TypeOK, PoolTypeOK, FaultKinds, HandlerTypeOK
<1>b. NoDelivery \in Deliveries /\ NoDelivery.pc = "idle"
  BY DEF NoDelivery, Deliveries
<1>c. UNCHANGED <<request, admin, boot, payer>>
  BY DEF WorkerStep
<1>d. ASSUME Leave(w), Rollback(w), UNCHANGED intents, PoolTypeOK'
      PROVE  IInv'
  BY <1>b, <1>c, <1>d, DeliveryLeaves DEF Leave
<1>1. CASE CheckProcessed(w)
  <2> DEFINE h == [handler[w] EXCEPT !.pc = "select"]
  <2>1. PoolTypeOK' /\ Rollback(w)
    BY <1>1, <1>a DEF CheckProcessed, PoolTypeOK, poolVars, storeVars, Rollback, Handling
  <2>2. h \in Deliveries /\ h.pc = "select" /\ h.sms \in Sms
    BY <1>1, <1>a DEF CheckProcessed, Deliveries, HandlersOK, Handling
  <2> QED
    BY <1>1, <1>c, <1>d, <2>1, <2>2, DeliveryLeaves DEF CheckProcessed, Proceed, storeVars
<1>2. CASE SelectIntent(w)
  <2>1. PoolTypeOK' /\ Rollback(w) /\ handler[w].sms \in Sms
    BY <1>2, <1>a
       DEF SelectIntent, PoolTypeOK, poolVars, storeVars, Rollback, Handling, HandlersOK
  <2>2. ASSUME NEW i \in Matching(handler[w].sms),
               Turn(w, [handler[w] EXCEPT !.pc = "lock", !.intent = i])
        PROVE  IInv'
    <3> DEFINE h == [handler[w] EXCEPT !.pc = "lock", !.intent = i]
    <3>1. /\ h \in Deliveries /\ h.pc = "lock" /\ h.sms = handler[w].sms /\ h.intent = i
          /\ i \in Intents /\ Pending(i) /\ intents[i].amount = SmsAmount[h.sms]
      BY <1>a DEF Deliveries, Matching
    <3> QED
      BY <1>2, <1>c, <2>1, <2>2, <3>1, DeliveryLeaves DEF SelectIntent, storeVars
  <2> QED
    BY <1>2, <1>d, <2>1, <2>2 DEF SelectIntent, storeVars
<1>3. CASE LockIntent(w)
  <2>1. PoolTypeOK' /\ Handling(w, "lock") /\ UNCHANGED <<intents, poolVars>>
    BY <1>3, <1>a DEF LockIntent, PoolTypeOK, poolVars
  <2>2. CASE Pending(handler[w].intent)
    <3> DEFINE h == [handler[w] EXCEPT !.pc = "flush"]
    <3>1. /\ h \in Deliveries /\ h.pc = "flush"
          /\ h.sms = handler[w].sms /\ h.sms \in Sms
          /\ h.intent = handler[w].intent /\ h.intent \in Intents
          /\ intents[h.intent].amount = SmsAmount[h.sms]
      BY <1>a, <2>1 DEF Deliveries, HandlersOK, Handling
    <3>2. /\ Turn(w, h) /\ rowLock[h.intent] = "free"
          /\ rowLock' = [rowLock EXCEPT ![h.intent] =
                            IF h.pc = "flush" THEN "locked" ELSE "updated"]
      BY <1>3, <2>2, <3>1 DEF LockIntent, LockRow, Proceed
    <3>3. SmsClaimed'
      BY <1>a, <2>1, <3>1, <3>2 DEF IInv, SmsClaimed, SmsUsed, Handling, Turn
    <3> QED
      BY <1>c, <2>1, <2>2, <3>1, <3>2, <3>3, DeliveryHolds
  <2>3. CASE ~Pending(handler[w].intent)
    BY <1>3, <1>d, <2>1, <2>3 DEF LockIntent, Rollback, Handling
  <2> QED
    BY <2>2, <2>3
<1>4. CASE FlushPaid(w)
  <2> DEFINE h == [handler[w] EXCEPT !.pc = "commit"]
  <2>1. /\ h \in Deliveries /\ h.pc = "commit"
        /\ h.sms = handler[w].sms /\ h.sms \in Sms
        /\ h.intent = handler[w].intent /\ h.intent \in Intents
        /\ Pending(h.intent) /\ intents[h.intent].amount = SmsAmount[h.sms]
        /\ HandlerHolds(w)
    BY <1>4, <1>a DEF FlushPaid, Deliveries, HandlersOK, Handling, HandlerHolds
  <2>2. /\ Turn(w, h) /\ UNCHANGED <<intents, poolVars>>
        /\ rowLock' = [rowLock EXCEPT ![h.intent] =
                          IF h.pc = "flush" THEN "locked" ELSE "updated"]
    BY <1>4, <2>1 DEF FlushPaid, FlushRow, Proceed
  <2>3. SmsClaimed'
    BY <1>4, <1>a, <2>1, <2>2
       DEF IInv, FlushPaid, FlushedElsewhere, SmsClaimed, SmsUsed, Handling, Turn
  <2> QED
    BY <1>c, <2>1, <2>2, <2>3, DeliveryHolds
<1>5. CASE FlushConflict(w)
  BY <1>5, <1>a, <1>d DEF FlushConflict, PoolTypeOK, poolVars
<1>6. CASE CommitPaid(w)
  BY <1>6, PaidInv
<1>7. CASE ReleaseAmount(w) \/ ReleaseFails(w)
  <2>1. SmsAmount[handler[w].sms] \in Amounts
    BY <1>7, <1>a, StoreAssumption DEF ReleaseAmount, ReleaseFails, HandlersOK, Handling
  <2>2. PoolTypeOK'
    BY <1>7, <1>a, <2>1, FaultType, PoolCommands DEF ReleaseAmount, ReleaseFails
  <2>3. Rollback(w)
    BY <1>7 DEF ReleaseAmount, ReleaseFails, Rollback, Handling, storeVars
  <2> QED
    BY <1>7, <1>d, <2>2, <2>3 DEF ReleaseAmount, ReleaseFails, storeVars
<1>8. CASE HandlerFails(w) \/ WorkerCrash(w)
  <2>1. PoolTypeOK'
    BY <1>8, <1>a, FaultType DEF HandlerFails, WorkerCrash, PoolTypeOK, poolSets
  <2> QED
    BY <1>8, <1>d, <2>1 DEF HandlerFails, WorkerCrash
<1> QED
  BY <1>1, <1>2, <1>3, <1>4, <1>5, <1>6, <1>7, <1>8 DEF WorkerStep, Handle

-----------------------------------------------------------------------------
(* A confirmation by an admin. *)

\* It gives its row back, if it holds one, and goes on without.
LEMMA ConfirmationLeaves ==
  ASSUME IInv, NEW d \in Admins, NEW r \in Confirmations, Step(d, r),
         r.pc \in {"idle", "lock"},
         r.pc = "lock" => r.intent \in Intents /\ Pending(r.intent),
         Abandon(d), PoolTypeOK', UNCHANGED <<intents, request, handler, boot, payer>>
  PROVE  IInv'
<1>a. /\ admin \in [Admins -> Confirmations] /\ StoreTypeOK
      /\ HandlersOK /\ AdminsOK /\ LockExclusive
  BY DEF IInv, TypeOK, AdminTypeOK
<1>b. admin'[d] = r /\ \A e \in Admins \ {d} : admin'[e] = admin[e]
  BY <1>a DEF Step
<1>c. AdminHolds(d) => admin[d].intent \in Intents
  BY <1>a DEF AdminsOK, AdminHolds, Confirming
<1>1. TypeOK'
  <2>1. StoreTypeOK'
    BY <1>a, <1>c DEF StoreTypeOK, Abandon, UnlockRow, AdminHolds
  <2>2. AdminTypeOK'
    BY <1>a DEF AdminTypeOK, Step
  <2> QED
    BY <2>1, <2>2 DEF IInv, TypeOK, CreationTypeOK, HandlerTypeOK, StartupTypeOK
<1>2. RowsOK' /\ UniqueLive' /\ OneIntentPerSms' /\ CreatorsOK' /\ SmsClaimed'
  BY CreatorsKept
     DEF IInv, RowsOK, UniqueLive, OneIntentPerSms, Live, SmsClaimed, SmsUsed, Handling
<1>3. \A i \in Intents : rowLock'[i] # rowLock[i] => AdminHolds(d) /\ i = admin[d].intent
  BY <1>a DEF Abandon, UnlockRow, AdminHolds, StoreTypeOK
<1>4. AdminsOK'
  <2>1. SUFFICES ASSUME NEW e \in Admins, e # d
                 PROVE  AdminHolds(e) => rowLock'[admin[e].intent] = rowLock[admin[e].intent]
    BY <1>a, <1>b DEF AdminsOK, AdminHolds, Confirming, Pending
  <2> QED
    BY <1>a, <1>3, <2>1 DEF AdminsOK, LockExclusive, AdminHolds, Confirming
<1>5. HandlersOK'
  BY <1>a, <1>3 DEF HandlersOK, LockExclusive, HandlerHolds, Handling, Pending
<1>6. LockExclusive'
  BY <1>a, <1>b DEF LockExclusive, HandlerHolds, AdminHolds
<1> QED
  BY <1>1, <1>2, <1>4, <1>5, <1>6 DEF IInv

\* It takes its row, or keeps it.
LEMMA ConfirmationHolds ==
  ASSUME IInv, NEW d \in Admins, NEW r \in Confirmations, Step(d, r),
         r.pc \in {"flush", "release", "commit"},
         r.intent = admin[d].intent, r.intent \in Intents, Pending(r.intent),
         rowLock' = [rowLock EXCEPT ![r.intent] =
                        IF r.pc = "flush" THEN "locked" ELSE "updated"],
         AdminHolds(d) \/ rowLock[r.intent] = "free",
         PoolTypeOK', UNCHANGED <<intents, request, handler, boot, payer>>
  PROVE  IInv'
<1>a. /\ admin \in [Admins -> Confirmations] /\ StoreTypeOK
      /\ HandlersOK /\ AdminsOK /\ LockExclusive
  BY DEF IInv, TypeOK, AdminTypeOK
<1>b. admin'[d] = r /\ \A e \in Admins \ {d} : admin'[e] = admin[e]
  BY <1>a DEF Step
<1>1. TypeOK'
  <2>1. StoreTypeOK'
    BY <1>a DEF StoreTypeOK
  <2>2. AdminTypeOK'
    BY <1>a DEF AdminTypeOK, Step
  <2> QED
    BY <2>1, <2>2 DEF IInv, TypeOK, CreationTypeOK, HandlerTypeOK, StartupTypeOK
<1>2. RowsOK' /\ UniqueLive' /\ OneIntentPerSms' /\ CreatorsOK' /\ SmsClaimed'
  BY CreatorsKept
     DEF IInv, RowsOK, UniqueLive, OneIntentPerSms, Live, SmsClaimed, SmsUsed, Handling
<1>3. /\ \A i \in Intents \ {r.intent} : rowLock'[i] = rowLock[i]
      /\ rowLock'[r.intent] = IF r.pc = "flush" THEN "locked" ELSE "updated"
  BY <1>a DEF StoreTypeOK
<1>4. /\ \A w \in Workers : HandlerHolds(w) => handler[w].intent # r.intent
      /\ \A e \in Admins \ {d} : AdminHolds(e) => admin[e].intent # r.intent
  BY <1>a DEF LockExclusive, HandlersOK, AdminsOK, HandlerHolds, AdminHolds, Handling
<1>5. HandlersOK'
  BY <1>a, <1>3, <1>4 DEF HandlersOK, HandlerHolds, Handling, Pending
<1>6. AdminsOK'
  <2>1. ASSUME NEW e \in Admins, e # d
        PROVE  AdminHolds(e) => /\ admin[e].intent \in Intents
                                /\ rowLock'[admin[e].intent] = rowLock[admin[e].intent]
    BY <1>a, <1>3, <1>4, <2>1 DEF AdminsOK, AdminHolds, Confirming
  <2> QED
    BY <1>a, <1>b, <1>3, <2>1 DEF AdminsOK, AdminHolds, Confirming, Pending
<1>7. LockExclusive'
  BY <1>a, <1>b, <1>4 DEF LockExclusive, HandlerHolds, AdminHolds
<1> QED
  BY <1>1, <1>2, <1>5, <1>6, <1>7 DEF IInv

\* Its commit.
LEMMA ConfirmedInv ==
  ASSUME IInv, NEW d \in Admins, AdminStep(d), CommitConfirmed(d)
  PROVE  IInv'
<1> DEFINE t == admin[d].intent
<1>a. /\ admin \in [Admins -> Confirmations] /\ StoreTypeOK
      /\ HandlersOK /\ AdminsOK /\ LockExclusive /\ SmsClaimed /\ RowsOK
  BY DEF IInv, TypeOK, AdminTypeOK
<1>b. /\ UNCHANGED <<request, handler, boot, payer, poolVars>>
      /\ AdminHolds(d) /\ PayRow(t, None)
      /\ admin' = [admin EXCEPT ![d] = NoConfirmation]
  BY DEF AdminStep, CommitConfirmed, Respond, Step, AdminHolds, Confirming
<1>c. t \in Intents /\ Pending(t) /\ intents[t].sms = None
  BY <1>a, <1>b DEF AdminsOK, AdminHolds, Confirming, RowsOK, Pending
<1>e. NoConfirmation \in Confirmations /\ NoConfirmation.pc = "idle"
  BY DEF NoConfirmation, Confirmations
<1>f. /\ \A i \in Intents \ {t} : intents'[i] = intents[i] /\ rowLock'[i] = rowLock[i]
      /\ intents'[t] = [status |-> "PAID", amount |-> intents[t].amount, sms |-> None]
  BY <1>a, <1>b, <1>c, PayRowEffect
<1>g. /\ \A w \in Workers : HandlerHolds(w) => handler[w].intent # t
      /\ \A e \in Admins \ {d} : AdminHolds(e) => admin[e].intent # t
  BY <1>a, <1>b DEF LockExclusive
<1>1. TypeOK'
  <2>1. StoreTypeOK'
    BY <1>a, <1>b, <1>c, PayRowEffect
  <2>2. AdminTypeOK'
    BY <1>a, <1>b, <1>e DEF AdminTypeOK
  <2> QED
    BY <1>b, <2>1, <2>2
       DEF IInv, TypeOK, CreationTypeOK, HandlerTypeOK, StartupTypeOK, PoolTypeOK, poolVars
<1>2. RowsOK' /\ UniqueLive'
  BY <1>a, <1>c, <1>f DEF IInv, RowsOK, UniqueLive, Live, Pending, Blank
<1>3. \A i \in Intents : intents'[i].sms = intents[i].sms
  BY <1>c, <1>f
<1>4. OneIntentPerSms' /\ SmsClaimed'
  <2>1. OneIntentPerSms'
    BY <1>3 DEF IInv, OneIntentPerSms
  <2>2. SmsClaimed'
    BY <1>3, <1>a, <1>b DEF SmsClaimed, SmsUsed, Handling
  <2> QED
    BY <2>1, <2>2
<1>5. CreatorsOK'
  BY <1>b, <1>c, <1>f, CreatorsKept DEF Pending
<1>6. HandlersOK'
  <2>1. ASSUME NEW w \in Workers
        PROVE  HandlerHolds(w) => /\ intents'[handler[w].intent] = intents[handler[w].intent]
                                  /\ rowLock'[handler[w].intent] = rowLock[handler[w].intent]
    BY <1>a, <1>f, <1>g DEF HandlersOK, HandlerHolds
  <2> QED
    BY <1>a, <1>b, <1>c, <1>f, <2>1 DEF HandlersOK, HandlerHolds, Handling, Pending
<1>7. AdminsOK'
  <2>1. ASSUME NEW e \in Admins, e # d
        PROVE  AdminHolds(e) => /\ intents'[admin[e].intent] = intents[admin[e].intent]
                                /\ rowLock'[admin[e].intent] = rowLock[admin[e].intent]
    BY <1>a, <1>f, <1>g, <2>1 DEF AdminsOK, AdminHolds, Confirming
  <2> QED
    BY <1>a, <1>b, <1>c, <1>e, <1>f, <2>1 DEF AdminsOK, AdminHolds, Confirming, Pending
<1>8. LockExclusive'
  BY <1>a, <1>b, <1>e DEF LockExclusive, HandlerHolds, AdminHolds
<1> QED
  BY <1>1, <1>2, <1>4, <1>5, <1>6, <1>7, <1>8 DEF IInv

LEMMA AdminSelectInv ==
  ASSUME IInv, NEW d \in Admins, AdminSelect(d)
  PROVE  IInv'
<1>1. PICK i \in Intents : SelectPayment(d, i)
  BY DEF AdminSelect
<1> DEFINE r == [pc |-> "lock", intent |-> i]
<1>2. r \in Confirmations /\ Step(d, r) /\ Pending(r.intent)
  BY <1>1 DEF Confirmations, SelectPayment
<1>3. PoolTypeOK' /\ Abandon(d)
  BY <1>1 DEF IInv, TypeOK, PoolTypeOK, SelectPayment, poolVars, storeVars, Abandon, Confirming
<1> QED
  BY <1>1, <1>2, <1>3, ConfirmationLeaves DEF SelectPayment, AdminSelect, storeVars

LEMMA AdminInv ==
  ASSUME IInv, NEW d \in Admins, AdminStep(d)
  PROVE  IInv'
<1>a. /\ PoolTypeOK /\ AdminsOK /\ RowsOK /\ StoreTypeOK
      /\ faults \in [FaultKinds -> Nat] /\ {"redis", "db"} \subseteq FaultKinds
      /\ admin[d] \in Confirmations
  BY DEF IInv, TypeOK, PoolTypeOK, FaultKinds, AdminTypeOK
<1>b. NoConfirmation \in Confirmations /\ NoConfirmation.pc = "idle"
  BY DEF NoConfirmation, Confirmations
<1>c. UNCHANGED <<request, handler, boot, payer>>
  BY DEF AdminStep
<1>d. ASSUME Respond(d), Abandon(d), UNCHANGED intents, PoolTypeOK'
      PROVE  IInv'
  BY <1>b, <1>c, <1>d, ConfirmationLeaves DEF Respond
<1>e. ASSUME NEW pc \in {"flush", "release", "commit"}
      PROVE  LET r == [admin[d] EXCEPT !.pc = pc]
             IN  r \in Confirmations /\ r.pc = pc /\ r.intent = admin[d].intent
  BY <1>a DEF Confirmations
<1>1. CASE LockPayment(d)
  <2>1. PoolTypeOK' /\ Confirming(d, "lock") /\ UNCHANGED intents
    BY <1>1, <1>a DEF LockPayment, PoolTypeOK, poolVars
  <2>2. CASE Pending(admin[d].intent)
    <3> DEFINE r == [admin[d] EXCEPT !.pc = "flush"]
    <3>1. /\ Step(d, r) /\ rowLock[r.intent] = "free" /\ r.intent \in Intents
          /\ rowLock' = [rowLock EXCEPT ![r.intent] =
                            IF r.pc = "flush" THEN "locked" ELSE "updated"]
      BY <1>1, <1>a, <1>e, <2>2 DEF LockPayment, LockRow, Advance, AdminsOK, Confirming
    <3> QED
      BY <1>c, <1>e, <2>1, <2>2, <3>1, ConfirmationHolds
  <2>3. CASE ~Pending(admin[d].intent)
    BY <1>1, <1>d, <2>1, <2>3 DEF LockPayment, Abandon, Confirming
  <2> QED
    BY <2>2, <2>3
<1>2. CASE FlushConfirmed(d)
  <2> DEFINE r == [admin[d] EXCEPT !.pc = "release"]
  <2>1. /\ AdminHolds(d) /\ r.intent \in Intents /\ Pending(r.intent)
        /\ PoolTypeOK' /\ UNCHANGED intents
    BY <1>2, <1>a, <1>e DEF FlushConfirmed, AdminHolds, AdminsOK, Confirming, PoolTypeOK, poolVars
  <2>2. /\ Step(d, r)
        /\ rowLock' = [rowLock EXCEPT ![r.intent] =
                          IF r.pc = "flush" THEN "locked" ELSE "updated"]
    BY <1>2, <1>e DEF FlushConfirmed, FlushRow, Advance
  <2> QED
    BY <1>c, <1>e, <2>1, <2>2, ConfirmationHolds
<1>3. CASE ReleaseConfirmed(d)
  <2> DEFINE r == [admin[d] EXCEPT !.pc = "commit"]
  <2>1. /\ AdminHolds(d) /\ r.intent \in Intents /\ Pending(r.intent)
        /\ rowLock[r.intent] = "updated" /\ intents[r.intent].amount \in Amounts
    BY <1>3, <1>a, <1>e
       DEF ReleaseConfirmed, AdminHolds, AdminsOK, Confirming, RowsOK, Pending
  <2>2. PoolTypeOK'
    BY <1>3, <1>a, <1>e, <2>1, PoolCommands DEF ReleaseConfirmed
  <2>3. /\ Step(d, r) /\ UNCHANGED intents
        /\ rowLock' = [rowLock EXCEPT ![r.intent] =
                          IF r.pc = "flush" THEN "locked" ELSE "updated"]
    BY <1>3, <1>a, <1>e, <2>1 DEF ReleaseConfirmed, Advance, storeVars, StoreTypeOK
  <2> QED
    BY <1>c, <1>e, <2>1, <2>2, <2>3, ConfirmationHolds
<1>4. CASE ReleaseConfirmedFails(d)
  <2>1. intents[admin[d].intent].amount \in Amounts
    BY <1>4, <1>a DEF ReleaseConfirmedFails, AdminHolds, AdminsOK, Confirming, RowsOK, Pending
  <2>2. PoolTypeOK'
    BY <1>4, <1>a, <2>1, FaultType, PoolCommands DEF ReleaseConfirmedFails
  <2> QED
    BY <1>4, <1>d, <2>2 DEF ReleaseConfirmedFails
<1>5. CASE CommitConfirmed(d)
  BY <1>5, ConfirmedInv
<1>6. CASE ConfirmFails(d)
  <2>1. PoolTypeOK'
    BY <1>6, <1>a, FaultType DEF ConfirmFails, PoolTypeOK, poolSets
  <2> QED
    BY <1>6, <1>d, <2>1 DEF ConfirmFails
<1> QED
  BY <1>1, <1>2, <1>3, <1>4, <1>5, <1>6 DEF AdminStep, Confirmation

-----------------------------------------------------------------------------
(* Startup, restart and the customers. *)

LEMMA BootInv ==
  ASSUME IInv, BootStep
  PROVE  IInv'
<1>a. /\ StoreTypeOK /\ PoolTypeOK /\ StartupTypeOK /\ RowsOK
      /\ UNCHANGED <<intents, rowLock, request, handler, admin, payer, faults>>
  BY DEF IInv, TypeOK, BootStep, StartupStep, SeedOrSkip, SeedBatch, ClearPending, ScanPage,
         AddBuffer, Rebuild, storeVars, poolVars
<1>b. /\ \A n \in DOMAIN Batches : Batches[n] \subseteq Amounts
      /\ DOMAIN Batches = 1 .. Len(Batches) /\ Len(Batches) \in Nat
      /\ 1 \in DOMAIN Batches /\ MaxIntents \in Nat
  BY StartupAssumption, CreationAssumption, StoreAssumption
<1>1. PoolTypeOK' /\ StartupTypeOK'
  <2>1. CASE SeedOrSkip
    BY <2>1, <1>a DEF SeedOrSkip, Boot, PoolTypeOK, StartupTypeOK, poolVars
  <2>2. CASE SeedBatch
    <3>1. boot.batch \in DOMAIN Batches
      BY <1>a DEF StartupTypeOK
    <3>2. PoolTypeOK'
      BY <2>2, <3>1, <1>a, <1>b DEF SeedBatch, PoolTypeOK
    <3>3. boot.batch # Len(Batches) => boot.batch + 1 \in DOMAIN Batches
      BY <3>1, <1>b
    <3>4. StartupTypeOK'
      BY <2>2, <3>3, <1>a, <1>b DEF SeedBatch, StartupTypeOK
    <3> QED
      BY <3>2, <3>4
  <2>3. CASE ClearPending
    BY <2>3, <1>a DEF ClearPending, Boot, PoolTypeOK, StartupTypeOK
  <2>4. CASE ScanPage
    <3>1. {intents[i].amount : i \in Page(boot.cursor)} \subseteq Amounts
      BY <1>a DEF Page, Pending, RowsOK
    <3>2. Page(boot.cursor) \subseteq 0 .. MaxIntents
      BY <1>b DEF Page, Intents
    <3>3. StartupTypeOK'
      <4>1. CASE Page(boot.cursor) = {}
        BY <2>4, <4>1, <1>a DEF ScanPage, Boot, StartupTypeOK
      <4>2. CASE Page(boot.cursor) # {}
        <5> DEFINE buffer == boot.buffer \cup {intents[i].amount : i \in Page(boot.cursor)}
        <5>1. PICK last \in Page(boot.cursor) :
                 boot' = [boot EXCEPT
                    !.cursor = last, !.buffer = buffer,
                    !.pc = IF Cardinality(buffer) >= BufferSize THEN "add" ELSE "scan"]
          BY <2>4, <4>2 DEF ScanPage
        <5>2. buffer \subseteq Amounts
          BY <3>1, <1>a DEF StartupTypeOK
        <5> HIDE DEF buffer
        <5> QED
          BY <5>1, <5>2, <3>2, <1>a DEF StartupTypeOK
      <4> QED
        BY <4>1, <4>2
    <3>4. UNCHANGED poolVars
      BY <2>4 DEF ScanPage
    <3> QED
      BY <3>3, <3>4, <1>a DEF PoolTypeOK, poolVars
  <2>5. CASE AddBuffer
    <3>1. PoolTypeOK'
      BY <2>5, <1>a DEF AddBuffer, PoolTypeOK, StartupTypeOK
    <3>2. StartupTypeOK'
      BY <2>5, <1>a DEF AddBuffer, StartupTypeOK
    <3> QED
      BY <3>1, <3>2
  <2>6. CASE Rebuild
    BY <2>6, <1>a, <1>b DEF Rebuild, Down, PoolTypeOK, StartupTypeOK
  <2> QED
    BY <2>1, <2>2, <2>3, <2>4, <2>5, <2>6 DEF BootStep, StartupStep
<1>2. TypeOK'
  BY <1>a, <1>1 DEF IInv, TypeOK, StoreTypeOK, CreationTypeOK, HandlerTypeOK, AdminTypeOK
<1>3. RowsOK' /\ UniqueLive' /\ OneIntentPerSms' /\ CreatorsOK'
  BY <1>a, CreatorsKept DEF IInv, RowsOK, UniqueLive, OneIntentPerSms, Live
<1>4. HandlersOK' /\ AdminsOK'
  BY <1>a DEF IInv, HandlersOK, HandlerHolds, Handling, AdminsOK, AdminHolds, Confirming, Pending
<1>5. LockExclusive' /\ SmsClaimed'
  BY <1>a DEF IInv, LockExclusive, SmsClaimed, HandlerHolds, Handling, AdminHolds, SmsUsed
<1> QED
  BY <1>2, <1>3, <1>4, <1>5 DEF IInv

\* The rows an admin held are free again, those a delivery holds are not.
LEMMA RestartInv ==
  ASSUME IInv, ApiCrash
  PROVE  IInv'
<1>a. /\ StoreTypeOK /\ PoolTypeOK /\ RowsOK /\ HandlersOK /\ LockExclusive
      /\ handler \in [Workers -> Deliveries]
  BY DEF IInv, TypeOK, HandlerTypeOK
<1>b. /\ UNCHANGED <<handler, payer, poolSets>>
      /\ \A c \in Creators : request'[c] = NoRequest
      /\ \A d \in Admins : admin'[d] = NoConfirmation
      /\ \A i \in Intents :
            intents'[i] = IF intents[i].status = "NEW" THEN Blank ELSE intents[i]
      /\ \A i \in Intents : rowLock'[i] = IF HeldByAdmin(i) THEN "free" ELSE rowLock[i]
  BY DEF ApiCrash
<1>1. TypeOK'
  <2>1. StoreTypeOK'
    BY <1>a DEF ApiCrash, StoreTypeOK, Blank
  <2>2. PoolTypeOK'
    BY <1>a, <1>b, FaultType DEF ApiCrash, PoolTypeOK, poolSets, FaultKinds
  <2>3. CreationTypeOK' /\ AdminTypeOK' /\ StartupTypeOK'
    BY CreationAssumption, StartupAssumption, StoreAssumption
       DEF ApiCrash, CreationTypeOK, Requests, NoRequest, AdminTypeOK, Confirmations,
           NoConfirmation, StartupTypeOK, Down
  <2> QED
    BY <1>b, <2>1, <2>2, <2>3 DEF IInv, TypeOK, HandlerTypeOK
<1>2. RowsOK' /\ UniqueLive'
  BY <1>a, <1>b DEF IInv, RowsOK, UniqueLive, Live, Blank
<1>3. \A i \in Intents : intents'[i].sms = intents[i].sms
  BY <1>a, <1>b DEF RowsOK, Blank
<1>4. OneIntentPerSms'
  BY <1>3 DEF IInv, OneIntentPerSms
<1>5. SmsClaimed'
  BY <1>3, <1>b DEF IInv, SmsClaimed, SmsUsed, Handling
<1>6. CreatorsOK' /\ AdminsOK'
  BY <1>b DEF CreatorsOK, At, NoRequest, AdminsOK, AdminHolds, Confirming, NoConfirmation
<1>7. HandlersOK'
  <2>1. ASSUME NEW w \in Workers
        PROVE  HandlerHolds(w) => rowLock'[handler[w].intent] = rowLock[handler[w].intent]
    BY <1>a, <1>b DEF HandlersOK, HandlerHolds, LockExclusive, HeldByAdmin, AdminHolds
  <2>2. ASSUME NEW i \in Intents, intents[i].status \in {"PENDING", "PAID"}
        PROVE  intents'[i] = intents[i]
    BY <1>b, <2>2
  <2> QED
    BY <1>a, <1>b, <2>1, <2>2 DEF HandlersOK, HandlerHolds, Handling, Pending
<1>8. LockExclusive'
  BY <1>a, <1>b DEF LockExclusive, HandlerHolds, AdminHolds, NoConfirmation
<1> QED
  BY <1>1, <1>2, <1>4, <1>5, <1>6, <1>7, <1>8 DEF IInv

LEMMA CustomerInv ==
  ASSUME IInv, Customer
  PROVE  IInv'
<1>a. UNCHANGED <<intents, rowLock, poolVars, request, handler, admin, boot>>
  BY DEF Customer, Pay, storeVars
<1>1. TypeOK'
  BY DEF IInv, TypeOK, StoreTypeOK, PoolTypeOK, CreationTypeOK, HandlerTypeOK, AdminTypeOK,
         StartupTypeOK, Customer, Pay, storeVars, poolVars
<1>2. RowsOK' /\ UniqueLive' /\ OneIntentPerSms' /\ CreatorsOK'
  BY <1>a, CreatorsKept DEF IInv, RowsOK, UniqueLive, OneIntentPerSms, Live
<1>3. HandlersOK' /\ AdminsOK'
  BY <1>a DEF IInv, HandlersOK, HandlerHolds, Handling, AdminsOK, AdminHolds, Confirming, Pending
<1>4. LockExclusive' /\ SmsClaimed'
  BY <1>a DEF IInv, LockExclusive, SmsClaimed, HandlerHolds, Handling, AdminHolds, SmsUsed
<1> QED
  BY <1>1, <1>2, <1>3, <1>4 DEF IInv

LEMMA StutterInv ==
  ASSUME IInv, UNCHANGED vars
  PROVE  IInv'
<1>a. UNCHANGED <<intents, rowLock, poolVars, request, handler, admin, boot, payer>>
  BY DEF vars, storeVars, processVars
<1>1. PoolTypeOK' /\ CreationTypeOK'
  BY <1>a DEF IInv, TypeOK, PoolTypeOK, CreationTypeOK, poolVars
<1>2. CreatorsOK'
  BY <1>a, CreatorsKept
<1> QED
  BY <1>a, <1>1, <1>2, RequestOnly DEF storeVars

\* service.py:46-110 and 230-260, handlers.py, admin/service.py, main.py: the
\* invariant holds in every reachable state, for any number of requests,
\* deliveries, admins, amounts, notifications and faults.
THEOREM Invariance == Spec => []IInv
<1>1. IInv /\ [Next]_vars => IInv'
  <2>1. ASSUME IInv, Next PROVE IInv'
    BY <2>1, RequestInv, CreatorInv, DeliverInv, WorkerInv, AdminSelectInv, AdminInv, BootInv,
       RestartInv, CustomerInv DEF Next
  <2> QED
    BY <2>1, StutterInv
<1> QED
  BY InitInv, <1>1, PTL DEF Spec

\* Every variable keeps its type.
THEOREM TypeCorrect == Spec => []TypeOK
<1>1. IInv => TypeOK
  BY DEF IInv
<1> QED
  BY Invariance, <1>1, PTL

\* models.py:61-69, service.py:68-99: at most one pending intent has an
\* amount, for every number of concurrent requests and every loss in Redis.
THEOREM PendingUnique == Spec => []UniquePending
<1>1. IInv => UniquePending
  BY DEF IInv, UniqueLive, Live, UniquePending, Pending
<1> QED
  BY Invariance, <1>1, PTL

\* models.py:59, service.py:230-260: a notification settles one intent at
\* most, however often and however concurrently it is delivered.
THEOREM SmsUnique == Spec => []OneIntentPerSms
<1>1. IInv => OneIntentPerSms
  BY DEF IInv
<1> QED
  BY Invariance, <1>1, PTL

-----------------------------------------------------------------------------
(* Every payment goes to the order it was made for. *)

LEMMA InitPayer == Init => PayerInv
BY DEF Init, StoreInit, Blank, HandlerInit, NoDelivery, PayerInv, PayersOK, DeliveriesOK,
       RightOrder, Handling

\* A step that changes only rows without a customer.
LEMMA PayerKept ==
  ASSUME IInv, PayerInv, UNCHANGED <<payer, handler>>,
         \A i \in Intents : \/ intents'[i] = intents[i]
                            \/ ~Placed(i) /\ intents'[i].status # "PAID" /\ intents'[i].sms = None
  PROVE  PayerInv'
<1>a. TypeOK /\ RowsOK /\ payer \in [Sms -> Intents \cup {None}] /\ HandlersOK
  BY DEF IInv, TypeOK
<1>b. \A i \in Intents : intents'[i].sms = intents[i].sms
  BY <1>a DEF RowsOK, Placed
<1>1. PayersOK'
  BY <1>a DEF PayerInv, PayersOK, Placed
<1>2. DeliveriesOK'
  BY <1>b DEF PayerInv, DeliveriesOK, Handling, SmsUsed
<1>3. RightOrder'
  BY <1>b DEF PayerInv, RightOrder
<1>4. \A i \in Intents : intents'[i].status = "PAID" => intents'[i].sms # None
  BY DEF PayerInv, Placed
<1> QED
  BY <1>1, <1>2, <1>3, <1>4 DEF PayerInv

\* A customer whose notification is not used yet still has a pending order.
LEMMA UnusedPayer ==
  ASSUME IInv, PayerInv, NEW s \in Sms, payer[s] # None, ~SmsUsed(s)
  PROVE  payer[s] \in Intents /\ Pending(payer[s]) /\ intents[payer[s]].amount = SmsAmount[s]
<1>1. payer[s] \in Intents /\ Placed(payer[s]) /\ intents[payer[s]].amount = SmsAmount[s]
  BY DEF IInv, TypeOK, PayerInv, PayersOK
<1>2. CASE intents[payer[s]].status = "PAID"
  <2>1. intents[payer[s]].sms \in Sms /\ intents[payer[s]].sms # None
    <3>1. StoreTypeOK
      BY DEF IInv, TypeOK
    <3> QED
      BY <1>1, <1>2, <3>1 DEF PayerInv, StoreTypeOK
  <2>2. intents[payer[s]].sms = s
    <3>1. payer[intents[payer[s]].sms] = payer[s]
      BY <1>1, <2>1 DEF PayerInv, RightOrder
    <3> QED
      BY <2>1, <3>1 DEF PayerInv, PayersOK
  <2> QED
    BY <1>1, <2>2 DEF SmsUsed
<1> QED
  BY <1>1, <1>2 DEF Placed, Pending

\* So a pending row of its amount is its customer's.
LEMMA OwnIntent ==
  ASSUME IInv, PayerInv, NEW s \in Sms, payer[s] # None, ~SmsUsed(s),
         NEW i \in Intents, Pending(i), intents[i].amount = SmsAmount[s]
  PROVE  payer[s] = i
BY UnusedPayer DEF IInv, UniqueLive, Live, Pending

\* A request, startup or a restart changes only rows without a customer.
LEMMA ApiPayer ==
  ASSUME IInv, PayerInv,
         \/ \E c \in Creators : Request(c) \/ CreatorStep(c)
         \/ BootStep \/ ApiCrash
  PROVE  PayerInv'
<1>a. RowsOK /\ CreatorsOK /\ StoreTypeOK
  BY DEF IInv, TypeOK
<1>1. ASSUME NEW c \in Creators, Request(c) \/ CreatorStep(c) PROVE PayerInv'
  <2>a. UNCHANGED <<payer, handler>>
    BY <1>1 DEF Request, CreatorStep
  <2>1. CASE InsertOrder(c)
    <3>1. PICK i \in Intents : intents[i].status = "NONE" /\ InsertRow(i, request[c].amount)
      BY <2>1 DEF InsertOrder, IsNextId
    <3> QED
      BY <1>a, <2>a, <3>1, PayerKept DEF InsertRow, StoreTypeOK, Placed
  <2>2. CASE CommitOrder(c) \/ CommitFails(c)
    <3> DEFINE i == request[c].intent
    <3>1. i \in Intents /\ intents[i].status = "NEW" /\ intents[i].sms = None
      BY <1>a, <2>2 DEF CommitOrder, CommitFails, CreatorsOK, RowsOK
    <3>2. \/ intents' = [intents EXCEPT ![i].status = "PENDING"]
          \/ intents' = [intents EXCEPT ![i] = Blank]
      BY <2>2 DEF CommitOrder, CommitRow, CommitFails, RollbackRow
    <3>3. /\ \A j \in Intents \ {i} : intents'[j] = intents[j]
          /\ intents'[i].status # "PAID" /\ intents'[i].sms = None
      BY <1>a, <3>1, <3>2 DEF StoreTypeOK, Blank
    <3>4. ~Placed(i)
      BY <3>1 DEF Placed
    <3>5. \A j \in Intents : \/ intents'[j] = intents[j]
                             \/ ~Placed(j) /\ intents'[j].status # "PAID" /\ intents'[j].sms = None
      BY <3>3, <3>4
    <3> QED
      BY <2>a, <3>5, PayerKept, Zenon
  <2>3. CASE ~(InsertOrder(c) \/ CommitOrder(c) \/ CommitFails(c))
    <3>1. UNCHANGED intents
      BY <1>1, <2>3
         DEF Request, CreateOrder, CreatorStep, Creation, SpopAmount, NoFreeAmount, SpopFails,
             TrackAmount, TrackFails, ChooseFallback, FallbackFails, InsertConflict,
             InsertFails, UntrackAmount, GiveBackAmount, CompensationFails, storeVars
    <3>2. \A i \in Intents : intents'[i] = intents[i]
      BY <3>1
    <3> QED
      BY <2>a, <3>2, PayerKept, Zenon
  <2> QED
    BY <2>1, <2>2, <2>3
<1>2. CASE BootStep
  <2>1. UNCHANGED <<intents, payer, handler>>
    BY <1>2 DEF BootStep, StartupStep, SeedOrSkip, SeedBatch, ClearPending, ScanPage,
                AddBuffer, Rebuild, storeVars
  <2> QED
    BY <2>1, PayerKept, Zenon
<1>3. CASE ApiCrash
  <2>1. /\ UNCHANGED <<payer, handler>>
        /\ \A i \in Intents :
              intents'[i] = IF intents[i].status = "NEW" THEN Blank ELSE intents[i]
    BY <1>3 DEF ApiCrash
  <2> QED
    BY <2>1, PayerKept DEF Blank, Placed
<1> QED
  BY <1>1, <1>2, <1>3

LEMMA CustomerPayer ==
  ASSUME IInv, PayerInv, NEW s \in Sms, NEW i \in Intents, Pay(s, i)
  PROVE  PayerInv'
<1>a. payer \in [Sms -> Intents \cup {None}] /\ HandlersOK
  BY DEF IInv, TypeOK
<1>b. /\ UNCHANGED <<intents, handler>>
      /\ payer[s] = None /\ payer' = [payer EXCEPT ![s] = i]
      /\ Pending(i) /\ intents[i].amount = SmsAmount[s]
      /\ \A t \in Sms : payer[t] # i
  BY DEF Pay, storeVars
<1>c. None \notin Intents
  BY StoreAssumption DEF Intents
<1>1. PayersOK'
  BY <1>a, <1>b, <1>c DEF PayerInv, PayersOK, Placed, Pending
<1>2. \A t \in Sms : payer[t] # None => payer'[t] = payer[t]
  BY <1>a, <1>b
<1>3. DeliveriesOK'
  BY <1>a, <1>b, <1>2 DEF PayerInv, DeliveriesOK, HandlersOK, Handling, SmsUsed
<1>4. RightOrder'
  <2>1. \A j \in Intents : intents[j].sms # None => intents[j].sms \in Sms
    BY DEF IInv, TypeOK, StoreTypeOK
  <2> QED
    BY <1>b, <1>c, <1>2, <2>1 DEF PayerInv, RightOrder
<1> QED
  BY <1>b, <1>1, <1>3, <1>4 DEF PayerInv

\* A delivery goes on, or ends, and no row is paid.
LEMMA DeliveryPayer ==
  ASSUME IInv, PayerInv, NEW w \in Workers, NEW h \in Deliveries, Turn(w, h),
         UNCHANGED <<intents, payer>>,
         h.pc # "idle" => payer[h.sms] # None,
         h.pc \in {"lock", "flush", "commit"} => payer[h.sms] = h.intent \/ SmsUsed(h.sms)
  PROVE  PayerInv'
<1>a. handler \in [Workers -> Deliveries]
  BY DEF IInv, TypeOK, HandlerTypeOK
<1>1. DeliveriesOK'
  BY <1>a DEF Turn, PayerInv, DeliveriesOK, Handling, SmsUsed
<1> QED
  BY <1>1 DEF PayerInv, PayersOK, RightOrder, Placed

LEMMA WorkerPayer ==
  ASSUME IInv, PayerInv, NEW w \in Workers, Deliver(w) \/ WorkerStep(w)
  PROVE  PayerInv'
<1>a. /\ UNCHANGED payer /\ handler[w] \in Deliveries /\ handler \in [Workers -> Deliveries]
      /\ HandlersOK /\ SmsClaimed /\ StoreTypeOK
      /\ payer \in [Sms -> Intents \cup {None}]
  BY DEF Deliver, WorkerStep, IInv, TypeOK, HandlerTypeOK
<1>b. NoDelivery \in Deliveries /\ NoDelivery.pc = "idle"
  BY DEF NoDelivery, Deliveries
<1>c. Leave(w) /\ UNCHANGED intents => PayerInv'
  BY <1>a, <1>b, DeliveryPayer DEF Leave
<1>d. ~Handling(w, "idle") => payer[handler[w].sms] # None /\ handler[w].sms \in Sms
  BY <1>a DEF PayerInv, DeliveriesOK, HandlersOK
<1>e. ASSUME NEW pc \in {"select", "flush", "commit"}
      PROVE  LET h == [handler[w] EXCEPT !.pc = pc]
             IN  /\ h \in Deliveries /\ h.pc = pc
                 /\ h.sms = handler[w].sms /\ h.intent = handler[w].intent
  BY <1>a DEF Deliveries
<1>1. CASE Deliver(w)
  <2>1. PICK s \in Sms : payer[s] # None /\ Receive(w, s)
    BY <1>1 DEF Deliver
  <2> DEFINE h == [NoDelivery EXCEPT !.pc = "check", !.sms = s]
  <2>2. h \in Deliveries /\ h.pc = "check" /\ h.sms = s
    BY DEF Deliveries, NoDelivery
  <2> QED
    BY <1>a, <2>1, <2>2, DeliveryPayer DEF Receive, storeVars
<1>2. CASE CheckProcessed(w)
  <2>1. ~Handling(w, "idle") /\ UNCHANGED intents
    BY <1>2 DEF CheckProcessed, Handling, storeVars
  <2>2. Proceed(w, "select") => PayerInv'
    BY <1>a, <1>d, <1>e, <2>1, DeliveryPayer DEF Proceed
  <2> QED
    BY <1>2, <1>c, <2>1, <2>2 DEF CheckProcessed
<1>3. CASE SelectIntent(w)
  <2>1. ~Handling(w, "idle") /\ UNCHANGED intents
    BY <1>3 DEF SelectIntent, Handling, storeVars
  <2>2. ASSUME NEW i \in Matching(handler[w].sms),
               Turn(w, [handler[w] EXCEPT !.pc = "lock", !.intent = i])
        PROVE  PayerInv'
    <3> DEFINE h == [handler[w] EXCEPT !.pc = "lock", !.intent = i]
    <3>1. h \in Deliveries /\ h.pc = "lock" /\ h.sms = handler[w].sms /\ h.intent = i
      BY <1>a DEF Deliveries, Matching
    <3>2. payer[h.sms] = i \/ SmsUsed(h.sms)
      BY <1>d, <2>1, <3>1, OwnIntent DEF Matching
    <3> QED
      BY <1>a, <1>d, <2>1, <2>2, <3>1, <3>2, DeliveryPayer
  <2> QED
    BY <1>3, <1>c, <2>1, <2>2 DEF SelectIntent
<1>4. CASE LockIntent(w) \/ FlushPaid(w)
  <2>1. /\ handler[w].pc \in {"lock", "flush"} /\ UNCHANGED intents
        /\ Leave(w) \/ Proceed(w, "flush") \/ Proceed(w, "commit")
    BY <1>4 DEF LockIntent, FlushPaid, Handling
  <2>2. payer[handler[w].sms] # None
    BY <1>d, <2>1 DEF Handling
  <2>3. payer[handler[w].sms] = handler[w].intent \/ SmsUsed(handler[w].sms)
    BY <2>1 DEF PayerInv, DeliveriesOK
  <2> QED
    BY <1>a, <1>c, <1>e, <2>1, <2>2, <2>3, DeliveryPayer DEF Proceed
<1>5. CASE CommitPaid(w)
  <2> DEFINE t == handler[w].intent
             s == handler[w].sms
  <2>1. /\ Handling(w, "commit") /\ PayRow(t, s)
        /\ handler' = [handler EXCEPT ![w] = [handler[w] EXCEPT !.pc = "release"]]
    BY <1>5 DEF CommitPaid, Proceed, Turn
  <2>2. t \in Intents /\ s \in Sms /\ Pending(t) /\ ~SmsUsed(s)
    BY <1>a, <2>1 DEF HandlersOK, SmsClaimed, HandlerHolds, Handling
  <2>3. payer[s] = t /\ s # None
    BY <2>1, <2>2, StoreAssumption DEF PayerInv, DeliveriesOK, Handling
  <2>4. /\ \A i \in Intents \ {t} : intents'[i] = intents[i]
        /\ intents'[t] = [status |-> "PAID", amount |-> intents[t].amount, sms |-> s]
    BY <1>a, <2>1, <2>2, PayRowEffect
  <2>5. PayersOK'
    BY <1>a, <2>4 DEF PayerInv, PayersOK, Placed
  <2>6. RightOrder' /\ \A i \in Intents : intents'[i].status = "PAID" => intents'[i].sms # None
    BY <1>a, <2>3, <2>4 DEF PayerInv, RightOrder
  <2> DEFINE UsedThen(r) == \E i \in Intents : intents'[i].sms = r
  <2>7. \A r \in Sms : SmsUsed(r) => UsedThen(r)
    <3>1. intents[t].sms = None
      BY <2>2 DEF IInv, RowsOK, Pending
    <3> QED
      BY <2>2, <2>4, <3>1, StoreAssumption DEF SmsUsed
  <2>8. /\ handler'[w].pc = "release" /\ handler'[w].sms = s
        /\ \A v \in Workers \ {w} : handler'[v] = handler[v]
    BY <1>a, <2>1 DEF Deliveries
  <2>9. DeliveriesOK'
    <3>1. SUFFICES ASSUME NEW v \in Workers
                   PROVE  /\ handler'[v].pc # "idle" => payer[handler'[v].sms] # None
                          /\ handler'[v].pc \in {"lock", "flush", "commit"}
                                => \/ payer[handler'[v].sms] = handler'[v].intent
                                   \/ UsedThen(handler'[v].sms)
      BY <1>a DEF DeliveriesOK, Handling, SmsUsed
    <3>2. CASE v = w
      BY <2>3, <2>8, <3>2, <1>d, <2>1 DEF Handling
    <3>3. CASE v # w
      BY <1>a, <2>7, <2>8, <3>3 DEF PayerInv, DeliveriesOK, HandlersOK, Handling
    <3> QED
      BY <3>2, <3>3
  <2> QED
    BY <2>5, <2>6, <2>9 DEF PayerInv
<1>6. CASE \/ FlushConflict(w) \/ ReleaseAmount(w) \/ ReleaseFails(w)
           \/ HandlerFails(w) \/ WorkerCrash(w)
  BY <1>6, <1>c
     DEF FlushConflict, ReleaseAmount, ReleaseFails, HandlerFails, WorkerCrash, storeVars
<1> QED
  BY <1>1, <1>2, <1>3, <1>4, <1>5, <1>6 DEF WorkerStep, Handle

\* service.py:230-260, handlers.py:14-18: when no admin settles by hand, every
\* delivery works for the customer who paid, or comes too late.
THEOREM PayerInvariance ==
  ASSUME Admins = {}
  PROVE  Spec => [](IInv /\ PayerInv)
<1>1. IInv /\ PayerInv /\ [Next]_vars => PayerInv'
  <2>1. ASSUME IInv, PayerInv, Next PROVE PayerInv'
    <3>1. CASE Customer
      BY <2>1, <3>1, CustomerPayer DEF Customer
    <3>2. CASE \E w \in Workers : Deliver(w) \/ WorkerStep(w)
      BY <2>1, <3>2, WorkerPayer
    <3>3. CASE \/ \E c \in Creators : Request(c) \/ CreatorStep(c)
               \/ BootStep \/ ApiCrash
      BY <2>1, <3>3, ApiPayer
    <3> QED
      BY <2>1, <3>1, <3>2, <3>3 DEF Next
  <2>2. ASSUME IInv, PayerInv, UNCHANGED vars PROVE PayerInv'
    BY <2>2, PayerKept DEF vars, storeVars, processVars
  <2> QED
    BY <2>1, <2>2
<1> QED
  BY Invariance, InitPayer, <1>1, PTL DEF Spec

\* service.py:230-260: without admins a notification settles the order its
\* customer meant to pay, although amounts are reused and deliveries overlap.
THEOREM OrderIsRight ==
  ASSUME Admins = {}
  PROVE  Spec => []RightOrder
<1>1. PayerInv => RightOrder
  BY DEF PayerInv
<1> QED
  BY PayerInvariance, <1>1, PTL

\* handlers.py:34-37: without admins "not found" never drops a payment.
THEOREM NothingDropped ==
  ASSUME Admins = {}
  PROVE  Spec => NotFoundOnlyIfSettled
<1> DEFINE A == \A w \in Workers :
                  handler[w].pc \in {"select", "lock"} /\ handler'[w].pc = "idle"
                     /\ faults' = faults
                     => SmsUsed(handler[w].sms)
<1>1. IInv /\ PayerInv /\ [Next]_vars => [A]_vars
  <2>1. SUFFICES ASSUME IInv, PayerInv, Next, NEW w \in Workers,
                        handler[w].pc \in {"select", "lock"}, handler'[w].pc = "idle",
                        faults' = faults, ~SmsUsed(handler[w].sms)
                 PROVE  FALSE
    OBVIOUS
  <2>2. /\ handler \in [Workers -> Deliveries] /\ HandlersOK
        /\ faults \in [FaultKinds -> Nat] /\ {"db", "worker"} \subseteq FaultKinds
    BY <2>1 DEF IInv, TypeOK, HandlerTypeOK, PoolTypeOK, FaultKinds
  <2>3. PICK v \in Workers : Deliver(v) \/ WorkerStep(v)
    BY <2>1 DEF Next, Customer, Pay, Request, CreatorStep, AdminSelect, AdminStep, BootStep, ApiCrash
  <2>4. v = w
    BY <2>1, <2>2, <2>3
       DEF Deliver, Receive, WorkerStep, Handle, CheckProcessed, SelectIntent, LockIntent,
           FlushPaid, FlushConflict, CommitPaid, ReleaseAmount, ReleaseFails, HandlerFails,
           WorkerCrash, Proceed, Leave, Turn
  <2>5. ~Fault("db") /\ ~Fault("worker")
    BY <2>1, <2>2 DEF Fault
  <2>6. SelectIntent(w) \/ LockIntent(w)
    BY <2>1, <2>3, <2>4, <2>5
       DEF Deliver, Receive, WorkerStep, Handle, CheckProcessed, FlushPaid, FlushConflict,
           CommitPaid, ReleaseAmount, ReleaseFails, HandlerFails, WorkerCrash, Handling
  <2> DEFINE s == handler[w].sms
  <2>7. s \in Sms /\ payer[s] # None
    BY <2>1, <2>2 DEF HandlersOK, PayerInv, DeliveriesOK, Handling
  <2>8. payer[s] \in Intents /\ Pending(payer[s]) /\ intents[payer[s]].amount = SmsAmount[s]
    BY <2>1, <2>7, UnusedPayer
  <2>9. CASE SelectIntent(w)
    BY <2>1, <2>2, <2>8, <2>9 DEF SelectIntent, Matching, Turn, Deliveries
  <2>10. CASE LockIntent(w)
    <3>1. payer[s] = handler[w].intent
      BY <2>1, <2>10 DEF PayerInv, DeliveriesOK, LockIntent, Handling
    <3> QED
      BY <2>1, <2>2, <2>8, <2>10, <3>1 DEF LockIntent, Proceed, Turn, Deliveries
  <2> QED
    BY <2>6, <2>9, <2>10
<1> QED
  BY PayerInvariance, <1>1, PTL DEF Spec, NotFoundOnlyIfSettled

-----------------------------------------------------------------------------
(* The system implements the ledger. *)

LEMMA CommittedValue ==
  ASSUME NEW i \in Intents
  PROVE  Committed[i] = IF intents[i].status = "NEW" THEN Blank ELSE intents[i]
BY DEF Committed

\* Opening or undoing a row does not show.
LEMMA NotShown ==
  ASSUME \A i \in Intents :
            \/ intents'[i] = intents[i]
            \/ /\ intents[i] = Blank \/ intents[i].status = "NEW"
               /\ intents'[i] = Blank \/ intents'[i].status = "NEW"
  PROVE  Committed' = Committed
BY DEF Committed, Blank

\* Moving one row to another visible value changes that row alone.
LEMMA ShownStep ==
  ASSUME NEW i \in Intents, NEW r, r.status # "NEW",
         \A j \in Intents \ {i} : intents'[j] = intents[j],
         intents'[i] = r
  PROVE  Committed' = [Committed EXCEPT ![i] = r]
<1>1. \A j \in Intents : Committed'[j] = IF j = i THEN r ELSE Committed[j]
  BY DEF Committed
<1>2. Committed' = [j \in Intents |-> Committed'[j]]
  BY DEF Committed
<1>3. [Committed EXCEPT ![i] = r] = [j \in Intents |-> IF j = i THEN r ELSE Committed[j]]
  BY DEF Committed
<1> QED
  BY <1>1, <1>2, <1>3

LEMMA LedgerReserve ==
  ASSUME IInv, NEW c \in Creators, CommitOrder(c)
  PROVE  L!Next
<1> DEFINE i == request[c].intent
           a == intents[i].amount
<1>a. StoreTypeOK /\ RowsOK /\ CreatorsOK /\ UniqueLive
  BY DEF IInv, TypeOK
<1>1. /\ i \in Intents /\ intents[i].status = "NEW" /\ a \in Amounts /\ intents[i].sms = None
      /\ intents' = [intents EXCEPT ![i].status = "PENDING"]
  BY <1>a DEF CommitOrder, CommitRow, CreatorsOK, RowsOK
<1>2. /\ \A j \in Intents \ {i} : intents'[j] = intents[j]
      /\ intents'[i] = [status |-> "PENDING", amount |-> a, sms |-> None]
  BY <1>a, <1>1 DEF StoreTypeOK
<1>3. Committed[i] = L!Free
  BY <1>1, CommittedValue DEF L!Free, Blank
<1>4. \A j \in Intents : Committed[j].status = "PENDING" => Committed[j].amount # a
  BY <1>a, <1>1, CommittedValue DEF Blank, UniqueLive, Live
<1>5. Committed' = [Committed EXCEPT ![i] = [status |-> "PENDING", amount |-> a, sms |-> None]]
  BY <1>1, <1>2, ShownStep
<1> QED
  BY <1>1, <1>3, <1>4, <1>5 DEF L!Next, L!Reserve

LEMMA LedgerSettle ==
  ASSUME IInv, NEW w \in Workers, CommitPaid(w)
  PROVE  L!Next
<1> DEFINE t == handler[w].intent
           s == handler[w].sms
<1>a. StoreTypeOK /\ HandlersOK /\ SmsClaimed
  BY DEF IInv, TypeOK
<1>1. /\ t \in Intents /\ s \in Sms /\ Pending(t) /\ intents[t].amount = SmsAmount[s]
      /\ ~SmsUsed(s) /\ PayRow(t, s)
  BY <1>a DEF CommitPaid, HandlersOK, HandlerHolds, Handling, SmsClaimed
<1>2. /\ \A j \in Intents \ {t} : intents'[j] = intents[j]
      /\ intents'[t] = [status |-> "PAID", amount |-> intents[t].amount, sms |-> s]
  BY <1>a, <1>1, PayRowEffect
<1>3. Committed[t] = intents[t] /\ intents[t] \in [status : {"NONE", "NEW", "PENDING", "PAID"},
                                   amount : Amounts \cup {None}, sms : Sms \cup {None}]
  BY <1>a, <1>1, CommittedValue DEF Pending, StoreTypeOK
<1>4. \A j \in Intents : Committed[j].sms # s
  BY <1>1, CommittedValue, StoreAssumption DEF SmsUsed, Blank
<1>5. Committed' = [Committed EXCEPT ![t] = [status |-> "PAID", amount |-> SmsAmount[s],
                                             sms |-> s]]
  BY <1>1, <1>2, ShownStep
<1> QED
  BY <1>1, <1>3, <1>4, <1>5 DEF L!Next, L!Settle, Pending

LEMMA LedgerConfirm ==
  ASSUME IInv, NEW d \in Admins, CommitConfirmed(d)
  PROVE  L!Next
<1> DEFINE t == admin[d].intent
<1>a. StoreTypeOK /\ AdminsOK /\ RowsOK
  BY DEF IInv, TypeOK
<1>1. t \in Intents /\ Pending(t) /\ PayRow(t, None) /\ intents[t].sms = None
  BY <1>a DEF CommitConfirmed, AdminsOK, AdminHolds, Confirming, RowsOK, Pending
<1>2. /\ \A j \in Intents \ {t} : intents'[j] = intents[j]
      /\ intents'[t] = [status |-> "PAID", amount |-> intents[t].amount, sms |-> None]
  BY <1>a, <1>1, PayRowEffect
<1>3. Committed[t] = intents[t] /\ intents[t] \in [status : {"NONE", "NEW", "PENDING", "PAID"},
                                   amount : Amounts \cup {None}, sms : Sms \cup {None}]
  BY <1>a, <1>1, CommittedValue DEF Pending, StoreTypeOK
<1>4. Committed' = [Committed EXCEPT ![t] = [@ EXCEPT !.status = "PAID"]]
  BY <1>1, <1>2, <1>3 DEF Committed
<1> QED
  BY <1>1, <1>3, <1>4 DEF L!Next, L!Confirm, Pending

\* Any other step of the system leaves the committed rows alone.
LEMMA LedgerStutters ==
  ASSUME IInv, Next,
         ~\E c \in Creators : CommitOrder(c),
         ~\E w \in Workers : CommitPaid(w),
         ~\E d \in Admins : CommitConfirmed(d)
  PROVE  UNCHANGED Committed
<1>a. StoreTypeOK /\ RowsOK /\ CreatorsOK
  BY DEF IInv, TypeOK
<1>1. ASSUME NEW c \in Creators, Request(c) \/ CreatorStep(c) PROVE UNCHANGED Committed
  <2>1. CASE InsertOrder(c)
    <3>1. PICK i \in Intents : intents[i].status = "NONE" /\ InsertRow(i, request[c].amount)
      BY <2>1 DEF InsertOrder, IsNextId
    <3> QED
      BY <1>a, <3>1, NotShown DEF InsertRow, StoreTypeOK, RowsOK
  <2>2. CASE CommitFails(c)
    <3>1. request[c].intent \in Intents /\ intents[request[c].intent].status = "NEW"
      BY <1>a, <2>2 DEF CommitFails, CreatorsOK
    <3> QED
      BY <1>a, <2>2, <3>1, NotShown DEF CommitFails, RollbackRow, StoreTypeOK
  <2>3. CASE ~(InsertOrder(c) \/ CommitFails(c))
    <3>1. UNCHANGED intents
      BY <1>1, <2>3
         DEF Request, CreateOrder, CreatorStep, Creation, SpopAmount, NoFreeAmount, SpopFails,
             TrackAmount, TrackFails, ChooseFallback, FallbackFails, InsertConflict,
             InsertFails, UntrackAmount, GiveBackAmount, CompensationFails, storeVars
    <3> QED
      BY <3>1, NotShown
  <2> QED
    BY <2>1, <2>2, <2>3
<1>2. CASE Customer \/ BootStep \/ (\E w \in Workers : Deliver(w) \/ WorkerStep(w))
           \/ (\E d \in Admins : AdminSelect(d) \/ AdminStep(d))
  <2>1. UNCHANGED intents
    BY <1>2 DEF Customer, Pay, BootStep, StartupStep, SeedOrSkip, SeedBatch, ClearPending,
         ScanPage, AddBuffer, Rebuild, Deliver, Receive, WorkerStep, Handle, CheckProcessed,
         SelectIntent, LockIntent, FlushPaid, FlushConflict, ReleaseAmount, ReleaseFails,
         HandlerFails, WorkerCrash, AdminSelect, SelectPayment, AdminStep, Confirmation,
         LockPayment, FlushConfirmed, ReleaseConfirmed, ReleaseConfirmedFails, ConfirmFails,
         storeVars
  <2> QED
    BY <2>1, NotShown
<1>3. CASE ApiCrash
  BY <1>3, NotShown DEF ApiCrash
<1> QED
  BY <1>1, <1>2, <1>3 DEF Next

\* service.py:46-110, 230-260, admin/service.py:33-48: every step of the
\* system is a step of the abstract ledger or does not show in it.
THEOREM Implementation == Spec => LedgerSpec
<1>1. Init => L!Init
  BY DEF Init, StoreInit, L!Init, L!Free, Committed, Blank
<1>2. IInv /\ [Next]_vars => [L!Next]_Committed
  <2>1. ASSUME IInv, Next PROVE L!Next \/ UNCHANGED Committed
    BY <2>1, LedgerReserve, LedgerSettle, LedgerConfirm, LedgerStutters
  <2>2. ASSUME UNCHANGED vars PROVE UNCHANGED Committed
    BY <2>2, NotShown DEF vars, storeVars
  <2> QED
    BY <2>1, <2>2
<1> QED
  BY Invariance, <1>1, <1>2, PTL DEF Spec, LedgerSpec, L!Spec
=============================================================================
