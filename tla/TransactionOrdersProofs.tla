----------------------- MODULE TransactionOrdersProofs -----------------------
(***************************************************************************)
(* Proofs about TransactionOrders, for any sets of orders, keys, bodies    *)
(* and handlers and any bound on faults.                                   *)
(***************************************************************************)
EXTENDS TransactionOrders, SumLemmas, TLAPS

(* What handlers and keys refer to exists; what does not exist is untouched. *)
RowsExist ==
  /\ \A t \in DOMAIN creating :
       creating[t].pc \in {"storeKey", "ok"} => creating[t].order \in Placed
  /\ \A t \in DOMAIN handling : handling[t].order \in Placed
  /\ \A k \in DOMAIN idem : idem[k].order \in Placed
  /\ \A o \in OrderIds \ Placed : fills[o] = 0

Inv == TypeOK /\ RowsExist

USE DEF Placed, Empty

-----------------------------------------------------------------------------
(* What the shared steps of the handlers do to the tables they touch. *)

LEMMA PutFacts ==
  ASSUME NEW S, NEW f, f \in [DOMAIN f -> S], NEW x, NEW v \in S
  PROVE  /\ DOMAIN Put(f, x, v) = DOMAIN f \cup {x}
         /\ Put(f, x, v) \in [DOMAIN Put(f, x, v) -> S]
         /\ Put(f, x, v)[x] = v
         /\ \A y \in DOMAIN f : y # x => Put(f, x, v)[y] = f[y]
BY DEF Put

LEMMA WithoutFacts ==
  ASSUME NEW S, NEW f, f \in [DOMAIN f -> S], NEW X
  PROVE  /\ DOMAIN Without(f, X) = DOMAIN f \ X
         /\ Without(f, X) \in [DOMAIN Without(f, X) -> S]
         /\ \A y \in DOMAIN f \ X : Without(f, X)[y] = f[y]
BY DEF Without

(* A handler moves on: only its pc changes, and perhaps its record; or it *)
(* has booked a limit.                                                    *)
LEMMA GoFacts ==
  ASSUME handling \in [DOMAIN handling -> Handler],
         NEW t \in DOMAIN handling, NEW pc \in HandlerPc,
         \/ Go(t, pc)
         \/ \E r \in RecordStatus :
              handling' = [handling EXCEPT ![t].pc = pc, ![t].record = r]
         \/ /\ pc = handling[t].pc
            /\ \E left \in SUBSET Limits : handling' = [handling EXCEPT ![t].left = left]
  PROVE  /\ DOMAIN handling' = DOMAIN handling
         /\ handling' \in [DOMAIN handling' -> Handler]
         /\ handling'[t].pc = pc
         /\ \A u \in DOMAIN handling :
              /\ handling'[u].order = handling[u].order
              /\ handling'[u].amount = handling[u].amount
              /\ u # t => handling'[u] = handling[u]
<1>1. CASE Go(t, pc)
  BY <1>1 DEF Go, Handler
<1>2. ASSUME NEW r \in RecordStatus,
             handling' = [handling EXCEPT ![t].pc = pc, ![t].record = r]
      PROVE  /\ DOMAIN handling' = DOMAIN handling
             /\ handling' \in [DOMAIN handling' -> Handler]
             /\ handling'[t].pc = pc
             /\ \A u \in DOMAIN handling :
                  /\ handling'[u].order = handling[u].order
                  /\ handling'[u].amount = handling[u].amount
                  /\ u # t => handling'[u] = handling[u]
  <2>1. handling[t] \in Handler
    OBVIOUS
  <2>2. handling'[t] = [handling[t] EXCEPT !.pc = pc, !.record = r]
    BY <1>2
  <2>3. handling'[t] \in Handler /\ handling'[t].pc = pc
        /\ handling'[t].order = handling[t].order
        /\ handling'[t].amount = handling[t].amount
    BY <2>1, <2>2 DEF Handler
  <2>4. QED
    BY <1>2, <2>3
<1>3. ASSUME NEW left \in SUBSET Limits, pc = handling[t].pc,
             handling' = [handling EXCEPT ![t].left = left]
      PROVE  /\ DOMAIN handling' = DOMAIN handling
             /\ handling' \in [DOMAIN handling' -> Handler]
             /\ handling'[t].pc = pc
             /\ \A u \in DOMAIN handling :
                  /\ handling'[u].order = handling[u].order
                  /\ handling'[u].amount = handling[u].amount
                  /\ u # t => handling'[u] = handling[u]
  BY <1>3 DEF Handler
<1>4. QED
  BY <1>1, <1>2, <1>3

LEMMA FinishFacts ==
  ASSUME handling \in [DOMAIN handling -> Handler],
         NEW t \in DOMAIN handling, Finish(t)
  PROVE  /\ DOMAIN handling' = DOMAIN handling \ {t}
         /\ handling' \in [DOMAIN handling' -> Handler]
         /\ \A u \in DOMAIN handling' : handling'[u] = handling[u]
BY DEF Finish, Without

LEMMA BeginFacts ==
  ASSUME handling \in [DOMAIN handling -> Handler], NEW t \in Tasks,
         NEW pc \in HandlerPc, NEW o \in OrderIds, NEW a \in Nat,
         Begin(t, pc, o, a)
  PROVE  /\ t \notin DOMAIN handling
         /\ DOMAIN handling' = DOMAIN handling \cup {t}
         /\ handling' \in [DOMAIN handling' -> Handler]
         /\ handling'[t].pc = pc
         /\ handling'[t].order = o
         /\ handling'[t].amount = a
         /\ \A u \in DOMAIN handling : handling'[u] = handling[u]
         /\ overlapped' \subseteq overlapped \cup {o}
         /\ overlapped \subseteq overlapped'
         /\ o \in overlapped' \/ \A u \in DOMAIN handling : handling[u].order # o
<1> DEFINE h == [pc |-> pc, order |-> o, amount |-> a, record |-> "none",
                 left |-> Limits]
<1>1. h \in Handler
  BY DEF Handler
<1>2. t \notin DOMAIN handling /\ handling' = Put(handling, t, h)
  BY DEF Begin, Free
<1>3. /\ overlapped' \subseteq overlapped \cup {o}
      /\ overlapped \subseteq overlapped'
      /\ o \in overlapped' \/ \A u \in DOMAIN handling : handling[u].order # o
  BY DEF Begin
<1>4. QED
  BY <1>1, <1>2, <1>3 DEF Put

LEMMA GoCreateFacts ==
  ASSUME creating \in [DOMAIN creating -> CreateTask],
         NEW t \in DOMAIN creating, NEW pc \in CreatePc \cup Answer,
         GoCreate(t, pc)
  PROVE  /\ DOMAIN creating' = DOMAIN creating
         /\ creating' \in [DOMAIN creating' -> CreateTask]
         /\ creating'[t].pc = pc
         /\ \A u \in DOMAIN creating :
              /\ creating'[u].key = creating[u].key
              /\ creating'[u].body = creating[u].body
              /\ creating'[u].order = creating[u].order
              /\ u # t => creating'[u] = creating[u]
BY DEF GoCreate, CreateTask

(* As RowsExist asks of the createOrder handlers. *)
LEMMA GoCreateRows ==
  ASSUME Inv, NEW t \in DOMAIN creating, NEW pc \in CreatePc \cup Answer,
         GoCreate(t, pc),
         pc \in {"storeKey", "ok"} => creating[t].order \in Placed
  PROVE  /\ DOMAIN creating' \subseteq Tasks
         /\ creating' \in [DOMAIN creating' -> CreateTask]
         /\ \A u \in DOMAIN creating' :
              creating'[u].pc \in {"storeKey", "ok"} => creating'[u].order \in Placed
<1>1. creating \in [DOMAIN creating -> CreateTask] /\ DOMAIN creating \subseteq Tasks
  BY DEF Inv, TypeOK
<1>2. /\ DOMAIN creating' = DOMAIN creating
      /\ creating' \in [DOMAIN creating' -> CreateTask]
      /\ creating'[t].pc = pc
      /\ \A u \in DOMAIN creating :
           /\ creating'[u].order = creating[u].order
           /\ u # t => creating'[u] = creating[u]
  BY <1>1, GoCreateFacts
<1>3. QED
  BY <1>1, <1>2 DEF Inv, RowsExist

LEMMA SetStatusFacts ==
  ASSUME TypeOK, NEW o \in Placed, NEW s \in Status, SetStatus(o, s)
  PROVE  /\ DOMAIN orders' = DOMAIN orders
         /\ orders' \in [DOMAIN orders' -> Row]
         /\ orders'[o].status = s
         /\ \A p \in Placed :
              /\ orders'[p].key = orders[p].key
              /\ orders'[p].body = orders[p].body
              /\ p # o => orders'[p] = orders[p]
BY DEF SetStatus, TypeOK, Row

LEMMA MoveRecordFacts ==
  ASSUME TypeOK, NEW o \in OrderIds, NEW from, NEW to, MoveRecord(o, from, to)
  PROVE  executions' \in [OrderIds -> [RecordStatus -> Int]]
BY DEF MoveRecord, TypeOK

USE DEF RowsExist

-----------------------------------------------------------------------------

LEMMA InitInv == Init => Inv
BY ConstantsAssumption DEF Init, Inv, TypeOK

(* createOrder *)

LEMMA CreateOrderInv ==
  ASSUME Inv, NEW t \in Tasks, NEW k \in Keys, NEW b \in Bodies, CreateOrder(t, k, b)
  PROVE  Inv'
BY ConstantsAssumption DEF Inv, TypeOK, CreateOrder, CheckIdempotency, Put, Free,
   createVars, CreateTask, KeyRow, CreatePc, Answer

LEMMA DropExpiredKeyInv ==
  ASSUME Inv, NEW t \in Tasks, DropExpiredKey(t)
  PROVE  Inv'
<1> DEFINE pc == IF creating[t].key \in DOMAIN idem THEN "limits" ELSE "error"
<1>1. /\ t \in DOMAIN creating
      /\ GoCreate(t, pc)
      /\ pc \in CreatePc \cup Answer
      /\ pc \notin {"storeKey", "ok"}
  BY DEF DropExpiredKey, CreateAt, CreatePc, Answer
<1>2. /\ DOMAIN idem' = DOMAIN idem \ {creating[t].key}
      /\ idem' \in [DOMAIN idem' -> KeyRow]
      /\ \A k \in DOMAIN idem' : idem'[k] = idem[k]
  BY DEF DropExpiredKey, Inv, TypeOK, Without
<1>3. QED
  BY <1>1, <1>2, GoCreateRows DEF Inv, TypeOK, DropExpiredKey, createVars

LEMMA CheckOrderLimitsInv ==
  ASSUME Inv, NEW t \in Tasks, CheckOrderLimits(t)
  PROVE  Inv'
<1>1. PICK pc \in {"insert", "refused"} : t \in DOMAIN creating /\ GoCreate(t, pc)
  BY DEF CheckOrderLimits, CreateAt, GoCreate
<1>2. pc \in CreatePc \cup Answer
  BY DEF CreatePc, Answer
<1>3. QED
  BY <1>1, <1>2, GoCreateRows DEF Inv, TypeOK, CheckOrderLimits, createVars

LEMMA InsertOrderInv ==
  ASSUME Inv, NEW t \in Tasks, NEW o \in OrderIds, NEW totpEnabled \in BOOLEAN,
         InsertOrder(t, o, totpEnabled)
  PROVE  Inv'
<1> DEFINE b == creating[t].body
           otp == RequiresOtp(b, totpEnabled)
           row == [status |-> IF otp THEN "pending_verification"
                                     ELSE "pending_execution",
                   key |-> creating[t].key, body |-> b, amount |-> b.amount,
                   otpVerified |-> FALSE]
<1>1. t \in DOMAIN creating /\ creating[t] \in CreateTask
  BY DEF InsertOrder, CreateAt, Inv, TypeOK
<1>2. row \in Row
  BY <1>1, ConstantsAssumption DEF Row, Status, PendingStatus, Body, CreateTask
<1>3. orders' = Put(orders, o, row)
  BY DEF InsertOrder
<1>4. /\ DOMAIN orders' = DOMAIN orders \cup {o}
      /\ orders' \in [DOMAIN orders' -> Row]
  BY <1>2, <1>3 DEF Inv, TypeOK, Put
<1>5. /\ DOMAIN creating' = DOMAIN creating
      /\ creating' \in [DOMAIN creating' -> CreateTask]
      /\ creating'[t].order = o
      /\ \A u \in DOMAIN creating : u # t => creating'[u] = creating[u]
  BY <1>1 DEF InsertOrder, Inv, TypeOK, CreateTask, CreatePc
<1>6. gated' \subseteq OrderIds
  BY DEF InsertOrder, Inv, TypeOK
<1>7. QED
  BY <1>4, <1>5, <1>6 DEF InsertOrder, Inv, TypeOK, createVars

LEMMA InsertDuplicateInv ==
  ASSUME Inv, NEW t \in Tasks, InsertDuplicate(t)
  PROVE  Inv'
<1>1. t \in DOMAIN creating /\ GoCreate(t, "duplicate")
  BY DEF InsertDuplicate, CreateAt
<1>2. "duplicate" \in CreatePc \cup Answer
  BY DEF Answer
<1>3. QED
  BY <1>1, <1>2, GoCreateRows DEF Inv, TypeOK, InsertDuplicate, createVars

LEMMA StoreIdempotencyKeyInv ==
  ASSUME Inv, NEW t \in Tasks, StoreIdempotencyKey(t)
  PROVE  Inv'
<1> DEFINE k == creating[t].key
           b == creating[t].body
           o == creating[t].order
           row == [body |-> b, order |-> o, expired |-> FALSE]
<1>1. /\ t \in DOMAIN creating
      /\ creating[t] \in CreateTask
      /\ o \in Placed
  BY DEF StoreIdempotencyKey, CreateAt, Inv, TypeOK
<1>2. k \in Keys /\ b \in Bodies /\ row \in KeyRow
  BY <1>1 DEF CreateTask, KeyRow, Inv, TypeOK
<1>3. CASE k \in DOMAIN idem
  <2>1. GoCreate(t, "duplicate") /\ "duplicate" \in CreatePc \cup Answer
    BY <1>3 DEF StoreIdempotencyKey, Answer
  <2>2. UNCHANGED <<orders, idem, immediates, gated, createVars>>
    BY <1>3 DEF StoreIdempotencyKey
  <2>3. QED
    BY <1>1, <2>1, <2>2, GoCreateRows DEF Inv, TypeOK, createVars
<1>4. CASE k \notin DOMAIN idem
  <2>1. GoCreate(t, "ok") /\ "ok" \in CreatePc \cup Answer
    BY <1>4 DEF StoreIdempotencyKey, Answer
  <2>2. idem' = Put(idem, k, row)
    BY <1>4 DEF StoreIdempotencyKey
  <2>3. /\ DOMAIN idem' = DOMAIN idem \cup {k}
        /\ idem' \in [DOMAIN idem' -> KeyRow]
        /\ idem'[k] = row
        /\ \A j \in DOMAIN idem : j # k => idem'[j] = idem[j]
    BY <1>2, <2>2 DEF Inv, TypeOK, Put
  <2>4. immediates' \in [OrderIds -> Nat]
    BY <1>4 DEF StoreIdempotencyKey, Inv, TypeOK
  <2>5. QED
    BY <1>1, <1>2, <2>1, <2>3, <2>4, GoCreateRows
       DEF Inv, TypeOK, StoreIdempotencyKey, createVars
<1>5. QED
  BY <1>3, <1>4

LEMMA RespondInv ==
  ASSUME Inv, NEW t \in Tasks, Respond(t)
  PROVE  Inv'
<1>1. /\ DOMAIN creating' = DOMAIN creating \ {t}
      /\ creating' \in [DOMAIN creating' -> CreateTask]
      /\ \A u \in DOMAIN creating' : creating'[u] = creating[u]
  BY DEF Respond, Inv, TypeOK, Without
<1>2. QED
  BY <1>1 DEF Inv, TypeOK, Respond, createVars

(* verifyOrder, cancelOrder, updateOrder *)

LEMMA BeginInv ==
  ASSUME Inv, NEW t \in Tasks, NEW pc \in HandlerPc, NEW o \in Placed, NEW a \in Nat,
         Begin(t, pc, o, a),
         UNCHANGED <<orders, idem, executions, used, creating, fills, aged, faults,
                     gated, reported, lost, orphans>>,
         immediates' \in [OrderIds -> Nat], proved' \subseteq OrderIds
  PROVE  Inv'
<1>1. /\ DOMAIN handling' = DOMAIN handling \cup {t}
      /\ handling' \in [DOMAIN handling' -> Handler]
      /\ handling'[t].order = o
      /\ \A u \in DOMAIN handling : handling'[u] = handling[u]
      /\ overlapped' \subseteq overlapped \cup {o}
  <2>1. handling \in [DOMAIN handling -> Handler] /\ o \in OrderIds
    BY DEF Inv, TypeOK
  <2>2. QED
    BY <2>1, BeginFacts
<1>2. overlapped' \subseteq OrderIds
  BY <1>1 DEF Inv, TypeOK
<1>3. QED
  BY <1>1, <1>2 DEF Inv, TypeOK

LEMMA VerifyOrderInv ==
  ASSUME Inv, NEW t \in Tasks, NEW o \in OrderIds, NEW c \in BOOLEAN,
         VerifyOrder(t, o, c)
  PROVE  Inv'
<1>1. "markVerified" \in HandlerPc /\ o \in Placed /\ proved' \subseteq OrderIds
  BY DEF VerifyOrder, HasStatus, HandlerPc, Inv, TypeOK
<1>2. QED
  BY <1>1, BeginInv DEF VerifyOrder, handleVars, Inv, TypeOK

LEMMA CancelOrderInv ==
  ASSUME Inv, NEW t \in Tasks, NEW o \in OrderIds, CancelOrder(t, o)
  PROVE  Inv'
<1>1. "cancel" \in HandlerPc /\ o \in Placed
  BY DEF CancelOrder, IsPending, HandlerPc
<1>2. QED
  BY <1>1, BeginInv DEF CancelOrder, handleVars, Inv, TypeOK

LEMMA UpdateOrderInv ==
  ASSUME Inv, NEW t \in Tasks, NEW o \in OrderIds, NEW a \in NewAmounts,
         UpdateOrder(t, o, a)
  PROVE  Inv'
<1>1. "update" \in HandlerPc /\ o \in Placed /\ a \in Nat
  BY ConstantsAssumption DEF UpdateOrder, IsPending, HandlerPc
<1>2. QED
  BY <1>1, BeginInv DEF UpdateOrder, handleVars, Inv, TypeOK

(* A handler that sets the status of its order and ends or moves on. *)
LEMMA SetStatusInv ==
  ASSUME Inv, NEW t \in DOMAIN handling, NEW s \in Status,
         SetStatus(handling[t].order, s),
         Finish(t) \/ \E pc \in HandlerPc : Go(t, pc),
         UNCHANGED <<idem, executions, used, immediates, creating, fills, aged, faults,
                     gated, proved, reported, lost, orphans, overlapped>>
  PROVE  Inv'
<1>1. /\ DOMAIN orders' = DOMAIN orders
      /\ orders' \in [DOMAIN orders' -> Row]
  BY SetStatusFacts DEF Inv
<1>2. /\ DOMAIN handling' \subseteq DOMAIN handling
      /\ handling' \in [DOMAIN handling' -> Handler]
      /\ \A u \in DOMAIN handling' : handling'[u].order = handling[u].order
  BY GoFacts, FinishFacts DEF Inv, TypeOK
<1>3. QED
  BY <1>1, <1>2 DEF Inv, TypeOK

LEMMA MarkVerifiedInv ==
  ASSUME Inv, NEW t \in Tasks, MarkVerified(t)
  PROVE  Inv'
<1>1. t \in DOMAIN handling /\ Finish(t) /\ handling[t].order \in Placed
  BY DEF MarkVerified, HandlerAt, Inv
<1>2. /\ DOMAIN orders' = DOMAIN orders
      /\ orders' \in [DOMAIN orders' -> Row]
  <2> DEFINE o == handling[t].order
             row == [orders[o] EXCEPT !.status = "pending_execution", !.otpVerified = TRUE]
  <2>1. orders \in [Placed -> Row] /\ orders[o] \in Row
    BY <1>1 DEF Inv, TypeOK
  <2>2. row \in Row
    BY <2>1 DEF Row, Status, PendingStatus
  <2>3. orders' = [orders EXCEPT ![o] = row]
    BY <1>1, <2>1 DEF MarkVerified
  <2>4. QED
    BY <2>1, <2>2, <2>3
<1>3. immediates' \in [OrderIds -> Nat]
  BY <1>1 DEF MarkVerified, Inv, TypeOK
<1>4. UNCHANGED <<idem, executions, fills, used, reported, lost, creating, faults,
                  orphans, aged, gated, proved, overlapped>>
  BY DEF MarkVerified, handleVars
<1>5. QED
  BY <1>1, <1>2, <1>3, <1>4, FinishFacts, ZenonT(40) DEF Inv, TypeOK

LEMMA MarkCancelledInv ==
  ASSUME Inv, NEW t \in Tasks, MarkCancelled(t)
  PROVE  Inv'
<1>1. t \in DOMAIN handling /\ "cancelled" \in Status
  BY DEF MarkCancelled, HandlerAt, Status, TerminalStatus
<1>2. QED
  BY <1>1, SetStatusInv DEF MarkCancelled, handleVars

LEMMA PutAmountInv ==
  ASSUME Inv, NEW t \in Tasks, PutAmount(t)
  PROVE  Inv'
<1>1. t \in DOMAIN handling /\ Finish(t)
      /\ handling[t].order \in Placed /\ handling[t].amount \in Nat
  BY DEF PutAmount, HandlerAt, Inv, TypeOK, Handler
<1>2. /\ DOMAIN orders' = DOMAIN orders
      /\ orders' \in [DOMAIN orders' -> Row]
  BY <1>1 DEF PutAmount, Inv, TypeOK, Row
<1>3. QED
  BY <1>1, <1>2, FinishFacts DEF PutAmount, handleVars, Inv, TypeOK

(* executeOrder *)

LEMMA BeginExecuteFacts ==
  ASSUME Inv, NEW t \in Tasks, NEW o \in OrderIds, CanExecute(o), BeginExecute(t, o)
  PROVE  \E pc \in BeforeRunPc :
           /\ pc \in HandlerPc
           /\ o \in Placed
           /\ orders[o].amount \in Nat
           /\ Begin(t, pc, o, orders[o].amount)
BY DEF CanExecute, HasStatus, BeginExecute, BeforeRunPc, HandlerPc, Inv, TypeOK, Row

LEMMA ExecuteOrderInv ==
  ASSUME Inv, NEW t \in Tasks, NEW o \in OrderIds, ExecuteOrder(t, o)
  PROVE  Inv'
BY BeginExecuteFacts, BeginInv DEF ExecuteOrder, executeVars, stepVars, Inv, TypeOK

LEMMA RunImmediateInv ==
  ASSUME Inv, NEW t \in Tasks, NEW o \in OrderIds, RunImmediate(t, o)
  PROVE  Inv'
<1>1. immediates' \in [OrderIds -> Nat]
  BY DEF RunImmediate, Inv, TypeOK
<1>2. CASE CanExecute(o)
  BY <1>1, <1>2, BeginExecuteFacts, BeginInv DEF RunImmediate, executeVars, stepVars, Inv, TypeOK
<1>3. CASE ~ CanExecute(o)
  BY <1>1, <1>3 DEF RunImmediate, executeVars, stepVars, Inv, TypeOK
<1>4. QED
  BY <1>2, <1>3

LEMMA RejectExpiredInv ==
  ASSUME Inv, NEW t \in Tasks, RejectExpired(t)
  PROVE  Inv'
<1>1. t \in DOMAIN handling /\ "rejected" \in Status
  BY DEF RejectExpired, HandlerAt, Status, TerminalStatus
<1>2. QED
  BY <1>1, SetStatusInv DEF RejectExpired, executeVars, stepVars

LEMMA MarkExecutingInv ==
  ASSUME Inv, NEW t \in Tasks, MarkExecuting(t)
  PROVE  Inv'
<1>1. t \in DOMAIN handling /\ "executing" \in Status /\ "createRecord" \in HandlerPc
  BY DEF MarkExecuting, HandlerAt, Status, HandlerPc, OwnerPc
<1>2. QED
  BY <1>1, SetStatusInv DEF MarkExecuting, executeVars, stepVars

LEMMA CompleteOrderInv ==
  ASSUME Inv, NEW t \in Tasks, CompleteOrder(t)
  PROVE  Inv'
<1>1. t \in DOMAIN handling /\ "completed" \in Status /\ "completeRecord" \in HandlerPc
  BY DEF CompleteOrder, HandlerAt, Status, TerminalStatus, HandlerPc, OwnerPc, TryPc, BookPc
<1>2. QED
  BY <1>1, SetStatusInv DEF CompleteOrder, executeVars, stepVars

LEMMA FailOrderInv ==
  ASSUME Inv, NEW t \in Tasks, FailOrder(t)
  PROVE  Inv'
<1>1. t \in DOMAIN handling /\ "failed" \in Status /\ "failRecord" \in HandlerPc
  BY DEF FailOrder, HandlerAt, Status, TerminalStatus, HandlerPc, OwnerPc, TryPc
<1>2. QED
  BY <1>1, SetStatusInv DEF FailOrder, executeVars, stepVars

LEMMA CatchOrderInv ==
  ASSUME Inv, NEW t \in Tasks, CatchOrder(t)
  PROVE  Inv'
<1>1. t \in DOMAIN handling /\ "failed" \in Status /\ "catchRecord" \in HandlerPc
  BY DEF CatchOrder, HandlerAt, Status, TerminalStatus, HandlerPc, OwnerPc, CatchPc
<1>2. QED
  BY <1>1, SetStatusInv DEF CatchOrder, executeVars, stepVars

(* A handler that writes neither an order nor a key, and ends or moves on. *)
LEMMA MoveInv ==
  ASSUME Inv, NEW t \in DOMAIN handling,
         \/ Finish(t)
         \/ \E pc \in HandlerPc :
              \/ Go(t, pc)
              \/ \E r \in RecordStatus :
                   handling' = [handling EXCEPT ![t].pc = pc, ![t].record = r]
         \/ \E left \in SUBSET Limits : handling' = [handling EXCEPT ![t].left = left],
         UNCHANGED <<orders, idem, immediates, creating, aged, gated, proved,
                     overlapped>>,
         executions' \in [OrderIds -> [RecordStatus -> Int]],
         fills' \in [OrderIds -> Nat],
         \A o \in OrderIds \ Placed : fills'[o] = fills[o],
         used' \in [Limits -> Nat], reported' \in Nat, lost' \in [Limits -> Nat],
         faults' \in 0..MaxFaults, orphans' \subseteq OrderIds
  PROVE  Inv'
<1>1. /\ DOMAIN handling' \subseteq DOMAIN handling
      /\ handling' \in [DOMAIN handling' -> Handler]
      /\ \A u \in DOMAIN handling' : handling'[u].order = handling[u].order
  <2>1. handling[t].pc \in HandlerPc
    BY DEF Inv, TypeOK, Handler
  <2>2. QED
    BY <2>1, GoFacts, FinishFacts DEF Inv, TypeOK
<1>2. TypeOK'
  BY <1>1, ZenonT(40) DEF Inv, TypeOK
<1>3. RowsExist'
  BY <1>1 DEF Inv
<1>4. QED
  BY <1>2, <1>3 DEF Inv

LEMMA CreateRecordInv ==
  ASSUME Inv, NEW t \in Tasks, CreateRecord(t)
  PROVE  Inv'
<1>1. t \in DOMAIN handling /\ handling[t].order \in OrderIds
  BY DEF CreateRecord, HandlerAt, Inv, TypeOK, Handler
<1>2. "provider" \in HandlerPc /\ "executing" \in RecordStatus
  BY DEF HandlerPc, OwnerPc, RecordStatus
<1>3. executions' \in [OrderIds -> [RecordStatus -> Int]]
  BY <1>1, MoveRecordFacts DEF CreateRecord, Inv
<1>4. \E pc \in HandlerPc : \E r \in RecordStatus :
        handling' = [handling EXCEPT ![t].pc = pc, ![t].record = r]
  <2>1. handling' = [handling EXCEPT ![t].pc = "provider", ![t].record = "executing"]
    BY DEF CreateRecord
  <2>2. QED
    BY <1>2, <2>1
<1>5. QED
  BY <1>1, <1>2, <1>3, <1>4, MoveInv DEF CreateRecord, executeVars, stepVars, Inv, TypeOK

LEMMA CallProviderInv ==
  ASSUME Inv, NEW t \in Tasks, NEW x \in BOOLEAN, NEW a \in BOOLEAN,
         CallProvider(t, x, a)
  PROVE  Inv'
<1>1. /\ t \in DOMAIN handling
      /\ handling[t].order \in Placed
      /\ handling[t].order \in OrderIds
      /\ handling[t].amount \in Nat
  BY DEF CallProvider, HandlerAt, Inv, TypeOK, Handler
<1>2. \E pc \in HandlerPc : Go(t, pc)
  BY DEF CallProvider, HandlerPc, OwnerPc, TryPc, BookPc
<1>3. /\ fills' \in [OrderIds -> Nat]
      /\ \A o \in OrderIds \ Placed : fills'[o] = fills[o]
  BY <1>1 DEF CallProvider, Inv, TypeOK
<1>4. reported' \in Nat
  BY <1>1 DEF CallProvider, Inv, TypeOK
<1>5. QED
  BY <1>1, <1>2, <1>3, <1>4, MoveInv DEF CallProvider, executeVars, stepVars, Inv, TypeOK

LEMMA CompleteRecordInv ==
  ASSUME Inv, NEW t \in Tasks, CompleteRecord(t)
  PROVE  Inv'
<1>1. t \in DOMAIN handling /\ handling[t].order \in OrderIds
  BY DEF CompleteRecord, HandlerAt, Inv, TypeOK, Handler
<1>2. "bookLimits" \in HandlerPc /\ "completed" \in RecordStatus
  BY DEF HandlerPc, OwnerPc, TryPc, BookPc, RecordStatus
<1>3. executions' \in [OrderIds -> [RecordStatus -> Int]]
  BY <1>1, MoveRecordFacts DEF CompleteRecord, Inv
<1>4. \E pc \in HandlerPc : \E r \in RecordStatus :
        handling' = [handling EXCEPT ![t].pc = pc, ![t].record = r]
  <2>1. handling' = [handling EXCEPT ![t].pc = "bookLimits", ![t].record = "completed"]
    BY DEF CompleteRecord
  <2>2. QED
    BY <1>2, <2>1
<1>5. QED
  BY <1>1, <1>2, <1>3, <1>4, MoveInv DEF CompleteRecord, executeVars, stepVars, Inv, TypeOK

(* One turn of the loop over the limits: the handler ends, or has fewer left. *)
LEMMA BookedFacts ==
  ASSUME Inv, NEW t \in Tasks, UpdateOrderLimits(t)
  PROVE  /\ t \in DOMAIN handling /\ handling[t].pc = "bookLimits"
         /\ handling[t].left \subseteq Limits
         /\ \/ handling[t].left = {} /\ Finish(t) /\ used' = used
            \/ \E l \in handling[t].left :
                 /\ used' = [used EXCEPT ![l] = @ + handling[t].amount]
                 /\ \/ handling[t].left = {l} /\ Finish(t)
                    \/ handling' = [handling EXCEPT ![t].left = @ \ {l}]
BY DEF UpdateOrderLimits, Booked, HandlerAt, Inv, TypeOK, Handler

LEMMA BookedKeeps ==
  ASSUME Inv, NEW t \in Tasks, UpdateOrderLimits(t), t \in DOMAIN handling'
  PROVE  /\ handling'[t].pc = "bookLimits"
         /\ handling'[t].order = handling[t].order
         /\ handling'[t].record = handling[t].record
<1>1. /\ t \in DOMAIN handling /\ handling[t].pc = "bookLimits"
      /\ handling[t] \in Handler
  BY BookedFacts DEF Inv, TypeOK
<1>2. ~ Finish(t)
  BY DEF Finish, Without
<1>3. PICK l : handling' = [handling EXCEPT ![t].left = @ \ {l}]
  BY <1>2, BookedFacts
<1>4. handling'[t] = [handling[t] EXCEPT !.left = @ \ {l}]
  BY <1>1, <1>3
<1>5. QED
  BY <1>1, <1>4 DEF Handler

LEMMA UpdateOrderLimitsInv ==
  ASSUME Inv, NEW t \in Tasks, UpdateOrderLimits(t)
  PROVE  Inv'
<1>1. t \in DOMAIN handling /\ handling[t].amount \in Nat
      /\ handling[t].left \in SUBSET Limits
  BY BookedFacts DEF Inv, TypeOK, Handler
<1>2. used' \in [Limits -> Nat]
  BY <1>1, BookedFacts DEF Inv, TypeOK
<1>3. \/ Finish(t)
      \/ \E left \in SUBSET Limits : handling' = [handling EXCEPT ![t].left = left]
  BY <1>1, BookedFacts
<1>4. QED
  BY <1>1, <1>2, <1>3, MoveInv DEF UpdateOrderLimits, executeVars, stepVars, Inv, TypeOK

LEMMA FailRecordInv ==
  ASSUME Inv, NEW t \in Tasks, FailRecord(t)
  PROVE  Inv'
<1>1. t \in DOMAIN handling /\ handling[t].order \in OrderIds
  BY DEF FailRecord, HandlerAt, Inv, TypeOK, Handler
<1>2. "catchOrder" \in HandlerPc /\ "failed" \in RecordStatus
  BY DEF HandlerPc, OwnerPc, CatchPc, RecordStatus
<1>3. executions' \in [OrderIds -> [RecordStatus -> Int]]
  BY <1>1, MoveRecordFacts DEF FailRecord, Inv
<1>4. \E pc \in HandlerPc : \E r \in RecordStatus :
        handling' = [handling EXCEPT ![t].pc = pc, ![t].record = r]
  <2>1. handling' = [handling EXCEPT ![t].pc = "catchOrder", ![t].record = "failed"]
    BY DEF FailRecord
  <2>2. QED
    BY <1>2, <2>1
<1>5. QED
  BY <1>1, <1>2, <1>3, <1>4, MoveInv DEF FailRecord, executeVars, stepVars, Inv, TypeOK

LEMMA CatchRecordInv ==
  ASSUME Inv, NEW t \in Tasks, CatchRecord(t)
  PROVE  Inv'
<1>1. t \in DOMAIN handling /\ handling[t].order \in OrderIds /\ Finish(t)
  BY DEF CatchRecord, HandlerAt, Inv, TypeOK, Handler
<1>2. executions' \in [OrderIds -> [RecordStatus -> Int]]
  BY <1>1, MoveRecordFacts DEF CatchRecord, Inv
<1>3. QED
  BY <1>1, <1>2, MoveInv DEF CatchRecord, executeVars, stepVars, Inv, TypeOK

(* Time, and failures *)

LEMMA ExpireOrderInv ==
  ASSUME Inv, NEW o \in OrderIds, ExpireOrder(o)
  PROVE  Inv'
BY DEF ExpireOrder, worldVars, Inv, TypeOK

LEMMA ExpireKeyInv ==
  ASSUME Inv, NEW k \in Keys, ExpireKey(k)
  PROVE  Inv'
<1>1. /\ DOMAIN idem' = DOMAIN idem
      /\ idem' \in [DOMAIN idem' -> KeyRow]
      /\ \A j \in DOMAIN idem : idem'[j].order = idem[j].order
  BY DEF ExpireKey, Inv, TypeOK, KeyRow
<1>2. QED
  BY <1>1 DEF ExpireKey, worldVars, Inv, TypeOK

LEMMA FaultFacts ==
  ASSUME Inv, faults < MaxFaults, faults' = faults + 1
  PROVE  faults' \in 0..MaxFaults
BY ConstantsAssumption DEF Inv, TypeOK

LEMMA UnbookedFacts ==
  ASSUME Inv, NEW t \in DOMAIN handling
  PROVE  /\ \A l \in Limits : Unbooked(t, l) \in Nat
         /\ CutOff(t) => /\ lost' \in [Limits -> Nat]
                         /\ \A l \in Limits : lost'[l] = lost[l] + Unbooked(t, l)
BY DEF Unbooked, CutOff, Inv, TypeOK, Handler

LEMMA TryThrowsInv ==
  ASSUME Inv, NEW t \in Tasks, TryThrows(t)
  PROVE  Inv'
<1>1. t \in DOMAIN handling /\ Go(t, "catchOrder") /\ "catchOrder" \in HandlerPc
  BY DEF TryThrows, HandlerPc, OwnerPc, CatchPc
<1>2. lost' \in [Limits -> Nat]
  BY <1>1, UnbookedFacts DEF TryThrows, Inv, TypeOK
<1>3. faults' \in 0..MaxFaults
  BY FaultFacts DEF TryThrows
<1>4. QED
  BY <1>1, <1>2, <1>3, MoveInv DEF TryThrows, worldVars, Inv, TypeOK

LEMMA HandlerDiesInv ==
  ASSUME Inv, NEW t \in Tasks, HandlerDies(t)
  PROVE  Inv'
<1>1. t \in DOMAIN handling /\ Finish(t) /\ handling[t].order \in OrderIds
  BY DEF HandlerDies, Inv, TypeOK, Handler
<1>2. lost' \in [Limits -> Nat]
  BY <1>1, UnbookedFacts DEF HandlerDies, Inv, TypeOK
<1>3. faults' \in 0..MaxFaults
  BY FaultFacts DEF HandlerDies
<1>4. orphans' \subseteq OrderIds
  BY <1>1 DEF HandlerDies, Inv, TypeOK
<1>5. QED
  BY <1>1, <1>2, <1>3, <1>4, MoveInv DEF HandlerDies, worldVars, Inv, TypeOK

LEMMA CreateDiesInv ==
  ASSUME Inv, NEW t \in Tasks, CreateDies(t)
  PROVE  Inv'
<1>1. /\ DOMAIN creating' = DOMAIN creating \ {t}
      /\ creating' \in [DOMAIN creating' -> CreateTask]
      /\ \A u \in DOMAIN creating' : creating'[u] = creating[u]
  BY DEF CreateDies, Inv, TypeOK, Without
<1>2. faults' \in 0..MaxFaults
  BY FaultFacts DEF CreateDies
<1>3. QED
  BY <1>1, <1>2 DEF CreateDies, worldVars, Inv, TypeOK

LEMMA ImmediateDroppedInv ==
  ASSUME Inv, NEW o \in OrderIds, ImmediateDropped(o)
  PROVE  Inv'
<1>1. immediates' \in [OrderIds -> Nat]
  BY DEF ImmediateDropped, Inv, TypeOK
<1>2. faults' \in 0..MaxFaults
  BY FaultFacts DEF ImmediateDropped
<1>3. QED
  BY <1>1, <1>2 DEF ImmediateDropped, worldVars, Inv, TypeOK

-----------------------------------------------------------------------------

LEMMA NextInv ==
  ASSUME Inv, [Next]_vars
  PROVE  Inv'
<1>1. ASSUME NEW t \in Tasks, CreateStep(t)
      PROVE  Inv'
  BY <1>1, DropExpiredKeyInv, CheckOrderLimitsInv, InsertOrderInv,
     InsertDuplicateInv, StoreIdempotencyKeyInv, RespondInv DEF CreateStep
<1>2. ASSUME NEW t \in Tasks, HandlerStep(t)
      PROVE  Inv'
  BY <1>2, MarkVerifiedInv, MarkCancelledInv, PutAmountInv, RejectExpiredInv,
     MarkExecutingInv, CreateRecordInv, CallProviderInv, CompleteOrderInv,
     CompleteRecordInv, UpdateOrderLimitsInv, FailOrderInv, FailRecordInv,
     CatchOrderInv, CatchRecordInv DEF HandlerStep
<1>3. ASSUME NEW t \in Tasks, Request(t)
      PROVE  Inv'
  BY <1>3, CreateOrderInv, VerifyOrderInv, CancelOrderInv, UpdateOrderInv,
     ExecuteOrderInv, RunImmediateInv DEF Request
<1>4. ASSUME NEW t \in Tasks, Fault(t)
      PROVE  Inv'
  BY <1>4, TryThrowsInv, HandlerDiesInv, CreateDiesInv DEF Fault
<1>5. ASSUME NEW o \in OrderIds, ExpireOrder(o) \/ ImmediateDropped(o)
      PROVE  Inv'
  BY <1>5, ExpireOrderInv, ImmediateDroppedInv
<1>6. ASSUME NEW k \in Keys, ExpireKey(k)
      PROVE  Inv'
  BY <1>6, ExpireKeyInv
<1>7. CASE UNCHANGED vars
  BY <1>7 DEF vars, Inv, TypeOK
<1>8. QED
  BY <1>1, <1>2, <1>3, <1>4, <1>5, <1>6, <1>7 DEF Next

LEMMA InvHolds == Spec => []Inv
BY InitInv, NextInv, PTL DEF Spec

(* The tables and the handlers in flight keep their types, and the limit   *)
(* never goes below zero, in every interleaving.                           *)
THEOREM TypeCorrect == Spec => []TypeOK
<1>1. Inv => TypeOK
  BY DEF Inv
<1>2. QED
  BY <1>1, InvHolds, PTL

-----------------------------------------------------------------------------
(* Frames: what a step leaves alone, whatever else it does. *)

(* A createOrder handler writes no row but the one it inserts. *)
LEMMA CreateFrame ==
  ASSUME Inv, NEW t \in Tasks,
         CreateStep(t) \/ CreateDies(t)
           \/ \E k \in Keys, b \in Bodies : CreateOrder(t, k, b)
  PROVE  /\ UNCHANGED <<handling, fills, proved, orphans>>
         /\ \/ UNCHANGED <<orders, gated>>
            \/ \E o \in OrderIds, otp \in BOOLEAN : InsertOrder(t, o, otp)
<1>1. CASE \E o \in OrderIds, otp \in BOOLEAN : InsertOrder(t, o, otp)
  BY <1>1 DEF InsertOrder, createVars
<1>2. CASE \/ DropExpiredKey(t) \/ CheckOrderLimits(t) \/ InsertDuplicate(t)
           \/ StoreIdempotencyKey(t) \/ Respond(t)
  BY <1>2 DEF DropExpiredKey, CheckOrderLimits, InsertDuplicate,
     StoreIdempotencyKey, Respond, createVars
<1>3. CASE CreateDies(t)
  BY <1>3 DEF CreateDies, worldVars
<1>4. CASE \E k \in Keys, b \in Bodies : CreateOrder(t, k, b)
  BY <1>4 DEF CreateOrder, createVars
<1>5. QED
  BY <1>1, <1>2, <1>3, <1>4 DEF CreateStep

(* The row InsertOrder adds. *)
LEMMA InsertFacts ==
  ASSUME Inv, NEW t \in Tasks, NEW o \in OrderIds, NEW totp \in BOOLEAN,
         InsertOrder(t, o, totp)
  PROVE  /\ o \notin Placed
         /\ t \in DOMAIN creating
         /\ Placed' = Placed \cup {o}
         /\ orders'[o].status \in PendingStatus
         /\ orders'[o].key = creating[t].key
         /\ orders'[o].body = creating[t].body
         /\ \A p \in Placed : orders'[p] = orders[p]
         /\ \/ gated' = gated /\ orders'[o].status = "pending_execution"
            \/ gated' = gated \cup {o} /\ orders'[o].status = "pending_verification"
         /\ fills[o] = 0
         /\ \A u \in DOMAIN handling : handling[u].order # o
BY DEF InsertOrder, CreateAt, Put, PendingStatus, Inv

(* The other handlers write only the row of their own order, and never its *)
(* key or body.                                                            *)
LEMMA HandlerFrame ==
  ASSUME Inv, NEW t \in Tasks,
         HandlerStep(t) \/ TryThrows(t) \/ HandlerDies(t)
  PROVE  /\ t \in DOMAIN handling
         /\ UNCHANGED <<idem, creating, gated, proved>>
         /\ Placed' = Placed
         /\ \A p \in Placed : /\ orders'[p].key = orders[p].key
                              /\ orders'[p].body = orders[p].body
         /\ \A p \in Placed : p # handling[t].order =>
              orders'[p] = orders[p] /\ fills'[p] = fills[p]
         /\ DOMAIN handling' \subseteq DOMAIN handling
         /\ \A u \in DOMAIN handling' :
              /\ handling'[u].order = handling[u].order
              /\ u # t => handling'[u] = handling[u]
<1> DEFINE o == handling[t].order
<1>1. t \in DOMAIN handling
  BY DEF HandlerStep, TryThrows, HandlerDies, MarkVerified, MarkCancelled, PutAmount,
     RejectExpired, MarkExecuting, CreateRecord, CallProvider, CompleteOrder,
     CompleteRecord, UpdateOrderLimits, FailOrder, FailRecord, CatchOrder, CatchRecord,
     HandlerAt
<1>2. /\ orders \in [Placed -> Row]
      /\ fills \in [OrderIds -> Nat]
      /\ o \in Placed
      /\ Placed \subseteq OrderIds
  BY <1>1 DEF Inv, TypeOK
<1>3. UNCHANGED <<idem, creating, gated, proved>>
  BY DEF HandlerStep, TryThrows, HandlerDies, MarkVerified, MarkCancelled, PutAmount,
     RejectExpired, MarkExecuting, CreateRecord, CallProvider, CompleteOrder,
     CompleteRecord, UpdateOrderLimits, FailOrder, FailRecord, CatchOrder, CatchRecord,
     handleVars, executeVars, stepVars, worldVars
<1>4. \/ orders' = orders
      \/ \E s \in Status : SetStatus(o, s)
      \/ \E a : orders' = [orders EXCEPT ![o].amount = a]
      \/ orders' = [orders EXCEPT ![o].status = "pending_execution",
                                  ![o].otpVerified = TRUE]
  BY DEF HandlerStep, TryThrows, HandlerDies, MarkVerified, MarkCancelled, PutAmount,
     RejectExpired, MarkExecuting, CreateRecord, CallProvider, CompleteOrder,
     CompleteRecord, UpdateOrderLimits, FailOrder, FailRecord, CatchOrder, CatchRecord,
     worldVars, Status, TerminalStatus
<1>5. /\ Placed' = Placed
      /\ \A p \in Placed : /\ orders'[p].key = orders[p].key
                           /\ orders'[p].body = orders[p].body
                           /\ p # o => orders'[p] = orders[p]
  <2>1. CASE \E s \in Status : SetStatus(o, s)
    BY <1>2, <2>1 DEF SetStatus, Row
  <2>2. CASE \E a : orders' = [orders EXCEPT ![o].amount = a]
    BY <1>2, <2>2 DEF Row
  <2>3. CASE orders' = [orders EXCEPT ![o].status = "pending_execution",
                                      ![o].otpVerified = TRUE]
    BY <1>2, <2>3 DEF Row
  <2>4. QED
    BY <1>2, <1>4, <2>1, <2>2, <2>3
<1>6. fills' = fills \/ fills' = [fills EXCEPT ![o] = @ + 1]
  BY DEF HandlerStep, TryThrows, HandlerDies, MarkVerified, MarkCancelled, PutAmount,
     RejectExpired, MarkExecuting, CreateRecord, CallProvider, CompleteOrder,
     CompleteRecord, UpdateOrderLimits, FailOrder, FailRecord, CatchOrder, CatchRecord,
     worldVars, handleVars
<1>7. \/ handling' = Without(handling, {t})
      \/ \E pc : handling' = [handling EXCEPT ![t].pc = pc]
      \/ \E pc, r : handling' = [handling EXCEPT ![t].pc = pc, ![t].record = r]
      \/ \E left : handling' = [handling EXCEPT ![t].left = left]
  BY DEF HandlerStep, TryThrows, HandlerDies, MarkVerified, MarkCancelled, PutAmount,
     RejectExpired, MarkExecuting, CreateRecord, CallProvider, CompleteOrder,
     CompleteRecord, UpdateOrderLimits, FailOrder, FailRecord, CatchOrder, CatchRecord,
     Go, Finish, Booked
<1>8. handling \in [DOMAIN handling -> Handler]
  BY DEF Inv, TypeOK
<1>9. /\ DOMAIN handling' \subseteq DOMAIN handling
      /\ \A u \in DOMAIN handling' :
           /\ handling'[u].order = handling[u].order
           /\ u # t => handling'[u] = handling[u]
  <2>1. CASE handling' = Without(handling, {t})
    BY <2>1 DEF Without
  <2>2. CASE \E pc : handling' = [handling EXCEPT ![t].pc = pc]
    BY <1>1, <1>8, <2>2 DEF Handler
  <2>3. ASSUME NEW pc, NEW r,
               handling' = [handling EXCEPT ![t].pc = pc, ![t].record = r]
        PROVE  /\ DOMAIN handling' = DOMAIN handling
               /\ \A u \in DOMAIN handling :
                    /\ handling'[u].order = handling[u].order
                    /\ u # t => handling'[u] = handling[u]
    <3>1. handling'[t] = [handling[t] EXCEPT !.pc = pc, !.record = r]
      BY <1>1, <2>3
    <3>2. handling'[t].order = handling[t].order
      BY <1>1, <1>8, <3>1 DEF Handler
    <3>3. QED
      BY <1>1, <2>3, <3>2
  <2>4. CASE \E left : handling' = [handling EXCEPT ![t].left = left]
    BY <1>1, <1>8, <2>4 DEF Handler
  <2>5. QED
    BY <1>7, <2>1, <2>2, <2>3, <2>4
<1>10. QED
  BY <1>1, <1>2, <1>3, <1>5, <1>6, <1>9

(* A request only adds a handler for an order whose status it has checked. *)
LEMMA RequestFrame ==
  ASSUME Inv, NEW t \in Tasks, NEW o \in OrderIds,
         \/ \E c \in BOOLEAN : VerifyOrder(t, o, c)
         \/ CancelOrder(t, o)
         \/ \E a \in NewAmounts : UpdateOrder(t, o, a)
         \/ ExecuteOrder(t, o)
         \/ RunImmediate(t, o)
  PROVE  /\ UNCHANGED <<orders, idem, creating, fills, gated, orphans>>
         /\ proved \subseteq proved'
         /\ \/ handling' = handling
            \/ /\ t \notin DOMAIN handling
               /\ DOMAIN handling' = DOMAIN handling \cup {t}
               /\ handling'[t].order = o
               /\ o \in Placed
               /\ \/ handling'[t].pc \in {"cancel", "update"}
                  \/ handling'[t].pc = "markVerified" /\ o \in proved'
                  \/ /\ handling'[t].pc \in BeforeRunPc
                     /\ orders[o].status = "pending_execution"
               /\ \A u \in DOMAIN handling : handling'[u] = handling[u]
<1>1. /\ UNCHANGED <<orders, idem, creating, fills, gated, orphans>>
      /\ proved \subseteq proved'
  BY DEF VerifyOrder, CancelOrder, UpdateOrder, ExecuteOrder, RunImmediate,
     handleVars, executeVars, stepVars
<1>2. ASSUME NEW pc, NEW a, Begin(t, pc, o, a)
      PROVE  /\ t \notin DOMAIN handling
             /\ DOMAIN handling' = DOMAIN handling \cup {t}
             /\ handling'[t].order = o
             /\ handling'[t].pc = pc
             /\ \A u \in DOMAIN handling : handling'[u] = handling[u]
  BY <1>2 DEF Begin, Free, Put
<1>3. CASE \E c \in BOOLEAN : VerifyOrder(t, o, c)
  BY <1>1, <1>2, <1>3 DEF VerifyOrder, HasStatus
<1>4. CASE CancelOrder(t, o)
  BY <1>1, <1>2, <1>4 DEF CancelOrder, IsPending
<1>5. CASE \E a \in NewAmounts : UpdateOrder(t, o, a)
  BY <1>1, <1>2, <1>5 DEF UpdateOrder, IsPending
<1>6. CASE ExecuteOrder(t, o) \/ RunImmediate(t, o)
  <2>1. handling' = handling \/ (CanExecute(o) /\ BeginExecute(t, o))
    BY <1>6 DEF ExecuteOrder, RunImmediate
  <2>2. QED
    BY <1>1, <1>2, <2>1, BeginExecuteFacts DEF CanExecute, HasStatus
<1>7. QED
  BY <1>3, <1>4, <1>5, <1>6

LEMMA WorldFrame ==
  ASSUME (\E o \in OrderIds : ExpireOrder(o) \/ ImmediateDropped(o))
           \/ (\E k \in Keys : ExpireKey(k)) \/ UNCHANGED vars
  PROVE  UNCHANGED <<orders, creating, handling, fills, gated, proved, orphans>>
BY DEF ExpireOrder, ImmediateDropped, ExpireKey, worldVars, vars

CreateKind(t) ==
  CreateStep(t) \/ CreateDies(t) \/ \E k \in Keys, b \in Bodies : CreateOrder(t, k, b)
HandlerKind(t) == HandlerStep(t) \/ TryThrows(t) \/ HandlerDies(t)
RequestKind(t, o) ==
  \/ \E c \in BOOLEAN : VerifyOrder(t, o, c)
  \/ CancelOrder(t, o)
  \/ \E a \in NewAmounts : UpdateOrder(t, o, a)
  \/ ExecuteOrder(t, o)
  \/ RunImmediate(t, o)
WorldKind ==
  \/ \E o \in OrderIds : ExpireOrder(o) \/ ImmediateDropped(o)
  \/ \E k \in Keys : ExpireKey(k)
  \/ UNCHANGED vars

LEMMA StepKinds ==
  ASSUME [Next]_vars
  PROVE  \/ \E t \in Tasks : CreateKind(t)
         \/ \E t \in Tasks : HandlerKind(t)
         \/ \E t \in Tasks, o \in OrderIds : RequestKind(t, o)
         \/ WorldKind
BY DEF Next, Request, Fault, CreateKind, HandlerKind, RequestKind, WorldKind

-----------------------------------------------------------------------------
(* OtpSkippedOnlyIfRaised: a gated order without a valid code is held by no *)
(* handler that could move it on; the others needed no code as requested.   *)

Gated ==
  /\ gated \subseteq Placed
  /\ \A o \in gated \ proved :
       /\ orders[o].status \in {"pending_verification", "cancelled"}
       /\ fills[o] = 0
       /\ \A t \in DOMAIN handling :
            handling[t].order = o => handling[t].pc \in {"cancel", "update"}

NoCodeRequested == \A o \in Placed \ gated : ~ NeedsCode(o, orders[o].body.amount)

GateInv == Gated /\ NoCodeRequested

LEMMA InsertedNeedsNone ==
  ASSUME Inv, NEW t \in Tasks, NEW o \in OrderIds, NEW totp \in BOOLEAN,
         InsertOrder(t, o, totp)
  PROVE  o \in gated' \/ ~ NeedsCode(o, orders[o].body.amount)'
<1> DEFINE b == creating[t].body
<1>1. b \in Body
  BY ConstantsAssumption DEF InsertOrder, CreateAt, Inv, TypeOK, CreateTask
<1>2. orders'[o].body = b
  BY InsertFacts
<1>3. [orders'[o].body EXCEPT !.amount = orders'[o].body.amount] = b
  BY <1>1, <1>2 DEF Body
<1>4. CASE b.amount >= Threshold \/ b.sensitive \/ totp
  BY <1>4 DEF InsertOrder, RequiresOtp
<1>5. CASE ~ (b.amount >= Threshold \/ b.sensitive \/ totp)
  BY <1>3, <1>5 DEF NeedsCode, RequiresOtp
<1>6. QED
  BY <1>4, <1>5

LEMMA GateInit == Init => GateInv
BY DEF Init, GateInv, Gated, NoCodeRequested

LEMMA GateNext ==
  ASSUME Inv, Inv', GateInv, [Next]_vars
  PROVE  GateInv'
<1>1. ASSUME NEW t \in Tasks, CreateKind(t)
      PROVE  GateInv'
  <2>1. /\ UNCHANGED <<handling, fills, proved>>
        /\ \/ UNCHANGED <<orders, gated>>
           \/ \E o \in OrderIds, totp \in BOOLEAN : InsertOrder(t, o, totp)
    BY <1>1, CreateFrame DEF CreateKind
  <2>2. ASSUME NEW o \in OrderIds, NEW totp \in BOOLEAN, InsertOrder(t, o, totp)
        PROVE  GateInv'
    <3>1. /\ o \notin Placed
          /\ Placed' = Placed \cup {o}
          /\ \A p \in Placed : orders'[p] = orders[p]
          /\ \/ gated' = gated
             \/ gated' = gated \cup {o} /\ orders'[o].status = "pending_verification"
          /\ fills[o] = 0
          /\ \A u \in DOMAIN handling : handling[u].order # o
      BY <2>2, InsertFacts
    <3>2. o \in gated' \/ ~ NeedsCode(o, orders[o].body.amount)'
      BY <2>2, InsertedNeedsNone
    <3>3. \A p \in Placed : NeedsCode(p, orders[p].body.amount)' <=>
                           NeedsCode(p, orders[p].body.amount)
      BY <3>1 DEF NeedsCode
    <3>4. QED
      BY <2>1, <3>1, <3>2, <3>3 DEF GateInv, Gated, NoCodeRequested
  <2>3. QED
    BY <2>1, <2>2 DEF GateInv, Gated, NoCodeRequested, NeedsCode
<1>2. ASSUME NEW t \in Tasks, HandlerKind(t)
      PROVE  GateInv'
  <2> DEFINE o == handling[t].order
  <2>1. /\ t \in DOMAIN handling
        /\ UNCHANGED <<gated, proved>>
        /\ Placed' = Placed
        /\ \A p \in Placed : p # o => orders'[p] = orders[p] /\ fills'[p] = fills[p]
        /\ DOMAIN handling' \subseteq DOMAIN handling
        /\ \A u \in DOMAIN handling' :
             /\ handling'[u].order = handling[u].order
             /\ u # t => handling'[u] = handling[u]
        /\ \A p \in Placed : orders'[p].body = orders[p].body
    BY <1>2, HandlerFrame DEF HandlerKind
  <2>5. NoCodeRequested'
    BY <2>1 DEF GateInv, NoCodeRequested, NeedsCode
  <2>2. CASE o \notin gated \ proved
    <3>1. Gated'
      BY <2>1, <2>2 DEF GateInv, Gated
    <3>2. QED
      BY <2>5, <3>1 DEF GateInv
  <2>3. CASE o \in gated \ proved
    <3>1. handling[t].pc \in {"cancel", "update"}
      BY <2>1, <2>3 DEF GateInv, Gated
    <3>2. MarkCancelled(t) \/ PutAmount(t) \/ HandlerDies(t)
      BY <1>2, <3>1 DEF HandlerKind, HandlerStep, TryThrows, MarkVerified, RejectExpired,
         MarkExecuting, CreateRecord, CallProvider, CompleteOrder, CompleteRecord,
         UpdateOrderLimits, FailOrder, FailRecord, CatchOrder, CatchRecord, HandlerAt,
         TryPc, BookPc
    <3>3. Finish(t) /\ fills' = fills
      BY <3>2 DEF MarkCancelled, PutAmount, HandlerDies, handleVars, worldVars
    <3>4. orders'[o].status = orders[o].status \/ orders'[o].status = "cancelled"
      <4>1. orders \in [Placed -> Row] /\ o \in Placed
        BY <2>1, <2>3 DEF GateInv, Gated, Inv, TypeOK
      <4>2. CASE MarkCancelled(t)
        BY <4>1, <4>2 DEF MarkCancelled, SetStatus, Row
      <4>3. CASE PutAmount(t)
        BY <4>1, <4>3 DEF PutAmount, Row
      <4>4. CASE HandlerDies(t)
        BY <4>4 DEF HandlerDies, worldVars
      <4>5. QED
        BY <3>2, <4>2, <4>3, <4>4
    <3>5. Gated'
      BY <2>1, <2>3, <3>3, <3>4 DEF GateInv, Gated, Finish, Without
    <3>6. QED
      BY <2>5, <3>5 DEF GateInv
  <2>4. QED
    BY <2>2, <2>3
<1>3. ASSUME NEW t \in Tasks, NEW o \in OrderIds, RequestKind(t, o)
      PROVE  GateInv'
  <2>1. /\ UNCHANGED <<orders, fills, gated>>
        /\ proved \subseteq proved'
        /\ \/ handling' = handling
           \/ /\ DOMAIN handling' = DOMAIN handling \cup {t}
              /\ handling'[t].order = o
              /\ \/ handling'[t].pc \in {"cancel", "update"}
                 \/ o \in proved'
                 \/ orders[o].status = "pending_execution"
              /\ t \notin DOMAIN handling
              /\ \A u \in DOMAIN handling : handling'[u] = handling[u]
    BY <1>3, RequestFrame DEF RequestKind
  <2>2. NoCodeRequested'
    BY <2>1 DEF GateInv, NoCodeRequested, NeedsCode
  <2>3. Gated'
    BY <2>1 DEF GateInv, Gated
  <2>4. QED
    BY <2>2, <2>3 DEF GateInv
<1>4. CASE WorldKind
  BY <1>4, WorldFrame DEF WorldKind, GateInv, Gated, NoCodeRequested, NeedsCode
<1>5. QED
  BY <1>1, <1>2, <1>3, <1>4, StepKinds

(* No order whose request needs a one-time code reaches the provider, or   *)
(* any status but cancelled, before a valid code for it was presented; what *)
(* is executed without a code although its amount needs one was raised by   *)
(* an updateOrder after it was placed.                                      *)
THEOREM OtpSkippedOnlyIfRaisedHolds == Spec => []OtpSkippedOnlyIfRaised
<1>1. Inv /\ GateInv => OtpSkippedOnlyIfRaised
  BY DEF Inv, GateInv, Gated, NoCodeRequested, OtpSkippedOnlyIfRaised, OwnerPc, TryPc, BookPc, CatchPc
<1>2. QED
  BY <1>1, GateInit, GateNext, InvHolds, PTL DEF Spec

-----------------------------------------------------------------------------
(* ExecutingIsOwned is inductive as it stands. *)

LEMMA OwnedNext ==
  ASSUME Inv, ExecutingIsOwned, [Next]_vars
  PROVE  ExecutingIsOwned'
<1>1. ASSUME NEW t \in Tasks, CreateKind(t)
      PROVE  ExecutingIsOwned'
  <2>1. /\ UNCHANGED <<handling, orphans>>
        /\ \/ orders' = orders
           \/ \E o \in OrderIds, totp \in BOOLEAN : InsertOrder(t, o, totp)
    BY <1>1, CreateFrame DEF CreateKind
  <2>2. ASSUME NEW o \in OrderIds, NEW totp \in BOOLEAN, InsertOrder(t, o, totp)
        PROVE  ExecutingIsOwned'
    <3>1. /\ Placed' = Placed \cup {o}
          /\ orders'[o].status \in PendingStatus
          /\ \A p \in Placed : orders'[p] = orders[p]
      BY <2>2, InsertFacts
    <3>2. QED
      BY <2>1, <3>1 DEF ExecutingIsOwned, PendingStatus
  <2>3. QED
    BY <2>1, <2>2 DEF ExecutingIsOwned
<1>2. ASSUME NEW t \in Tasks, HandlerKind(t)
      PROVE  ExecutingIsOwned'
  <2> DEFINE o == handling[t].order
  <2>1. /\ t \in DOMAIN handling
        /\ Placed' = Placed
        /\ \A p \in Placed : p # o => orders'[p] = orders[p]
        /\ DOMAIN handling' \subseteq DOMAIN handling
        /\ \A u \in DOMAIN handling' :
             /\ handling'[u].order = handling[u].order
             /\ u # t => handling'[u] = handling[u]
    BY <1>2, HandlerFrame DEF HandlerKind
  <2>2. orphans \subseteq orphans'
    BY <1>2 DEF HandlerKind, HandlerStep, TryThrows, HandlerDies, MarkVerified,
       MarkCancelled, PutAmount, RejectExpired, MarkExecuting, CreateRecord,
       CallProvider, CompleteOrder, CompleteRecord, UpdateOrderLimits, FailOrder,
       FailRecord, CatchOrder, CatchRecord, handleVars, executeVars, stepVars
  <2>3. \A u \in DOMAIN handling : u # t => u \in DOMAIN handling'
    BY <1>2 DEF HandlerKind, HandlerStep, TryThrows, HandlerDies, MarkVerified,
       MarkCancelled, PutAmount, RejectExpired, MarkExecuting, CreateRecord,
       CallProvider, CompleteOrder, CompleteRecord, UpdateOrderLimits, FailOrder,
       FailRecord, CatchOrder, CatchRecord, Go, Finish, Without, Booked
  <2>4. (* The row of another order keeps its owner. *)
        ASSUME NEW p \in Placed', orders'[p].status = "executing", p # o
        PROVE  \/ p \in orphans'
               \/ \E u \in DOMAIN handling' : /\ handling'[u].order = p
                                              /\ handling'[u].pc \in WillWritePc
    BY <2>1, <2>2, <2>3, <2>4 DEF ExecutingIsOwned
  <2>5. (* The handler's own order, when the step ends the run. *)
        CASE \/ MarkVerified(t) \/ MarkCancelled(t) \/ RejectExpired(t)
             \/ CompleteOrder(t) \/ FailOrder(t) \/ CatchOrder(t)
    <3>1. orders'[o].status # "executing"
      BY <2>1, <2>5 DEF MarkVerified, MarkCancelled, RejectExpired, CompleteOrder,
         FailOrder, CatchOrder, SetStatus, Inv, TypeOK, Row
    <3>2. QED
      BY <2>4, <3>1 DEF ExecutingIsOwned
  <2>6. (* ... when the handler goes on to own it ... *)
        CASE \/ MarkExecuting(t) \/ CreateRecord(t) \/ FailRecord(t) \/ TryThrows(t)
             \/ \E x, a \in BOOLEAN : CallProvider(t, x, a)
    <3>1. t \in DOMAIN handling' /\ handling'[t].pc \in WillWritePc
      <4>1. handling[t] \in Handler
        BY <2>1 DEF Inv, TypeOK
      <4>2. CASE MarkExecuting(t) \/ TryThrows(t)
                 \/ \E x, a \in BOOLEAN : CallProvider(t, x, a)
        BY <2>1, <4>1, <4>2 DEF MarkExecuting, TryThrows, CallProvider, Go,
           WillWritePc, Handler
      <4>3. ASSUME NEW pc, NEW r,
                   handling' = [handling EXCEPT ![t].pc = pc, ![t].record = r]
            PROVE  t \in DOMAIN handling' /\ handling'[t].pc = pc
        <5>1. handling'[t] = [handling[t] EXCEPT !.pc = pc, !.record = r]
          BY <2>1, <4>3
        <5>2. QED
          BY <2>1, <4>1, <4>3, <5>1 DEF Handler
      <4>4. CASE CreateRecord(t) \/ FailRecord(t)
        BY <4>3, <4>4 DEF CreateRecord, FailRecord, WillWritePc
      <4>5. QED
        BY <2>6, <4>2, <4>4
    <3>2. QED
      BY <2>1, <2>4, <3>1 DEF ExecutingIsOwned
  <2>7. (* ... when it did not own it ... *)
        CASE PutAmount(t) \/ CompleteRecord(t) \/ UpdateOrderLimits(t) \/ CatchRecord(t)
    <3>1. handling[t].pc \notin WillWritePc
      BY <2>7 DEF PutAmount, CompleteRecord, UpdateOrderLimits, CatchRecord, HandlerAt,
         WillWritePc
    <3>2. orders'[o].status = orders[o].status
      BY <2>1, <2>7 DEF PutAmount, CompleteRecord, UpdateOrderLimits, CatchRecord, Inv,
         TypeOK, Row
    <3>3. QED
      BY <2>1, <2>2, <2>3, <2>4, <3>1, <3>2 DEF ExecutingIsOwned
  <2>8. (* ... and when it dies. *)
        CASE HandlerDies(t)
    BY <2>1, <2>2, <2>3, <2>4, <2>8 DEF HandlerDies, ExecutingIsOwned, WillWritePc,
       OwnerPc, TryPc, BookPc, CatchPc, worldVars
  <2>9. QED
    BY <1>2, <2>5, <2>6, <2>7, <2>8 DEF HandlerKind, HandlerStep
<1>3. ASSUME NEW t \in Tasks, NEW o \in OrderIds, RequestKind(t, o)
      PROVE  ExecutingIsOwned'
  <2>1. /\ UNCHANGED <<orders, orphans>>
        /\ \A u \in DOMAIN handling :
             u \in DOMAIN handling' /\ handling'[u] = handling[u]
    BY <1>3, RequestFrame DEF RequestKind
  <2>2. QED
    BY <2>1 DEF ExecutingIsOwned
<1>4. CASE WorldKind
  BY <1>4, WorldFrame DEF WorldKind, ExecutingIsOwned
<1>5. QED
  BY <1>1, <1>2, <1>3, <1>4, StepKinds

(* A row that says executing is held by a handler that will still write    *)
(* its end, or a fault took that handler.                                  *)
THEOREM ExecutingIsOwnedHolds == Spec => []ExecutingIsOwned
<1>1. Init => ExecutingIsOwned
  BY DEF Init, ExecutingIsOwned
<1>2. QED
  BY <1>1, OwnedNext, InvHolds, PTL DEF Spec

-----------------------------------------------------------------------------
(* SuccessAnswersOwnOrder: the unique index keeps one row per key, and     *)
(* every reference to a row was made for its key and body.                 *)

KeyedRows ==
  /\ \A o, p \in Placed : orders[o].key = orders[p].key => o = p
  /\ \A t \in DOMAIN creating : creating[t].pc \in {"storeKey", "ok"} =>
       /\ orders[creating[t].order].key = creating[t].key
       /\ orders[creating[t].order].body = creating[t].body
  /\ \A k \in DOMAIN idem : /\ orders[idem[k].order].key = k
                            /\ orders[idem[k].order].body = idem[k].body

LEMMA KeyedNext ==
  ASSUME Inv, KeyedRows, [Next]_vars
  PROVE  KeyedRows'
<1>1. ASSUME NEW t \in Tasks, NEW k \in Keys, NEW b \in Bodies, CreateOrder(t, k, b)
      PROVE  KeyedRows'
  <2>1. /\ UNCHANGED <<orders, idem>>
        /\ DOMAIN creating' = DOMAIN creating \cup {t}
        /\ creating'[t].key = k
        /\ creating'[t].body = b
        /\ creating'[t].pc \in {"storeKey", "ok"} =>
             k \in DOMAIN idem /\ creating'[t].order = idem[k].order /\ idem[k].body = b
        /\ \A u \in DOMAIN creating : u # t => creating'[u] = creating[u]
    BY <1>1 DEF CreateOrder, CheckIdempotency, Put
  <2>2. QED
    BY <2>1 DEF KeyedRows
<1>2. ASSUME NEW t \in Tasks, DropExpiredKey(t) \/ CheckOrderLimits(t) \/ InsertDuplicate(t)
      PROVE  KeyedRows'
  <2>1. /\ t \in DOMAIN creating
        /\ \E pc \in {"limits", "error", "insert", "refused", "duplicate"} :
             pc \in CreatePc \cup Answer /\ GoCreate(t, pc)
        /\ orders' = orders
        /\ idem' = idem \/ idem' = Without(idem, {creating[t].key})
    BY <1>2 DEF DropExpiredKey, CheckOrderLimits, InsertDuplicate, CreateAt, GoCreate,
       CreatePc, Answer
  <2>2. /\ DOMAIN idem' \subseteq DOMAIN idem
        /\ \A k \in DOMAIN idem' : idem'[k] = idem[k]
    BY <2>1 DEF Without
  <2>3. /\ DOMAIN creating' = DOMAIN creating
        /\ creating'[t].pc \notin {"storeKey", "ok"}
        /\ \A u \in DOMAIN creating : u # t => creating'[u] = creating[u]
    BY <2>1, GoCreateFacts DEF Inv, TypeOK
  <2>4. QED
    BY <2>1, <2>2, <2>3 DEF KeyedRows
<1>3. ASSUME NEW t \in Tasks, NEW o \in OrderIds, NEW totp \in BOOLEAN,
             InsertOrder(t, o, totp)
      PROVE  KeyedRows'
  <2>1. /\ o \notin Placed
        /\ t \in DOMAIN creating
        /\ Placed' = Placed \cup {o}
        /\ orders'[o].key = creating[t].key
        /\ orders'[o].body = creating[t].body
        /\ \A p \in Placed : orders'[p] = orders[p]
    BY <1>3, InsertFacts
  <2>2. /\ idem' = idem
        /\ \A p \in Placed : orders[p].key # creating[t].key
    BY <1>3 DEF InsertOrder, KeyTaken, createVars
  <2>3. /\ DOMAIN creating' = DOMAIN creating
        /\ creating'[t].order = o
        /\ creating'[t].key = creating[t].key
        /\ creating'[t].body = creating[t].body
        /\ \A u \in DOMAIN creating : u # t => creating'[u] = creating[u]
    BY <1>3, <2>1 DEF InsertOrder, Inv, TypeOK, CreateTask
  <2>4. \A p, q \in Placed' : orders'[p].key = orders'[q].key => p = q
    BY <2>1, <2>2 DEF KeyedRows
  <2>5. \A u \in DOMAIN creating' : creating'[u].pc \in {"storeKey", "ok"} =>
          /\ orders'[creating'[u].order].key = creating'[u].key
          /\ orders'[creating'[u].order].body = creating'[u].body
    BY <2>1, <2>3 DEF KeyedRows, Inv, RowsExist
  <2>6. \A k \in DOMAIN idem' : /\ orders'[idem'[k].order].key = k
                                /\ orders'[idem'[k].order].body = idem'[k].body
    BY <2>1, <2>2 DEF KeyedRows, Inv, RowsExist
  <2>7. QED
    BY <2>4, <2>5, <2>6 DEF KeyedRows
<1>4. ASSUME NEW t \in Tasks, StoreIdempotencyKey(t)
      PROVE  KeyedRows'
  <2>1. /\ t \in DOMAIN creating
        /\ creating[t].pc = "storeKey"
        /\ orders' = orders
    BY <1>4 DEF StoreIdempotencyKey, CreateAt
  <2>2. \E pc \in CreatePc \cup Answer : GoCreate(t, pc)
    BY <1>4 DEF StoreIdempotencyKey, Answer
  <2>3. /\ DOMAIN creating' = DOMAIN creating
        /\ \A u \in DOMAIN creating :
             /\ creating'[u].key = creating[u].key
             /\ creating'[u].body = creating[u].body
             /\ creating'[u].order = creating[u].order
             /\ u # t => creating'[u] = creating[u]
    BY <2>1, <2>2, GoCreateFacts DEF Inv, TypeOK
  <2>4. \/ idem' = idem
        \/ /\ DOMAIN idem' = DOMAIN idem \cup {creating[t].key}
           /\ idem'[creating[t].key].order = creating[t].order
           /\ idem'[creating[t].key].body = creating[t].body
           /\ \A k \in DOMAIN idem : k # creating[t].key => idem'[k] = idem[k]
    BY <1>4 DEF StoreIdempotencyKey, Put
  <2>5. QED
    BY <2>1, <2>3, <2>4 DEF KeyedRows
<1>5. ASSUME NEW t \in Tasks, Respond(t) \/ CreateDies(t)
      PROVE  KeyedRows'
  BY <1>5 DEF Respond, CreateDies, Without, worldVars, KeyedRows
<1>6. ASSUME NEW t \in Tasks, HandlerKind(t)
      PROVE  KeyedRows'
  <2>1. /\ UNCHANGED <<idem, creating>>
        /\ Placed' = Placed
        /\ \A p \in Placed : /\ orders'[p].key = orders[p].key
                             /\ orders'[p].body = orders[p].body
    BY <1>6, HandlerFrame DEF HandlerKind
  <2>2. QED
    BY <2>1 DEF KeyedRows, Inv
<1>7. ASSUME NEW t \in Tasks, NEW o \in OrderIds, RequestKind(t, o)
      PROVE  KeyedRows'
  <2>1. UNCHANGED <<orders, idem, creating>>
    BY <1>7, RequestFrame DEF RequestKind
  <2>2. QED
    BY <2>1 DEF KeyedRows
<1>8. ASSUME NEW k \in Keys, ExpireKey(k)
      PROVE  KeyedRows'
  BY <1>8 DEF ExpireKey, worldVars, KeyedRows, Inv, TypeOK, KeyRow
<1>9. CASE (\E o \in OrderIds : ExpireOrder(o) \/ ImmediateDropped(o)) \/ UNCHANGED vars
  BY <1>9 DEF ExpireOrder, ImmediateDropped, worldVars, vars, KeyedRows
<1>10. QED
  BY <1>1, <1>2, <1>3, <1>4, <1>5, <1>6, <1>7, <1>8, <1>9, StepKinds
     DEF CreateKind, CreateStep, WorldKind

(* A successful createOrder answers with the order of its own key and body *)
(* and every success with one key is the same order, however the requests  *)
(* with that key interleave and whatever rows expire under them.           *)
THEOREM SuccessAnswersOwnOrderHolds == Spec => []SuccessAnswersOwnOrder
<1>1. Init => KeyedRows
  BY DEF Init, KeyedRows
<1>2. Inv /\ KeyedRows => SuccessAnswersOwnOrder
  BY DEF Inv, KeyedRows, SuccessAnswersOwnOrder
<1>3. QED
  BY <1>1, <1>2, KeyedNext, InvHolds, PTL DEF Spec

-----------------------------------------------------------------------------
(* CompletedWasExecuted: a handler that is about to write completed saw the *)
(* provider execute the order, or simulated it.                             *)

CompletingRan ==
  /\ CompletedWasExecuted
  /\ \A t \in DOMAIN handling : handling[t].pc = "complete" =>
       fills[handling[t].order] > 0 \/ orders[handling[t].order].body.dry

LEMMA CompletingNext ==
  ASSUME Inv, CompletingRan, [Next]_vars
  PROVE  CompletingRan'
<1>1. ASSUME NEW t \in Tasks, CreateKind(t)
      PROVE  CompletingRan'
  <2>1. /\ UNCHANGED <<handling, fills>>
        /\ \/ orders' = orders
           \/ \E o \in OrderIds, totp \in BOOLEAN : InsertOrder(t, o, totp)
    BY <1>1, CreateFrame DEF CreateKind
  <2>2. ASSUME NEW o \in OrderIds, NEW totp \in BOOLEAN, InsertOrder(t, o, totp)
        PROVE  CompletingRan'
    <3>1. /\ Placed' = Placed \cup {o}
          /\ orders'[o].status \in PendingStatus
          /\ fills[o] = 0
          /\ \A p \in Placed : orders'[p] = orders[p]
      BY <2>2, InsertFacts
    <3>2. QED
      BY <2>1, <3>1 DEF CompletingRan, CompletedWasExecuted, PendingStatus, Inv
  <2>3. QED
    BY <2>1, <2>2 DEF CompletingRan, CompletedWasExecuted
<1>2. ASSUME NEW t \in Tasks, HandlerKind(t)
      PROVE  CompletingRan'
  <2> DEFINE o == handling[t].order
  <2>1. /\ t \in DOMAIN handling
        /\ Placed' = Placed
        /\ \A p \in Placed : orders'[p].body = orders[p].body
        /\ \A p \in Placed : p # o => orders'[p] = orders[p] /\ fills'[p] = fills[p]
        /\ DOMAIN handling' \subseteq DOMAIN handling
        /\ \A u \in DOMAIN handling' :
             /\ handling'[u].order = handling[u].order
             /\ u # t => handling'[u] = handling[u]
    BY <1>2, HandlerFrame DEF HandlerKind
  <2>2. /\ handling[t] \in Handler
        /\ o \in Placed
        /\ orders[o] \in Row
        /\ o \in OrderIds
        /\ fills \in [OrderIds -> Nat]
    BY <2>1 DEF Inv, TypeOK
  <2>3. CASE \E x, a \in BOOLEAN : CallProvider(t, x, a)
    <3>1. /\ orders' = orders
          /\ fills'[o] \in Nat
          /\ fills'[o] >= fills[o]
          /\ orders[o].body.dry => fills'[o] = fills[o]
          /\ t \in DOMAIN handling' /\ handling'[t].pc = "complete" =>
               fills'[o] > 0 \/ orders[o].body.dry
      BY <2>1, <2>2, <2>3 DEF CallProvider, executeVars, stepVars, Go, Handler
    <3>2. QED
      BY <2>1, <2>2, <3>1 DEF CompletingRan, CompletedWasExecuted, Inv
  <2>4. CASE CompleteOrder(t)
    <3>1. /\ fills' = fills
          /\ handling[t].pc = "complete"
          /\ handling'[t].pc = "completeRecord"
      BY <2>1, <2>4 DEF CompleteOrder, HandlerAt, Go, Inv, TypeOK, Handler
    <3>2. QED
      BY <2>1, <2>2, <3>1 DEF CompletingRan, CompletedWasExecuted, Inv
  <2>5. CASE ~ CompleteOrder(t) /\ ~ \E x, a \in BOOLEAN : CallProvider(t, x, a)
    <3>1. fills' = fills
      BY <1>2, <2>5 DEF HandlerKind, HandlerStep, TryThrows, HandlerDies, MarkVerified,
         MarkCancelled, PutAmount, RejectExpired, MarkExecuting, CreateRecord,
         CompleteRecord, UpdateOrderLimits, FailOrder, FailRecord, CatchOrder,
         CatchRecord, handleVars, worldVars
    <3>2. orders'[o].status = "completed" => orders[o].status = "completed"
      BY <1>2, <2>2, <2>5 DEF HandlerKind, HandlerStep, TryThrows, HandlerDies,
         MarkVerified, MarkCancelled, PutAmount, RejectExpired, MarkExecuting,
         CreateRecord, CompleteRecord, UpdateOrderLimits, FailOrder, FailRecord,
         CatchOrder, CatchRecord, SetStatus, worldVars, Row, Inv, TypeOK
    <3>3. t \in DOMAIN handling' => handling'[t].pc # "complete"
      <4>1. \/ Finish(t)
            \/ \E pc \in HandlerPc \ {"complete"} :
                 \/ Go(t, pc)
                 \/ \E r \in RecordStatus :
                      handling' = [handling EXCEPT ![t].pc = pc, ![t].record = r]
            \/ UpdateOrderLimits(t)
        BY <1>2, <2>5 DEF HandlerKind, HandlerStep, TryThrows, HandlerDies,
           MarkVerified, MarkCancelled, PutAmount, RejectExpired, MarkExecuting,
           CreateRecord, CompleteRecord, FailOrder, FailRecord,
           CatchOrder, CatchRecord, HandlerPc, OwnerPc, TryPc, BookPc, CatchPc,
           RecordStatus
      <4>2. CASE UpdateOrderLimits(t)
        BY <4>2, BookedKeeps
      <4>3. QED
        BY <2>1, <4>1, <4>2, GoFacts, FinishFacts DEF Inv, TypeOK
    <3>4. QED
      BY <2>1, <2>2, <3>1, <3>2, <3>3 DEF CompletingRan, CompletedWasExecuted, Inv
  <2>6. QED
    BY <2>3, <2>4, <2>5
<1>3. ASSUME NEW t \in Tasks, NEW o \in OrderIds, RequestKind(t, o)
      PROVE  CompletingRan'
  <2>1. /\ UNCHANGED <<orders, fills>>
        /\ \/ handling' = handling
           \/ /\ DOMAIN handling' = DOMAIN handling \cup {t}
              /\ \/ handling'[t].pc \in {"cancel", "update", "markVerified"}
                 \/ handling'[t].pc \in BeforeRunPc
              /\ \A u \in DOMAIN handling : handling'[u] = handling[u]
    BY <1>3, RequestFrame DEF RequestKind
  <2>2. QED
    BY <2>1 DEF CompletingRan, CompletedWasExecuted, BeforeRunPc
<1>4. CASE WorldKind
  BY <1>4, WorldFrame DEF WorldKind, CompletingRan, CompletedWasExecuted
<1>5. QED
  BY <1>1, <1>2, <1>3, <1>4, StepKinds

(* A completed order was executed by the provider or is a dry run, and a   *)
(* dry run never reaches the provider.                                     *)
THEOREM CompletedWasExecutedHolds == Spec => []CompletedWasExecuted
<1>1. Init => CompletingRan
  BY DEF Init, CompletingRan, CompletedWasExecuted
<1>2. CompletingRan => CompletedWasExecuted
  BY DEF CompletingRan
<1>3. QED
  BY <1>1, <1>2, CompletingNext, InvHolds, PTL DEF Spec

-----------------------------------------------------------------------------
(* SettledIsFinal needs no more than that handlers write their own order.  *)

LEMMA SettledNext ==
  ASSUME Inv, Next, NEW o \in OrderIds, NEW s \in TerminalStatus, Settled(o, s)
  PROVE  Settled(o, s)'
<1>1. /\ o \in Placed
      /\ orders[o].status = s
      /\ s \notin {"pending_verification", "pending_execution"}
      /\ \A t \in DOMAIN handling : handling[t].order # o
  BY DEF Settled, HasStatus, TerminalStatus
<1>2. ASSUME NEW t \in Tasks, CreateKind(t)
      PROVE  Settled(o, s)'
  <2>1. /\ handling' = handling
        /\ \/ orders' = orders
           \/ \E p \in OrderIds, totp \in BOOLEAN : InsertOrder(t, p, totp)
    BY <1>2, CreateFrame DEF CreateKind
  <2>2. o \in Placed' /\ orders'[o] = orders[o]
    BY <1>1, <2>1, InsertFacts
  <2>3. QED
    BY <1>1, <2>1, <2>2 DEF Settled, HasStatus
<1>3. ASSUME NEW t \in Tasks, HandlerKind(t)
      PROVE  Settled(o, s)'
  <2>1. /\ t \in DOMAIN handling
        /\ Placed' = Placed
        /\ \A p \in Placed : p # handling[t].order => orders'[p] = orders[p]
        /\ DOMAIN handling' \subseteq DOMAIN handling
        /\ \A u \in DOMAIN handling' : handling'[u].order = handling[u].order
    BY <1>3, HandlerFrame DEF HandlerKind
  <2>2. QED
    BY <1>1, <2>1 DEF Settled, HasStatus
<1>4. ASSUME NEW t \in Tasks, NEW p \in OrderIds, RequestKind(t, p)
      PROVE  Settled(o, s)'
  <2>1. CASE p # o
    <3>1. /\ orders' = orders
          /\ \/ handling' = handling
             \/ /\ DOMAIN handling' = DOMAIN handling \cup {t}
                /\ handling'[t].order = p
                /\ \A u \in DOMAIN handling : handling'[u] = handling[u]
      BY <1>4, RequestFrame DEF RequestKind
    <3>2. QED
      BY <1>1, <2>1, <3>1 DEF Settled, HasStatus
  <2>2. CASE p = o
    <3>1. handling' = handling /\ orders' = orders
      BY <1>1, <1>4, <2>2 DEF RequestKind, VerifyOrder, CancelOrder, UpdateOrder,
         ExecuteOrder, RunImmediate, HasStatus, IsPending, PendingStatus, CanExecute
    <3>2. QED
      BY <1>1, <3>1 DEF Settled, HasStatus
  <2>3. QED
    BY <2>1, <2>2
<1>5. CASE WorldKind
  BY <1>1, <1>5, WorldFrame DEF WorldKind, Settled, HasStatus
<1>6. QED
  BY <1>2, <1>3, <1>4, <1>5, StepKinds

(* An order that is completed, failed, cancelled or rejected, and that no  *)
(* handler in flight has read earlier, keeps its status for good.          *)
THEOREM SettledIsFinalHolds == Spec => SettledIsFinal
<1> DEFINE Stays == \A o \in OrderIds, s \in TerminalStatus :
                      Settled(o, s) => Settled(o, s)'
<1>1. Inv /\ [Next]_vars => [Stays]_vars
  BY SettledNext
<1>2. Spec => [][Stays]_vars
  BY <1>1, InvHolds, PTL DEF Spec
<1>3. QED
  BY <1>2 DEF SettledIsFinal
-----------------------------------------------------------------------------
(* CompletedHasRecord: a record that one run wrote may be overwritten by    *)
(* that run alone, so there are as many completed records as handlers that  *)
(* wrote one; and more of them than handlers about to take theirs back.     *)

Holders(o) == {t \in DOMAIN handling : /\ handling[t].order = o
                                       /\ handling[t].record = "completed"}

Erasers(o) == {t \in Holders(o) : handling[t].pc = "catchRecord"}

Recorder(t, o) ==
  handling[t].order = o /\ handling[t].pc \in {"completeRecord", "catchOrder"}

Recorded(o) ==
  orders[o].status = "completed" =>
    \/ executions[o]["completed"] > Cardinality(Erasers(o))
    \/ o \in orphans
    \/ \E t \in DOMAIN handling : Recorder(t, o)

RecordInv ==
  /\ IsFiniteSet(DOMAIN handling)
  /\ \A o \in OrderIds : executions[o]["completed"] >= Cardinality(Holders(o))
  /\ \A o \in Placed : Recorded(o)

(* Of sets as large as those of the handlers. *)
LEMMA HandlerSets ==
  ASSUME IsFiniteSet(DOMAIN handling), NEW o
  PROVE  /\ IsFiniteSet(Holders(o)) /\ Cardinality(Holders(o)) \in Nat
         /\ IsFiniteSet(Erasers(o)) /\ Cardinality(Erasers(o)) \in Nat
         /\ Cardinality(Erasers(o)) <= Cardinality(Holders(o))
<1>1. IsFiniteSet(Holders(o))
  BY FS_Subset DEF Holders
<1>2. Erasers(o) \in SUBSET Holders(o)
  BY DEF Erasers
<1>3. QED
  BY <1>1, <1>2, FS_Subset, FS_CardinalityType

(* A handler whose execution record becomes to: nothing else changes. *)
LEMMA MoveCounts ==
  ASSUME Inv, NEW o \in OrderIds, NEW from, NEW to \in {"executing", "completed", "failed"},
         MoveRecord(o, from, to)
  PROVE  /\ executions'[o]["completed"] = executions[o]["completed"]
              + (IF to = "completed" THEN 1 ELSE 0)
              - (IF from = "completed" THEN 1 ELSE 0)
         /\ \A p \in OrderIds : p # o => executions'[p] = executions[p]
         /\ executions[o]["completed"] \in Int
BY DEF MoveRecord, RecordStatus, Inv, TypeOK

(* What a step of one handler leaves to the others. *)
LEMMA OthersKept ==
  ASSUME Inv, NEW t \in Tasks, HandlerKind(t)
  PROVE  /\ t \in DOMAIN handling
         /\ handling[t].order \in Placed /\ handling[t].order \in OrderIds
         /\ Placed' = Placed
         /\ orphans \subseteq orphans'
         /\ DOMAIN handling' \subseteq DOMAIN handling
         /\ \A u \in DOMAIN handling : u # t =>
              u \in DOMAIN handling' /\ handling'[u] = handling[u]
         /\ \A p \in Placed : p # handling[t].order => orders'[p] = orders[p]
         /\ \A p \in OrderIds : p # handling[t].order => executions'[p] = executions[p]
<1>1. /\ t \in DOMAIN handling
      /\ Placed' = Placed
      /\ DOMAIN handling' \subseteq DOMAIN handling
      /\ \A u \in DOMAIN handling' : u # t => handling'[u] = handling[u]
      /\ \A p \in Placed : p # handling[t].order => orders'[p] = orders[p]
  BY HandlerFrame DEF HandlerKind
<1>2. orphans \subseteq orphans'
  BY DEF HandlerKind, HandlerStep, TryThrows, HandlerDies, MarkVerified,
     MarkCancelled, PutAmount, RejectExpired, MarkExecuting, CreateRecord,
     CallProvider, CompleteOrder, CompleteRecord, UpdateOrderLimits, FailOrder,
     FailRecord, CatchOrder, CatchRecord, handleVars, executeVars, stepVars
<1>3. \A u \in DOMAIN handling : u # t => u \in DOMAIN handling'
  BY DEF HandlerKind, HandlerStep, TryThrows, HandlerDies, MarkVerified,
     MarkCancelled, PutAmount, RejectExpired, MarkExecuting, CreateRecord,
     CallProvider, CompleteOrder, CompleteRecord, UpdateOrderLimits, FailOrder,
     FailRecord, CatchOrder, CatchRecord, Go, Finish, Without, Booked
<1>4. executions' = executions \/ \E from, to : MoveRecord(handling[t].order, from, to)
  BY DEF HandlerKind, HandlerStep, TryThrows, HandlerDies, MarkVerified,
     MarkCancelled, PutAmount, RejectExpired, MarkExecuting, CreateRecord,
     CallProvider, CompleteOrder, CompleteRecord, UpdateOrderLimits, FailOrder,
     FailRecord, CatchOrder, CatchRecord, worldVars, handleVars
<1>5. \A p \in OrderIds : p # handling[t].order => executions'[p] = executions[p]
  BY <1>4 DEF MoveRecord, Inv, TypeOK
<1>6. handling[t].order \in Placed /\ handling[t].order \in OrderIds
  BY <1>1 DEF Inv, TypeOK
<1>7. QED
  BY <1>1, <1>2, <1>3, <1>5, <1>6

(* The records of the orders the handler does not handle. *)
LEMMA RecordOthers ==
  ASSUME Inv, RecordInv, NEW t \in Tasks, HandlerKind(t), NEW p \in OrderIds,
         p # handling[t].order
  PROVE  /\ executions'[p]["completed"] >= Cardinality(Holders(p)')
         /\ p \in Placed' => Recorded(p)'
<1>1. /\ t \in DOMAIN handling
      /\ Placed' = Placed
      /\ orphans \subseteq orphans'
      /\ DOMAIN handling' \subseteq DOMAIN handling
      /\ \A u \in DOMAIN handling : u # t =>
           u \in DOMAIN handling' /\ handling'[u] = handling[u]
      /\ p \in Placed => orders'[p] = orders[p]
      /\ executions'[p] = executions[p]
  BY OthersKept
<1>2. t \in DOMAIN handling' => handling'[t].order = handling[t].order
  BY HandlerFrame DEF HandlerKind
<1>3. Holders(p)' = Holders(p)
  BY <1>1, <1>2 DEF Holders
<1>4. Erasers(p)' = Erasers(p)
  BY <1>1, <1>2, <1>3 DEF Erasers, Holders
<1>5. (\E u \in DOMAIN handling : Recorder(u, p))
        => \E u \in DOMAIN handling' : Recorder(u, p)'
  BY <1>1 DEF Recorder
<1>6. QED
  BY <1>1, <1>3, <1>4, <1>5 DEF RecordInv, Recorded

(* A handler that keeps its record, or ends with it. *)
LEMMA FewerHolders ==
  ASSUME Inv, RecordInv, NEW t \in Tasks, HandlerKind(t),
         NEW o \in OrderIds, o = handling[t].order,
         executions' = executions,
         t \in DOMAIN handling' => handling'[t].record = handling[t].record
  PROVE  /\ executions'[o]["completed"] >= Cardinality(Holders(o)')
         /\ Holders(o)' \subseteq Holders(o)
<1>1. /\ t \in DOMAIN handling
      /\ o \in OrderIds
      /\ DOMAIN handling' \subseteq DOMAIN handling
      /\ \A u \in DOMAIN handling : u # t =>
           u \in DOMAIN handling' /\ handling'[u] = handling[u]
  BY OthersKept
<1>2. t \in DOMAIN handling' => handling'[t].order = o
  BY HandlerFrame DEF HandlerKind
<1>3. Holders(o)' \subseteq Holders(o)
  BY <1>1, <1>2 DEF Holders
<1>4. /\ IsFiniteSet(Holders(o)')
      /\ Cardinality(Holders(o)') <= Cardinality(Holders(o))
  <2>1. IsFiniteSet(Holders(o)) /\ Holders(o)' \in SUBSET Holders(o)
    BY <1>3, HandlerSets DEF RecordInv
  <2>2. QED
    BY <2>1, FS_Subset
<1>5. /\ executions[o]["completed"] \in Int
      /\ executions[o]["completed"] >= Cardinality(Holders(o))
      /\ Cardinality(Holders(o)) \in Nat
  BY <1>1, HandlerSets DEF RecordInv, Inv, TypeOK, RecordStatus
<1>6. Cardinality(Holders(o)') \in Nat
  BY <1>4, FS_CardinalityType
<1>7. QED
  BY <1>3, <1>4, <1>5, <1>6

(* Of it, the order's completed record stays when no handler begins to take *)
(* its own back and none that still has to write one goes.                  *)
LEMMA QuietRecorded ==
  ASSUME Inv, RecordInv, NEW t \in Tasks, HandlerKind(t),
         NEW o \in OrderIds, o = handling[t].order,
         executions' = executions,
         t \in DOMAIN handling' => /\ handling'[t].record = handling[t].record
                                   /\ handling'[t].pc # "catchRecord",
         orders'[o].status = orders[o].status,
         Recorder(t, o) => o \in orphans'
  PROVE  Recorded(o)'
<1>1. /\ t \in DOMAIN handling
      /\ o \in Placed /\ o \in OrderIds
      /\ orphans \subseteq orphans'
      /\ \A u \in DOMAIN handling : u # t =>
           u \in DOMAIN handling' /\ handling'[u] = handling[u]
  BY OthersKept
<1>2. Holders(o)' \subseteq Holders(o)
  BY FewerHolders
<1>3. Erasers(o)' \subseteq Erasers(o)
  BY <1>1, <1>2 DEF Erasers, Holders
<1>4. /\ Cardinality(Erasers(o)') <= Cardinality(Erasers(o))
      /\ Cardinality(Erasers(o)') \in Nat
      /\ Cardinality(Erasers(o)) \in Nat
  <2>1. /\ IsFiniteSet(Erasers(o)) /\ Cardinality(Erasers(o)) \in Nat
        /\ Erasers(o)' \in SUBSET Erasers(o)
    BY <1>3, HandlerSets DEF RecordInv
  <2>2. QED
    BY <2>1, FS_Subset, FS_CardinalityType
<1>5. executions[o]["completed"] \in Int
  BY <1>1 DEF Inv, TypeOK, RecordStatus
<1>6. ASSUME NEW u \in DOMAIN handling, Recorder(u, o)
      PROVE  o \in orphans' \/ \E v \in DOMAIN handling' : Recorder(v, o)'
  <2>1. CASE u = t
    BY <1>6, <2>1
  <2>2. CASE u # t
    BY <1>1, <1>6, <2>2 DEF Recorder
  <2>3. QED
    BY <2>1, <2>2
<1>7. Recorded(o)
  BY <1>1 DEF RecordInv
<1>8. executions'[o]["completed"] = executions[o]["completed"]
  OBVIOUS
<1>9. QED
  BY <1>1, <1>4, <1>5, <1>6, <1>7, <1>8 DEF Recorded

(* A step that writes the handler's execution record. *)
LEMMA RecordSteps ==
  ASSUME Inv, NEW t \in Tasks,
         CreateRecord(t) \/ CompleteRecord(t) \/ FailRecord(t) \/ CatchRecord(t),
         NEW o \in OrderIds, o = handling[t].order
  PROVE  /\ orders' = orders
         /\ CreateRecord(t) =>
              /\ t \in DOMAIN handling' /\ handling'[t].order = o
              /\ handling'[t].pc = "provider" /\ handling'[t].record = "executing"
              /\ executions'[o]["completed"] = executions[o]["completed"]
         /\ CompleteRecord(t) =>
              /\ t \in DOMAIN handling' /\ handling'[t].order = o
              /\ handling'[t].pc = "bookLimits" /\ handling'[t].record = "completed"
              /\ executions'[o]["completed"] = executions[o]["completed"]
                   + (IF handling[t].record = "completed" THEN 0 ELSE 1)
         /\ FailRecord(t) =>
              /\ t \in DOMAIN handling' /\ handling'[t].order = o
              /\ handling'[t].pc = "catchOrder" /\ handling'[t].record = "failed"
         /\ CatchRecord(t) => t \notin DOMAIN handling'
         /\ FailRecord(t) \/ CatchRecord(t) =>
              executions'[o]["completed"] = executions[o]["completed"]
                - (IF handling[t].record = "completed" THEN 1 ELSE 0)
<1>1. t \in DOMAIN handling /\ handling[t] \in Handler
  BY DEF CreateRecord, CompleteRecord, FailRecord, CatchRecord, HandlerAt, Inv, TypeOK
<1>2. ASSUME NEW pc, NEW r, handling' = [handling EXCEPT ![t].pc = pc, ![t].record = r]
      PROVE  /\ t \in DOMAIN handling' /\ handling'[t].order = o
             /\ handling'[t].pc = pc /\ handling'[t].record = r
  <2>1. t \in DOMAIN handling' /\ handling'[t] = [handling[t] EXCEPT !.pc = pc, !.record = r]
    BY <1>1, <1>2
  <2>2. QED
    BY <1>1, <2>1 DEF Handler
<1>3. CASE CreateRecord(t)
  <2>1. /\ MoveRecord(o, "none", "executing")
        /\ handling' = [handling EXCEPT ![t].pc = "provider", ![t].record = "executing"]
        /\ orders' = orders
        /\ HandlerAt(t, "createRecord")
    BY <1>3 DEF CreateRecord
  <2>2. executions'[o]["completed"] = executions[o]["completed"]
    BY <2>1, MoveCounts
  <2>3. QED
    BY <1>2, <2>1, <2>2 DEF HandlerAt, CompleteRecord, FailRecord, CatchRecord
<1>4. CASE CompleteRecord(t)
  <2>1. /\ MoveRecord(o, handling[t].record, "completed")
        /\ handling' = [handling EXCEPT ![t].pc = "bookLimits", ![t].record = "completed"]
        /\ orders' = orders
        /\ HandlerAt(t, "completeRecord")
    BY <1>4 DEF CompleteRecord
  <2>2. /\ executions'[o]["completed"] = executions[o]["completed"] + 1
             - (IF handling[t].record = "completed" THEN 1 ELSE 0)
        /\ executions[o]["completed"] \in Int
    BY <2>1, MoveCounts
  <2>3. ~ CreateRecord(t) /\ ~ FailRecord(t) /\ ~ CatchRecord(t)
    BY <2>1 DEF HandlerAt, CreateRecord, FailRecord, CatchRecord
  <2>4. executions'[o]["completed"] = executions[o]["completed"]
          + (IF handling[t].record = "completed" THEN 0 ELSE 1)
    BY <2>2
  <2>5. /\ t \in DOMAIN handling' /\ handling'[t].order = o
        /\ handling'[t].pc = "bookLimits" /\ handling'[t].record = "completed"
    BY <1>2, <2>1
  <2>6. QED
    BY <2>1, <2>3, <2>4, <2>5
<1>5. CASE FailRecord(t) \/ CatchRecord(t)
  <2>1. /\ MoveRecord(o, handling[t].record, "failed")
        /\ orders' = orders
        /\ HandlerAt(t, "failRecord") \/ HandlerAt(t, "catchRecord")
    BY <1>5 DEF FailRecord, CatchRecord
  <2>2. /\ executions'[o]["completed"] = executions[o]["completed"] + 0
             - (IF handling[t].record = "completed" THEN 1 ELSE 0)
        /\ executions[o]["completed"] \in Int
    BY <2>1, MoveCounts
  <2>3. CatchRecord(t) => t \notin DOMAIN handling'
    BY DEF CatchRecord, Finish, Without
  <2>4. FailRecord(t) =>
          handling' = [handling EXCEPT ![t].pc = "catchOrder", ![t].record = "failed"]
    BY DEF FailRecord
  <2>5. ~ CreateRecord(t) /\ ~ CompleteRecord(t)
    BY <2>1 DEF HandlerAt, CreateRecord, CompleteRecord
  <2>6. executions'[o]["completed"] = executions[o]["completed"]
          - (IF handling[t].record = "completed" THEN 1 ELSE 0)
    BY <2>2
  <2>7. FailRecord(t) => /\ t \in DOMAIN handling' /\ handling'[t].order = o
                         /\ handling'[t].pc = "catchOrder"
                         /\ handling'[t].record = "failed"
    BY <1>2, <2>4
  <2>8. QED
    BY <2>1, <2>3, <2>5, <2>6, <2>7
<1>6. QED
  BY <1>3, <1>4, <1>5

LEMMA RecordWrites ==
  ASSUME Inv, RecordInv, NEW t \in Tasks,
         CreateRecord(t) \/ CompleteRecord(t) \/ FailRecord(t) \/ CatchRecord(t),
         NEW o \in OrderIds, o = handling[t].order
  PROVE  executions'[o]["completed"] >= Cardinality(Holders(o)') /\ Recorded(o)'
<1>1. HandlerKind(t)
  BY DEF HandlerKind, HandlerStep
<1>2. /\ t \in DOMAIN handling
      /\ o \in Placed
      /\ orphans \subseteq orphans'
      /\ DOMAIN handling' \subseteq DOMAIN handling
      /\ \A u \in DOMAIN handling : u # t =>
           u \in DOMAIN handling' /\ handling'[u] = handling[u]
  BY <1>1, OthersKept
<1> DEFINE n == executions[o]["completed"]
<1>3. /\ n \in Int
      /\ n >= Cardinality(Holders(o))
      /\ IsFiniteSet(Holders(o)) /\ Cardinality(Holders(o)) \in Nat
      /\ IsFiniteSet(Erasers(o)) /\ Cardinality(Erasers(o)) \in Nat
      /\ Recorded(o)
  BY <1>2, HandlerSets DEF RecordInv, Inv, TypeOK, RecordStatus
<1>4. t \in Holders(o) <=> handling[t].record = "completed"
  BY <1>2 DEF Holders
<1>5. CASE CreateRecord(t)
  <2>1. /\ orders' = orders
        /\ executions'[o]["completed"] = n
        /\ handling'[t].pc = "provider" /\ handling'[t].record = "executing"
    BY <1>5, RecordSteps
  <2>2. Holders(o)' \in SUBSET Holders(o) /\ Erasers(o)' \in SUBSET Erasers(o)
    BY <1>2, <2>1 DEF Holders, Erasers
  <2>3. /\ IsFiniteSet(Holders(o)') /\ Cardinality(Holders(o)') <= Cardinality(Holders(o))
        /\ IsFiniteSet(Erasers(o)') /\ Cardinality(Erasers(o)') <= Cardinality(Erasers(o))
    BY <1>3, <2>2, FS_Subset
  <2>4. Cardinality(Holders(o)') \in Nat /\ Cardinality(Erasers(o)') \in Nat
    BY <2>3, FS_CardinalityType
  <2>5. ASSUME NEW u \in DOMAIN handling, Recorder(u, o)
        PROVE  \E v \in DOMAIN handling' : Recorder(v, o)'
    <3>1. u # t
      BY <1>5, <2>5 DEF Recorder, CreateRecord, HandlerAt
    <3>2. QED
      BY <1>2, <2>5, <3>1 DEF Recorder
  <2>6. QED
    BY <1>2, <1>3, <2>1, <2>3, <2>4, <2>5 DEF Recorded
<1>6. CASE CompleteRecord(t)
  <2>1. /\ handling'[t].order = o /\ t \in DOMAIN handling'
        /\ handling'[t].pc = "bookLimits" /\ handling'[t].record = "completed"
        /\ executions'[o]["completed"] = n
             + (IF handling[t].record = "completed" THEN 0 ELSE 1)
    BY <1>6, RecordSteps
  <2>2. Holders(o)' = Holders(o) \cup {t}
    BY <1>2, <2>1 DEF Holders
  <2>3. /\ IsFiniteSet(Holders(o)')
        /\ Cardinality(Holders(o)') = IF t \in Holders(o) THEN Cardinality(Holders(o))
                                                          ELSE Cardinality(Holders(o)) + 1
    BY <1>3, <2>2, FS_AddElement
  <2>4. executions'[o]["completed"] >= Cardinality(Holders(o)')
        /\ Cardinality(Holders(o)') \in Nat
    BY <1>3, <1>4, <2>1, <2>3
  <2>5. t \in Holders(o)' /\ Erasers(o)' \in SUBSET (Holders(o)' \ {t})
    BY <1>2, <2>1, <2>2 DEF Erasers
  <2>6. /\ IsFiniteSet(Holders(o)' \ {t})
        /\ Cardinality(Holders(o)' \ {t}) = Cardinality(Holders(o)') - 1
    BY <2>3, <2>5, FS_RemoveElement
  <2>7. /\ IsFiniteSet(Erasers(o)')
        /\ Cardinality(Erasers(o)') <= Cardinality(Holders(o)') - 1
    BY <2>5, <2>6, FS_Subset
  <2>8. Cardinality(Erasers(o)') \in Nat
    BY <2>7, FS_CardinalityType
  <2>9. executions'[o]["completed"] \in Int
    BY <1>3, <2>1
  <2>10. QED
    BY <2>4, <2>7, <2>8, <2>9 DEF Recorded
<1>7. CASE FailRecord(t) \/ CatchRecord(t)
  <2>1. /\ orders' = orders
        /\ executions'[o]["completed"] = n
             - (IF handling[t].record = "completed" THEN 1 ELSE 0)
        /\ FailRecord(t) => /\ t \in DOMAIN handling' /\ handling'[t].order = o
                            /\ handling'[t].pc = "catchOrder"
                            /\ handling'[t].record = "failed"
        /\ CatchRecord(t) => t \notin DOMAIN handling'
    BY <1>7, RecordSteps
  <2>2. Holders(o)' = Holders(o) \ {t}
    BY <1>2, <1>7, <2>1 DEF Holders
  <2>3. /\ IsFiniteSet(Holders(o)')
        /\ Cardinality(Holders(o)') = IF t \in Holders(o) THEN Cardinality(Holders(o)) - 1
                                                          ELSE Cardinality(Holders(o))
    <3>1. /\ IsFiniteSet(Holders(o) \ {t})
          /\ Cardinality(Holders(o) \ {t}) = IF t \in Holders(o)
                                              THEN Cardinality(Holders(o)) - 1
                                              ELSE Cardinality(Holders(o))
      BY <1>3, FS_RemoveElement
    <3>2. QED
      BY <2>2, <3>1
  <2>4. executions'[o]["completed"] >= Cardinality(Holders(o)')
    BY <1>3, <1>4, <2>1, <2>3
  <2>5. CASE FailRecord(t)
    BY <2>1, <2>4, <2>5 DEF Recorded, Recorder
  <2>6. CASE CatchRecord(t)
    <3>1. handling[t].pc = "catchRecord"
      BY <2>6 DEF CatchRecord, HandlerAt
    <3>2. t \in Erasers(o) <=> t \in Holders(o)
      BY <3>1 DEF Erasers
    <3>3. Erasers(o)' = Erasers(o) \ {t}
      BY <1>2, <2>1, <2>2, <2>6 DEF Erasers, Holders
    <3>4. Cardinality(Erasers(o)') = IF t \in Erasers(o) THEN Cardinality(Erasers(o)) - 1
                                                         ELSE Cardinality(Erasers(o))
      BY <1>3, <3>3, FS_RemoveElement
    <3>5. n > Cardinality(Erasers(o)) =>
            executions'[o]["completed"] > Cardinality(Erasers(o)')
      BY <1>3, <1>4, <2>1, <3>2, <3>4
    <3>6. ASSUME NEW u \in DOMAIN handling, Recorder(u, o)
          PROVE  \E v \in DOMAIN handling' : Recorder(v, o)'
      <4>1. u # t
        BY <3>1, <3>6 DEF Recorder
      <4>2. QED
        BY <1>2, <3>6, <4>1 DEF Recorder
    <3>7. QED
      BY <1>2, <1>3, <2>1, <2>4, <3>5, <3>6 DEF Recorded
  <2>7. QED
    BY <1>7, <2>5, <2>6
<1>8. QED
  BY <1>5, <1>6, <1>7

(* A step that leaves the execution records alone. *)
LEMMA RecordQuiet ==
  ASSUME Inv, RecordInv, NEW t \in Tasks, HandlerKind(t),
         ~ CreateRecord(t), ~ CompleteRecord(t), ~ FailRecord(t), ~ CatchRecord(t),
         NEW o \in OrderIds, o = handling[t].order
  PROVE  executions'[o]["completed"] >= Cardinality(Holders(o)') /\ Recorded(o)'
<1>1. /\ t \in DOMAIN handling
      /\ o \in Placed
      /\ orders \in [Placed -> Row]
      /\ handling[t] \in Handler
  BY OthersKept DEF Inv, TypeOK
<1>2. executions' = executions
  BY DEF HandlerKind, HandlerStep, TryThrows, HandlerDies, MarkVerified, MarkCancelled,
     PutAmount, RejectExpired, MarkExecuting, CallProvider, CompleteOrder,
     UpdateOrderLimits, FailOrder, CatchOrder, worldVars, handleVars
<1>3. \/ Finish(t) \/ (\E pc : Go(t, pc)) \/ UpdateOrderLimits(t)
  BY DEF HandlerKind, HandlerStep, TryThrows, HandlerDies, MarkVerified, MarkCancelled,
     PutAmount, RejectExpired, MarkExecuting, CallProvider, CompleteOrder,
     FailOrder, CatchOrder
<1>4. Finish(t) => t \notin DOMAIN handling'
  BY DEF Finish, Without
<1>5. ASSUME NEW pc, Go(t, pc)
      PROVE  /\ t \in DOMAIN handling' /\ handling'[t].order = o
             /\ handling'[t].pc = pc /\ handling'[t].record = handling[t].record
  BY <1>1, <1>5 DEF Go, Handler
<1>6. t \in DOMAIN handling' => handling'[t].record = handling[t].record
  BY <1>3, <1>4, <1>5, BookedKeeps
<1>7. executions'[o]["completed"] >= Cardinality(Holders(o)')
  BY <1>2, <1>6, FewerHolders
<1>8. (* The order leaves completed, or was not to become it. *)
      CASE \/ MarkVerified(t) \/ MarkCancelled(t) \/ RejectExpired(t)
           \/ MarkExecuting(t) \/ FailOrder(t) \/ CatchOrder(t)
  <2>1. orders'[o].status # "completed"
    BY <1>1, <1>8 DEF MarkVerified, MarkCancelled, RejectExpired, MarkExecuting,
       FailOrder, CatchOrder, SetStatus, Row
  <2>2. QED
    BY <1>7, <2>1 DEF Recorded
<1>9. (* The handler still has to write. *)
      CASE CompleteOrder(t) \/ TryThrows(t)
  <2>1. Go(t, "completeRecord") \/ Go(t, "catchOrder")
    BY <1>9 DEF CompleteOrder, TryThrows
  <2>2. t \in DOMAIN handling' /\ Recorder(t, o)'
    BY <1>5, <2>1 DEF Recorder
  <2>3. QED
    BY <1>7, <2>2 DEF Recorded
<1>10. CASE \/ PutAmount(t) \/ UpdateOrderLimits(t) \/ HandlerDies(t)
            \/ \E x, a \in BOOLEAN : CallProvider(t, x, a)
  <2>1. orders'[o].status = orders[o].status
    BY <1>1, <1>10 DEF PutAmount, UpdateOrderLimits, HandlerDies, CallProvider,
       worldVars, Row
  <2>2. Finish(t) \/ Go(t, "complete") \/ Go(t, "fail") \/ UpdateOrderLimits(t)
    BY <1>10 DEF PutAmount, HandlerDies, CallProvider
  <2>3. t \in DOMAIN handling' => handling'[t].pc # "catchRecord"
    BY <1>4, <1>5, <2>2, BookedKeeps
  <2>4. Recorder(t, o) => o \in orphans'
    <3>1. CASE HandlerDies(t)
      BY <3>1 DEF HandlerDies, Recorder, OwnerPc, TryPc, BookPc, CatchPc
    <3>2. CASE \/ PutAmount(t) \/ UpdateOrderLimits(t)
               \/ \E x, a \in BOOLEAN : CallProvider(t, x, a)
      BY <3>2 DEF PutAmount, UpdateOrderLimits, CallProvider, HandlerAt, Recorder
    <3>3. QED
      BY <1>10, <3>1, <3>2
  <2>5. QED
    BY <1>2, <1>6, <1>7, <2>1, <2>3, <2>4, QuietRecorded
<1>11. QED
  BY <1>8, <1>9, <1>10 DEF HandlerKind, HandlerStep

LEMMA RecordNext ==
  ASSUME Inv, RecordInv, [Next]_vars
  PROVE  RecordInv'
<1>1. ASSUME NEW t \in Tasks, CreateKind(t)
      PROVE  RecordInv'
  <2>1. /\ UNCHANGED <<handling, orphans>>
        /\ \/ orders' = orders
           \/ \E o \in OrderIds, totp \in BOOLEAN : InsertOrder(t, o, totp)
    BY <1>1, CreateFrame DEF CreateKind
  <2>2. executions' = executions
    BY <1>1 DEF CreateKind, CreateStep, CreateDies, CreateOrder, DropExpiredKey,
       CheckOrderLimits, InsertOrder, InsertDuplicate, StoreIdempotencyKey, Respond,
       createVars, worldVars
  <2>3. \A o : Holders(o)' = Holders(o) /\ Erasers(o)' = Erasers(o)
    BY <2>1 DEF Holders, Erasers
  <2>4. ASSUME NEW o \in OrderIds, NEW totp \in BOOLEAN, InsertOrder(t, o, totp)
        PROVE  RecordInv'
    <3>1. /\ Placed' = Placed \cup {o}
          /\ orders'[o].status \in PendingStatus
          /\ \A p \in Placed : orders'[p] = orders[p]
      BY <2>4, InsertFacts
    <3>2. \A p \in Placed' : Recorded(p)'
      BY <2>1, <2>2, <2>3, <3>1 DEF RecordInv, Recorded, Recorder, PendingStatus
    <3>3. QED
      BY <2>1, <2>2, <2>3, <3>2 DEF RecordInv
  <2>5. CASE orders' = orders
    <3>1. \A p \in Placed' : Recorded(p)'
      BY <2>1, <2>2, <2>3, <2>5 DEF RecordInv, Recorded, Recorder
    <3>2. QED
      BY <2>1, <2>2, <2>3, <3>1 DEF RecordInv
  <2>6. QED
    BY <2>1, <2>4, <2>5
<1>2. ASSUME NEW t \in Tasks, HandlerKind(t)
      PROVE  RecordInv'
  <2>1. /\ handling[t].order \in OrderIds
        /\ Placed' = Placed /\ Placed \subseteq OrderIds
        /\ DOMAIN handling' \in SUBSET DOMAIN handling
    BY <1>2, OthersKept DEF Inv, TypeOK
  <2>2. IsFiniteSet(DOMAIN handling')
    BY <2>1, FS_Subset DEF RecordInv
  <2>3. ASSUME NEW p \in OrderIds
        PROVE  /\ executions'[p]["completed"] >= Cardinality(Holders(p)')
               /\ p \in Placed' => Recorded(p)'
    <3>1. CASE p # handling[t].order
      BY <1>2, <3>1, RecordOthers
    <3>2. CASE /\ p = handling[t].order
               /\ CreateRecord(t) \/ CompleteRecord(t) \/ FailRecord(t) \/ CatchRecord(t)
      BY <3>2, RecordWrites
    <3>3. CASE /\ p = handling[t].order
               /\ ~ CreateRecord(t) /\ ~ CompleteRecord(t)
               /\ ~ FailRecord(t) /\ ~ CatchRecord(t)
      BY <1>2, <3>3, RecordQuiet
    <3>4. QED
      BY <3>1, <3>2, <3>3
  <2>4. QED
    BY <2>1, <2>2, <2>3 DEF RecordInv
<1>3. ASSUME NEW t \in Tasks, NEW o \in OrderIds, RequestKind(t, o)
      PROVE  RecordInv'
  <2>1. UNCHANGED <<orders, orphans>>
    BY <1>3, RequestFrame DEF RequestKind
  <2>2. executions' = executions
    BY <1>3 DEF RequestKind, VerifyOrder, CancelOrder, UpdateOrder, ExecuteOrder,
       RunImmediate
  <2>3. handling' = handling \/ \E pc, a : Begin(t, pc, o, a)
    BY <1>3 DEF RequestKind, VerifyOrder, CancelOrder, UpdateOrder, ExecuteOrder,
       RunImmediate, BeginExecute
  <2>4. CASE handling' = handling
    <3>1. \A p : Holders(p)' = Holders(p) /\ Erasers(p)' = Erasers(p)
      BY <2>4 DEF Holders, Erasers
    <3>2. \A p \in Placed' : Recorded(p)'
      BY <2>1, <2>2, <2>4, <3>1 DEF RecordInv, Recorded, Recorder
    <3>3. QED
      BY <2>1, <2>2, <2>4, <3>1, <3>2 DEF RecordInv
  <2>5. ASSUME NEW pc, NEW a, Begin(t, pc, o, a)
        PROVE  RecordInv'
    <3>1. /\ t \notin DOMAIN handling
          /\ DOMAIN handling' = DOMAIN handling \cup {t}
          /\ handling'[t].record = "none"
          /\ \A u \in DOMAIN handling : handling'[u] = handling[u]
      BY <2>5 DEF Begin, Free, Put
    <3>2. IsFiniteSet(DOMAIN handling')
      BY <3>1, FS_AddElement DEF RecordInv
    <3>3. \A p : Holders(p)' = Holders(p)
      BY <3>1 DEF Holders
    <3>4. \A p : Erasers(p)' = Erasers(p)
      BY <3>1, <3>3 DEF Erasers, Holders
    <3>5. \A p : (\E u \in DOMAIN handling : Recorder(u, p))
                   => \E u \in DOMAIN handling' : Recorder(u, p)'
      BY <3>1 DEF Recorder
    <3>6. \A p \in Placed' : Recorded(p)'
      BY <2>1, <2>2, <3>4, <3>5 DEF RecordInv, Recorded
    <3>7. QED
      BY <2>1, <2>2, <3>2, <3>3, <3>6 DEF RecordInv
  <2>6. QED
    BY <2>3, <2>4, <2>5
<1>4. CASE WorldKind
  <2>1. UNCHANGED <<orders, handling, orphans>>
    BY <1>4, WorldFrame DEF WorldKind
  <2>2. executions' = executions
    BY <1>4 DEF WorldKind, ExpireOrder, ImmediateDropped, ExpireKey, worldVars, vars
  <2>3. \A p : Holders(p)' = Holders(p) /\ Erasers(p)' = Erasers(p)
    BY <2>1 DEF Holders, Erasers
  <2>4. \A p \in Placed' : Recorded(p)'
    BY <2>1, <2>2, <2>3 DEF RecordInv, Recorded, Recorder
  <2>5. QED
    BY <2>1, <2>2, <2>3, <2>4 DEF RecordInv
<1>5. QED
  BY <1>1, <1>2, <1>3, <1>4, StepKinds

(* A completed order has a completed execution record, however many runs   *)
(* of it overlapped, unless the handler that is to write it still can, or  *)
(* died: one run's catch block never takes back another run's record.      *)
THEOREM CompletedHasRecordHolds == Spec => []CompletedHasRecord
<1>1. Init => RecordInv
  <2>1. ASSUME Init, NEW o \in OrderIds
        PROVE  executions[o]["completed"] >= Cardinality(Holders(o))
    <3>1. Holders(o) = {} /\ executions[o]["completed"] = 0
      BY <2>1 DEF Init, Holders, RecordStatus
    <3>2. QED
      BY <3>1, FS_EmptySet
  <2>2. Init => IsFiniteSet(DOMAIN handling) /\ Placed = {}
    BY FS_EmptySet DEF Init
  <2>3. QED
    BY <2>1, <2>2 DEF RecordInv
<1>2. Inv /\ RecordInv => CompletedHasRecord
  <2> SUFFICES ASSUME Inv, RecordInv, NEW o \in Placed, orders[o].status = "completed"
               PROVE  \/ executions[o]["completed"] > 0
                      \/ o \in orphans
                      \/ \E t \in DOMAIN handling : Recorder(t, o)
    BY DEF CompletedHasRecord, Recorder
  <2>1. Cardinality(Erasers(o)) \in Nat
    BY HandlerSets DEF RecordInv
  <2>2. executions[o]["completed"] \in Int
    BY DEF Inv, TypeOK, RecordStatus
  <2>3. QED
    BY <2>1, <2>2 DEF RecordInv, Recorded
<1>3. QED
  BY <1>1, <1>2, RecordNext, InvHolds, PTL DEF Spec

-----------------------------------------------------------------------------
(* LimitsAreBookedOnce: each step changes the sum at its own handler only,  *)
(* by what it adds to one of the other terms; so for each limit.            *)

Bookings(l) == [t \in DOMAIN handling |-> Unbooked(t, l)]

UnbookedBy(t, l) == IF t \in DOMAIN handling THEN Unbooked(t, l) ELSE 0

Balanced(l) == used[l] + lost[l] + SumFunction(Bookings(l)) = reported

(* Before its execution is completed a handler has booked no limit. *)
LeftInv ==
  \A t \in DOMAIN handling :
    handling[t].pc \notin {"bookLimits"} \cup CatchPc => handling[t].left = Limits

BookInv ==
  /\ IsFiniteSet(DOMAIN handling)
  /\ LeftInv
  /\ \A l \in Limits : Balanced(l)

LEMMA LeftNext ==
  ASSUME Inv, LeftInv, [Next]_vars
  PROVE  LeftInv'
<1>1. ASSUME NEW t \in Tasks, CreateKind(t) PROVE LeftInv'
  BY <1>1, CreateFrame DEF CreateKind, LeftInv
<1>2. ASSUME NEW t \in Tasks, HandlerKind(t) PROVE LeftInv'
  <2>1. /\ t \in DOMAIN handling /\ handling[t] \in Handler
        /\ handling \in [DOMAIN handling -> Handler]
        /\ DOMAIN handling' \subseteq DOMAIN handling
        /\ \A u \in DOMAIN handling : u # t =>
             u \in DOMAIN handling' /\ handling'[u] = handling[u]
    BY <1>2, OthersKept DEF Inv, TypeOK
  <2>2. CASE \/ MarkVerified(t) \/ MarkCancelled(t) \/ PutAmount(t) \/ RejectExpired(t)
             \/ CatchRecord(t) \/ HandlerDies(t)
    <3>1. t \notin DOMAIN handling'
      BY <2>2 DEF MarkVerified, MarkCancelled, PutAmount, RejectExpired, CatchRecord,
         HandlerDies, Finish, Without
    <3> QED
      BY <2>1, <3>1 DEF LeftInv
  <2>3. CASE CatchOrder(t) \/ TryThrows(t)
    <3>1. handling'[t].pc \in CatchPc
      BY <2>1, <2>3 DEF CatchOrder, TryThrows, Go, CatchPc, Handler
    <3> QED
      BY <2>1, <3>1 DEF LeftInv
  <2>4. CASE UpdateOrderLimits(t)
    BY <2>1, <2>4, BookedKeeps DEF LeftInv
  <2>5. CASE \/ MarkExecuting(t) \/ CreateRecord(t) \/ CompleteOrder(t)
             \/ CompleteRecord(t) \/ FailOrder(t) \/ FailRecord(t)
             \/ \E x, a \in BOOLEAN : CallProvider(t, x, a)
    <3>1. handling[t].pc \notin {"bookLimits"} \cup CatchPc
      BY <2>5 DEF MarkExecuting, CreateRecord, CompleteOrder, CompleteRecord, FailOrder,
         FailRecord, CallProvider, HandlerAt, CatchPc
    <3>2. \/ \E pc : Go(t, pc)
          \/ \E pc, r : handling' = [handling EXCEPT ![t].pc = pc, ![t].record = r]
      BY <2>5 DEF MarkExecuting, CreateRecord, CompleteOrder, CompleteRecord, FailOrder,
         FailRecord, CallProvider
    <3>3. handling'[t].left = handling[t].left
      <4>1. CASE \E pc : Go(t, pc)
        BY <2>1, <4>1 DEF Go, Handler
      <4>2. ASSUME NEW pc, NEW r,
                   handling' = [handling EXCEPT ![t].pc = pc, ![t].record = r]
            PROVE  handling'[t].left = handling[t].left
        <5>1. handling'[t] = [handling[t] EXCEPT !.pc = pc, !.record = r]
          BY <2>1, <4>2
        <5> QED
          BY <2>1, <5>1 DEF Handler
      <4> QED
        BY <3>2, <4>1, <4>2
    <3> QED
      BY <2>1, <3>1, <3>3 DEF LeftInv
  <2> QED
    BY <1>2, <2>2, <2>3, <2>4, <2>5 DEF HandlerKind, HandlerStep
<1>3. ASSUME NEW t \in Tasks, NEW o \in OrderIds, RequestKind(t, o) PROVE LeftInv'
  <2>1. \/ handling' = handling
        \/ \E pc, a : Begin(t, pc, o, a)
    BY <1>3 DEF RequestKind, VerifyOrder, CancelOrder, UpdateOrder, ExecuteOrder,
       RunImmediate, BeginExecute
  <2> QED
    BY <2>1 DEF LeftInv, Begin, Put
<1>4. CASE WorldKind
  BY <1>4, WorldFrame DEF WorldKind, LeftInv
<1> QED
  BY <1>1, <1>2, <1>3, <1>4, StepKinds

LEMMA BookingsFacts ==
  ASSUME Inv, NEW t, NEW l \in Limits
  PROVE  /\ DOMAIN Bookings(l) = DOMAIN handling
         /\ \A u \in DOMAIN handling : Bookings(l)[u] = Unbooked(u, l)
         /\ \A u \in DOMAIN handling : Bookings(l)[u] \in Nat
         /\ ValueAt(Bookings(l), t) = UnbookedBy(t, l)
         /\ UnbookedBy(t, l) \in Nat
<1>1. \A u \in DOMAIN handling : Unbooked(u, l) \in Nat
  BY UnbookedFacts
<1> QED
  BY <1>1 DEF Bookings, ValueAt, UnbookedBy

LEMMA BookStep ==
  ASSUME Inv, Inv', BookInv, NEW t, NEW l \in Limits,
         DOMAIN handling' \ {t} = DOMAIN handling \ {t},
         \A u \in DOMAIN handling \ {t} : handling'[u] = handling[u],
         used'[l] + lost'[l] + UnbookedBy(t, l)' + reported =
           used[l] + lost[l] + UnbookedBy(t, l) + reported'
  PROVE  IsFiniteSet(DOMAIN handling') /\ Balanced(l)'
<1> DEFINE now == Bookings(l)
           next == Bookings(l)'
<1>1. /\ DOMAIN now = DOMAIN handling
      /\ \A u \in DOMAIN now : now[u] \in Nat /\ now[u] = Unbooked(u, l)
      /\ ValueAt(now, t) = UnbookedBy(t, l)
      /\ UnbookedBy(t, l) \in Nat
  BY BookingsFacts
<1>2. /\ DOMAIN next = DOMAIN handling'
      /\ \A u \in DOMAIN next : next[u] \in Nat /\ next[u] = Unbooked(u, l)'
      /\ ValueAt(next, t) = UnbookedBy(t, l)'
      /\ UnbookedBy(t, l)' \in Nat
  <2>1. /\ \A u \in DOMAIN handling' : Unbooked(u, l)' \in Nat
    BY DEF Unbooked, Inv, TypeOK, Handler
  <2> QED
    BY <2>1 DEF Bookings, ValueAt, UnbookedBy
<1>3. \A u \in DOMAIN now \ {t} : next[u] = now[u]
  BY <1>1, <1>2 DEF Unbooked
<1>4. IsFiniteSet(DOMAIN now) /\ DOMAIN next \ {t} = DOMAIN now \ {t}
  BY <1>1, <1>2 DEF BookInv
<1>5. /\ SumFunction(now) \in Nat
      /\ SumFunction(next) \in Nat
      /\ SumFunction(now) - ValueAt(now, t) = SumFunction(next) - ValueAt(next, t)
  <2> HIDE DEF now, next
  <2> QED
    BY <1>1, <1>2, <1>3, <1>4, SumChanges
<1>6. used[l] + lost[l] + SumFunction(now) = reported
  BY DEF BookInv, Balanced
<1>7. /\ used[l] \in Nat /\ lost[l] \in Nat /\ reported \in Nat
      /\ used'[l] \in Nat /\ lost'[l] \in Nat /\ reported' \in Nat
  BY DEF Inv, TypeOK
<1>8. used'[l] + lost'[l] + SumFunction(next) = reported'
  <2> HIDE DEF now, next
  <2> QED
    BY <1>1, <1>2, <1>5, <1>6, <1>7
<1>9. Balanced(l)'
  BY <1>8 DEF Balanced
<1>10. IsFiniteSet(DOMAIN handling')
  <2>1. IsFiniteSet(DOMAIN handling \cup {t})
    BY FS_AddElement DEF BookInv
  <2>2. DOMAIN handling' \in SUBSET (DOMAIN handling \cup {t})
    OBVIOUS
  <2> QED
    BY <2>1, <2>2, FS_Subset
<1> QED
  BY <1>9, <1>10

(* What the handler of a step takes from the sum, the step books or loses. *)
LEMMA BookMove ==
  ASSUME Inv, BookInv, NEW t \in Tasks, HandlerKind(t), NEW l \in Limits
  PROVE  used'[l] + lost'[l] + UnbookedBy(t, l)' + reported =
           used[l] + lost[l] + UnbookedBy(t, l) + reported'
<1>1. t \in DOMAIN handling
  BY OthersKept
<1>2. /\ used \in [Limits -> Nat] /\ lost \in [Limits -> Nat] /\ reported \in Nat
      /\ used[l] \in Nat /\ lost[l] \in Nat
      /\ handling \in [DOMAIN handling -> Handler]
      /\ handling[t].amount \in Nat
  BY <1>1 DEF Inv, TypeOK, Handler
<1>3. CASE \/ MarkVerified(t) \/ MarkCancelled(t) \/ PutAmount(t)
           \/ RejectExpired(t) \/ CatchRecord(t)
  <2>1. /\ UNCHANGED <<used, lost, reported>>
        /\ t \notin DOMAIN handling'
        /\ handling[t].pc \notin BookPc
    BY <1>3 DEF MarkVerified, MarkCancelled, PutAmount, RejectExpired,
       CatchRecord, handleVars, executeVars, stepVars, Finish, Without, HandlerAt, BookPc
  <2> QED
    BY <1>1, <1>2, <2>1 DEF UnbookedBy, Unbooked
<1>4. CASE \/ MarkExecuting(t) \/ CreateRecord(t) \/ FailOrder(t)
           \/ FailRecord(t) \/ CatchOrder(t)
  <2>1. /\ UNCHANGED <<used, lost, reported>>
        /\ DOMAIN handling' = DOMAIN handling
        /\ handling[t].pc \notin BookPc
        /\ handling'[t].pc \notin BookPc
    BY <1>1, <1>2, <1>4 DEF MarkExecuting, CreateRecord, FailOrder, FailRecord,
       CatchOrder, executeVars, stepVars, Go, HandlerAt, BookPc, Handler
  <2> QED
    BY <1>1, <1>2, <2>1 DEF UnbookedBy, Unbooked
<1>5. CASE CompleteOrder(t) \/ CompleteRecord(t)
  <2>1. /\ UNCHANGED <<used, lost, reported>>
        /\ DOMAIN handling' = DOMAIN handling
        /\ handling[t].pc \in BookPc
        /\ handling'[t].pc \in BookPc
        /\ handling'[t].amount = handling[t].amount
        /\ handling'[t].left = handling[t].left
    BY <1>1, <1>2, <1>5 DEF CompleteOrder, CompleteRecord, executeVars, stepVars, Go,
       HandlerAt, BookPc, Handler
  <2> QED
    BY <1>1, <1>2, <2>1 DEF UnbookedBy, Unbooked
<1>6. ASSUME NEW executed \in BOOLEAN, NEW answered \in BOOLEAN,
             CallProvider(t, executed, answered)
      PROVE  used'[l] + lost'[l] + UnbookedBy(t, l)' + reported =
               used[l] + lost[l] + UnbookedBy(t, l) + reported'
  <2>1. /\ UNCHANGED <<used, lost>>
        /\ handling[t].pc = "provider"
        /\ \/ reported' = reported + handling[t].amount /\ Go(t, "complete")
           \/ reported' = reported /\ Go(t, "fail")
    BY <1>6 DEF CallProvider, executeVars, stepVars, HandlerAt
  <2>2. /\ DOMAIN handling' = DOMAIN handling
        /\ handling'[t].amount = handling[t].amount
        /\ \/ reported' = reported + handling[t].amount /\ handling'[t].pc = "complete"
           \/ reported' = reported /\ handling'[t].pc = "fail"
    BY <1>1, <1>2, <2>1 DEF Go, Handler
  <2>3. handling[t].left = Limits /\ handling'[t].left = Limits
    <3>1. handling[t].left = Limits
      BY <1>1, <2>1 DEF BookInv, LeftInv, CatchPc
    <3> QED
      BY <1>1, <1>2, <2>1, <3>1 DEF Go, Handler
  <2> QED
    BY <1>1, <1>2, <2>1, <2>2, <2>3 DEF UnbookedBy, Unbooked, BookPc
<1>7. CASE UpdateOrderLimits(t)
  <2>1. /\ UNCHANGED <<lost, reported>>
        /\ handling[t].pc \in BookPc
    BY <1>7, BookedFacts DEF UpdateOrderLimits, BookPc, executeVars, stepVars
  <2>2. CASE handling[t].left = {} /\ Finish(t) /\ used' = used
    BY <1>1, <1>2, <2>1, <2>2 DEF UnbookedBy, Unbooked, Finish, Without
  <2>3. ASSUME NEW k \in handling[t].left, k \in Limits,
               used' = [used EXCEPT ![k] = @ + handling[t].amount],
               \/ handling[t].left = {k} /\ Finish(t)
               \/ handling' = [handling EXCEPT ![t].left = @ \ {k}]
        PROVE  used'[l] + lost'[l] + UnbookedBy(t, l)' + reported =
                 used[l] + lost[l] + UnbookedBy(t, l) + reported'
    <3>1. used'[l] = IF l = k THEN used[l] + handling[t].amount ELSE used[l]
      BY <1>2, <2>3
    <3>2. UnbookedBy(t, l) = IF l \in handling[t].left THEN handling[t].amount ELSE 0
      BY <1>1, <2>1 DEF UnbookedBy, Unbooked
    <3>3. UnbookedBy(t, l)' = IF l \in handling[t].left \ {k} THEN handling[t].amount
                                                             ELSE 0
      <4>1. CASE handling[t].left = {k} /\ Finish(t)
        BY <4>1 DEF UnbookedBy, Finish, Without
      <4>2. CASE handling' = [handling EXCEPT ![t].left = @ \ {k}]
        <5>1. /\ t \in DOMAIN handling'
              /\ handling'[t] = [handling[t] EXCEPT !.left = @ \ {k}]
          BY <1>1, <4>2
        <5>2. /\ handling'[t].pc = handling[t].pc
              /\ handling'[t].amount = handling[t].amount
              /\ handling'[t].left = handling[t].left \ {k}
          BY <1>1, <1>2, <5>1 DEF Handler
        <5> QED
          BY <2>1, <5>1, <5>2 DEF UnbookedBy, Unbooked
      <4> QED
        BY <2>3, <4>1, <4>2
    <3> QED
      BY <1>2, <2>1, <2>3, <3>1, <3>2, <3>3
  <2> QED
    BY <1>7, <2>2, <2>3, BookedFacts
<1>8. CASE TryThrows(t) \/ HandlerDies(t)
  <2>1. /\ UNCHANGED <<used, reported>>
        /\ lost'[l] = lost[l] + Unbooked(t, l)
        /\ Unbooked(t, l) \in Nat
    BY <1>1, <1>8, UnbookedFacts DEF TryThrows, HandlerDies, worldVars
  <2>2. UnbookedBy(t, l)' = 0
    BY <1>1, <1>2, <1>8 DEF TryThrows, HandlerDies, Go, Finish, Without, UnbookedBy,
       Unbooked, BookPc, Handler
  <2> QED
    BY <1>1, <1>2, <2>1, <2>2 DEF UnbookedBy
<1> QED
  BY <1>3, <1>4, <1>5, <1>6, <1>7, <1>8 DEF HandlerKind, HandlerStep

LEMMA BookNext ==
  ASSUME Inv, Inv', BookInv, [Next]_vars
  PROVE  BookInv'
<1>1. ASSUME NEW t \in Tasks, HandlerKind(t) PROVE BookInv'
  <2>1. /\ DOMAIN handling' \ {t} = DOMAIN handling \ {t}
        /\ \A u \in DOMAIN handling \ {t} : handling'[u] = handling[u]
    BY <1>1, OthersKept
  <2>2. \A l \in Limits : Balanced(l)'
    BY <1>1, <2>1, BookMove, BookStep
  <2>3. IsFiniteSet(DOMAIN handling')
    <3>1. DOMAIN handling' \in SUBSET DOMAIN handling
      BY <1>1, OthersKept
    <3> QED
      BY <3>1, FS_Subset DEF BookInv
  <2> QED
    BY <2>2, <2>3, LeftNext DEF BookInv
<1>2. ASSUME UNCHANGED <<handling, used, lost, reported>> PROVE BookInv'
  BY <1>2 DEF BookInv, LeftInv, Balanced, Bookings, Unbooked
<1>3. ASSUME NEW t \in Tasks, CreateKind(t) PROVE BookInv'
  <2>1. UNCHANGED <<handling, used, lost, reported>>
    BY <1>3 DEF CreateKind, CreateStep, DropExpiredKey, CheckOrderLimits,
       InsertOrder, InsertDuplicate, StoreIdempotencyKey, Respond, CreateDies,
       CreateOrder, createVars, worldVars
  <2> QED
    BY <1>2, <2>1
<1>4. ASSUME NEW t \in Tasks, NEW o \in OrderIds, RequestKind(t, o)
      PROVE  BookInv'
  <2>1. UNCHANGED <<used, lost, reported>>
    BY <1>4 DEF RequestKind, VerifyOrder, CancelOrder, UpdateOrder,
       ExecuteOrder, RunImmediate, handleVars, executeVars
  <2>2. \/ handling' = handling
        \/ /\ t \notin DOMAIN handling
           /\ DOMAIN handling' = DOMAIN handling \cup {t}
           /\ handling'[t].pc \in {"cancel", "update", "markVerified"} \cup BeforeRunPc
           /\ \A u \in DOMAIN handling : handling'[u] = handling[u]
    BY <1>4, RequestFrame DEF RequestKind
  <2>3. CASE handling' = handling
    BY <1>2, <2>1, <2>3
  <2>4. CASE handling' # handling
    <3>1. ASSUME NEW l \in Limits
          PROVE  used'[l] + lost'[l] + UnbookedBy(t, l)' + reported =
                   used[l] + lost[l] + UnbookedBy(t, l) + reported'
      <4>1. UnbookedBy(t, l)' = 0 /\ UnbookedBy(t, l) = 0
        BY <2>2, <2>4 DEF UnbookedBy, Unbooked, BookPc, BeforeRunPc
      <4> QED
        BY <2>1, <4>1
    <3>2. /\ DOMAIN handling' \ {t} = DOMAIN handling \ {t}
          /\ \A u \in DOMAIN handling \ {t} : handling'[u] = handling[u]
      BY <2>2, <2>4
    <3>3. \A l \in Limits : Balanced(l)'
      BY <3>1, <3>2, BookStep
    <3>4. IsFiniteSet(DOMAIN handling')
      BY <2>2, <2>4, FS_AddElement DEF BookInv
    <3> QED
      BY <3>3, <3>4, LeftNext DEF BookInv
  <2> QED
    BY <2>3, <2>4
<1>5. CASE WorldKind
  <2>1. UNCHANGED <<handling, used, lost, reported>>
    BY <1>5 DEF WorldKind, ExpireOrder, ImmediateDropped, ExpireKey, worldVars, vars
  <2> QED
    BY <1>2, <2>1
<1> QED
  BY <1>1, <1>3, <1>4, <1>5, StepKinds

(* Every amount the provider reported as executed is booked against each    *)
(* limit once, is about to be, or was cut off by a fault, for any number of *)
(* handlers in flight, limits and amounts (updateOrderLimits).              *)
THEOREM LimitsAreBookedOnceHolds == Spec => []LimitsAreBookedOnce
<1>1. Init => BookInv
  <2>1. SUFFICES ASSUME Init PROVE BookInv
    OBVIOUS
  <2>2. DOMAIN handling = {} /\ reported = 0
        /\ \A l \in Limits : used[l] = 0 /\ lost[l] = 0
    BY <2>1 DEF Init
  <2>3. IsFiniteSet(DOMAIN handling)
    BY <2>2, FS_EmptySet
  <2>4. ASSUME NEW l \in Limits PROVE SumFunction(Bookings(l)) = 0
    <3>1. DOMAIN Bookings(l) = {}
      BY <2>2 DEF Bookings
    <3> QED
      BY <3>1, SumEmpty DEF SumFunction
  <2> QED
    BY <2>2, <2>3, <2>4 DEF BookInv, LeftInv, Balanced
<1>2. BookInv => LimitsAreBookedOnce
  BY DEF BookInv, Balanced, Bookings, LimitsAreBookedOnce
<1> QED
  BY <1>1, <1>2, BookNext, InvHolds, PTL DEF Spec

-----------------------------------------------------------------------------
(* The refinement: while a single handler holds an order, the status it has *)
(* read is still the status of the row when it writes.                      *)

(* A handler and the row of its order, between two of its awaits. *)
AgreesWith(pc, status, filled) ==
  /\ pc = "markVerified" => status = "pending_verification"
  /\ pc \in {"cancel", "update"} => status \in PendingStatus
  /\ pc \in BeforeRunPc => status = "pending_execution"
  /\ pc \in {"createRecord", "provider"} => status = "executing" /\ ~ filled
  /\ pc \in {"complete", "fail"} => status = "executing"
  /\ pc \in {"completeRecord", "bookLimits"} => status = "completed"
  /\ pc \in {"failRecord", "catchRecord"} => status = "failed"
  /\ pc = "catchOrder" => status \in {"executing", "completed", "failed"}

Serial(o) == o \in Placed \ overlapped

SerialInv ==
  /\ overlapped \subseteq Placed
  /\ \A o \in Placed : Serial(o) /\ orders[o].status \in PendingStatus => fills[o] = 0
  /\ \A t \in DOMAIN handling : Serial(handling[t].order) =>
       /\ AgreesWith(handling[t].pc, orders[handling[t].order].status,
                     fills[handling[t].order] > 0)
       /\ \A u \in DOMAIN handling : handling[u].order = handling[t].order => u = t

(* The variables of the abstract specification. *)
LifeStatus == [o \in OrderIds |-> IF o \notin Placed THEN "absent"
                                  ELSE IF o \in overlapped THEN "disputed"
                                  ELSE orders[o].status]
LifeExecuted == {o \in OrderIds \ overlapped : fills[o] > 0}

(* The moves of one order in the abstract specification. *)
Forward(from, to) ==
  \/ from = "absent" /\ to \in PendingStatus
  \/ from = "pending_verification" /\ to = "pending_execution"
  \/ from \in PendingStatus /\ to = "cancelled"
  \/ from = "pending_execution" /\ to \in {"rejected", "executing"}
  \/ from = "executing" /\ to = "completed"
  \/ from \in {"executing", "completed"} /\ to = "failed"

LEMMA LifeMove ==
  ASSUME NEW o \in OrderIds, NEW to,
         LifeStatus' = [LifeStatus EXCEPT ![o] = to],
         LifeExecuted' = LifeExecuted,
         Forward(LifeStatus[o], to)
  PROVE  Lifecycle!LifecycleNext
BY DEF Lifecycle!LifecycleNext, Lifecycle!Place, Lifecycle!Verify, Lifecycle!Cancel,
   Lifecycle!Expire, Lifecycle!Start, Lifecycle!Complete, Lifecycle!Fail,
   Lifecycle!Move, Lifecycle!Pending, LifeStatus, LifeExecuted, Forward, PendingStatus

LEMMA LifeExecute ==
  ASSUME NEW o \in OrderIds, LifeStatus[o] = "executing", o \notin LifeExecuted,
         LifeStatus' = LifeStatus, LifeExecuted' = LifeExecuted \cup {o}
  PROVE  Lifecycle!LifecycleNext
BY DEF Lifecycle!LifecycleNext, Lifecycle!ExecuteOnce, LifeStatus, LifeExecuted

LEMMA LifeDispute ==
  ASSUME NEW o \in OrderIds, LifeStatus[o] # "absent",
         LifeStatus' = [LifeStatus EXCEPT ![o] = "disputed"],
         LifeExecuted' = LifeExecuted \ {o}
  PROVE  Lifecycle!LifecycleNext
BY DEF Lifecycle!LifecycleNext, Lifecycle!Dispute, LifeStatus, LifeExecuted

LEMMA LifeStutter ==
  ASSUME LifeStatus' = LifeStatus, LifeExecuted' = LifeExecuted
  PROVE  UNCHANGED Lifecycle!lvars
BY DEF Lifecycle!lvars, LifeStatus, LifeExecuted

(* What one step of a handler does to the row of its order. *)
Advances(o) ==
  \/ /\ orders'[o].status = orders[o].status \/ Forward(orders[o].status, orders'[o].status)
     /\ fills'[o] = fills[o]
  \/ /\ orders'[o].status = orders[o].status /\ orders[o].status = "executing"
     /\ fills[o] = 0 /\ fills'[o] = 1

LEMMA HandlerLife ==
  ASSUME Inv, SerialInv, NEW t \in Tasks, HandlerKind(t),
         NEW o \in OrderIds, o = handling[t].order, Serial(o)
  PROVE  /\ Advances(o)
         /\ orders'[o].status \in PendingStatus => fills'[o] = 0
         /\ t \in DOMAIN handling' =>
              AgreesWith(handling'[t].pc, orders'[o].status, fills'[o] > 0)
<1> USE DEF HandlerAt
<1>1. /\ t \in DOMAIN handling
      /\ o \in Placed
      /\ orders \in [Placed -> Row]
      /\ orders[o] \in Row
      /\ handling[t] \in Handler
      /\ fills \in [OrderIds -> Nat]
      /\ fills[o] \in Nat
  BY OthersKept DEF Inv, TypeOK
<1>2. /\ AgreesWith(handling[t].pc, orders[o].status, fills[o] > 0)
      /\ orders[o].status \in PendingStatus => fills[o] = 0
  BY <1>1 DEF SerialInv, Serial
<1>3. ASSUME NEW pc, Go(t, pc)
      PROVE  t \in DOMAIN handling' /\ handling'[t].pc = pc
  BY <1>1, <1>3 DEF Go, Handler
<1>4. Finish(t) => t \notin DOMAIN handling'
  BY DEF Finish, Without
<1>5. ASSUME NEW s, SetStatus(o, s)
      PROVE  orders'[o].status = s
  BY <1>1, <1>5 DEF SetStatus, Row
<1>6. CASE MarkVerified(t) \/ MarkCancelled(t) \/ PutAmount(t) \/ RejectExpired(t)
  <2>1. Finish(t) /\ fills' = fills
    BY <1>6 DEF MarkVerified, MarkCancelled, PutAmount, RejectExpired, handleVars
  <2>2. \/ orders[o].status = "pending_verification" /\ orders'[o].status = "pending_execution"
        \/ orders[o].status \in PendingStatus /\ orders'[o].status = "cancelled"
        \/ orders'[o].status = orders[o].status
        \/ orders[o].status = "pending_execution" /\ orders'[o].status = "rejected"
    <3>1. CASE MarkVerified(t)
      BY <1>1, <1>2, <3>1 DEF MarkVerified, AgreesWith, Row
    <3>2. CASE MarkCancelled(t)
      BY <1>1, <1>2, <1>5, <3>2 DEF MarkCancelled, AgreesWith
    <3>3. CASE PutAmount(t)
      BY <1>1, <3>3 DEF PutAmount, Row
    <3>4. CASE RejectExpired(t)
      BY <1>1, <1>2, <1>5, <3>4 DEF RejectExpired, AgreesWith, BeforeRunPc
    <3>5. QED
      BY <1>6, <3>1, <3>2, <3>3, <3>4
  <2>3. QED
    BY <1>2, <1>4, <2>1, <2>2 DEF Advances, Forward, PendingStatus
<1>7. CASE \/ MarkExecuting(t) \/ CompleteOrder(t) \/ FailOrder(t) \/ CatchOrder(t)
  <2>1. /\ fills' = fills
        /\ \/ /\ handling[t].pc = "markExecuting" /\ Go(t, "createRecord")
              /\ SetStatus(o, "executing")
           \/ /\ handling[t].pc = "complete" /\ Go(t, "completeRecord")
              /\ SetStatus(o, "completed")
           \/ /\ handling[t].pc = "fail" /\ Go(t, "failRecord") /\ SetStatus(o, "failed")
           \/ /\ handling[t].pc = "catchOrder" /\ Go(t, "catchRecord")
              /\ SetStatus(o, "failed")
    BY <1>7 DEF MarkExecuting, CompleteOrder, FailOrder, CatchOrder
  <2>2. QED
    BY <1>1, <1>2, <1>3, <1>5, <2>1 DEF Advances, Forward, AgreesWith, PendingStatus,
       BeforeRunPc
<1>8. CASE CreateRecord(t) \/ CompleteRecord(t) \/ FailRecord(t) \/ CatchRecord(t)
  <2>1. orders' = orders /\ fills' = fills
    BY <1>8 DEF CreateRecord, CompleteRecord, FailRecord, CatchRecord
  <2>2. t \in DOMAIN handling' =>
          \/ handling[t].pc = "createRecord" /\ handling'[t].pc = "provider"
          \/ handling[t].pc = "completeRecord" /\ handling'[t].pc = "bookLimits"
          \/ handling[t].pc = "failRecord" /\ handling'[t].pc = "catchOrder"
    BY <1>8, RecordSteps DEF CreateRecord, CompleteRecord, FailRecord
  <2>3. QED
    BY <1>2, <2>1, <2>2 DEF Advances, AgreesWith, BeforeRunPc
<1>9. ASSUME NEW x \in BOOLEAN, NEW a \in BOOLEAN, CallProvider(t, x, a)
      PROVE  /\ Advances(o)
             /\ orders'[o].status \in PendingStatus => fills'[o] = 0
             /\ t \in DOMAIN handling' =>
                  AgreesWith(handling'[t].pc, orders'[o].status, fills'[o] > 0)
  <2>1. /\ handling[t].pc = "provider" /\ orders' = orders
        /\ Go(t, "complete") \/ Go(t, "fail")
        /\ fills' = fills \/ fills' = [fills EXCEPT ![o] = @ + 1]
    BY <1>9 DEF CallProvider
  <2>2. orders[o].status = "executing" /\ fills[o] = 0
    BY <1>1, <1>2, <2>1 DEF AgreesWith
  <2>3. fills'[o] = 0 \/ fills'[o] = 1
    BY <1>1, <2>1, <2>2
  <2>4. handling'[t].pc \in {"complete", "fail"}
    BY <1>3, <2>1
  <2>5. QED
    BY <2>1, <2>2, <2>3, <2>4 DEF Advances, AgreesWith, PendingStatus, BeforeRunPc
<1>10. CASE UpdateOrderLimits(t) \/ TryThrows(t) \/ HandlerDies(t)
  <2>1. orders' = orders /\ fills' = fills
    BY <1>10 DEF UpdateOrderLimits, TryThrows, HandlerDies, worldVars
  <2>2. t \in DOMAIN handling' =>
          \/ handling[t].pc \in TryPc /\ handling'[t].pc = "catchOrder"
          \/ handling[t].pc = "bookLimits" /\ handling'[t].pc = "bookLimits"
    <3>1. CASE UpdateOrderLimits(t)
      BY <1>1, <1>4, <3>1, BookedFacts DEF Handler
    <3>2. CASE TryThrows(t) \/ HandlerDies(t)
      BY <1>3, <1>4, <3>2 DEF TryThrows, HandlerDies
    <3>3. QED
      BY <1>10, <3>1, <3>2
  <2>3. QED
    BY <1>2, <2>1, <2>2 DEF Advances, AgreesWith, TryPc, BookPc, BeforeRunPc
<1>11. QED
  BY <1>6, <1>7, <1>8, <1>9, <1>10 DEF HandlerKind, HandlerStep

(* An order is placed: no handler holds it yet. *)
LEMMA InsertLife ==
  ASSUME Inv, SerialInv, NEW t \in Tasks, NEW o \in OrderIds, NEW totp \in BOOLEAN,
         InsertOrder(t, o, totp), UNCHANGED <<handling, fills, overlapped>>
  PROVE  SerialInv' /\ Lifecycle!LifecycleNext
<1>1. /\ o \notin Placed
      /\ Placed' = Placed \cup {o}
      /\ orders'[o].status \in PendingStatus
      /\ \A p \in Placed : orders'[p] = orders[p]
      /\ fills[o] = 0
      /\ \A u \in DOMAIN handling : handling[u].order # o
  BY InsertFacts
<1>2. \A u \in DOMAIN handling : handling[u].order \in Placed
  BY DEF Inv
<1>3. SerialInv'
  BY <1>1, <1>2 DEF SerialInv, Serial
<1>4. PICK to \in PendingStatus : orders'[o].status = to
  BY <1>1
<1>5. LifeStatus' = [LifeStatus EXCEPT ![o] = to] /\ LifeExecuted' = LifeExecuted
  BY <1>1, <1>4 DEF LifeStatus, LifeExecuted, SerialInv
<1>6. Forward(LifeStatus[o], to)
  BY <1>1 DEF LifeStatus, Forward
<1>7. QED
  BY <1>3, <1>5, <1>6, LifeMove

(* Only a request changes which orders two handlers have held at one time. *)
LEMMA OverlapFrame ==
  ASSUME Inv,
         \/ \E t \in Tasks : CreateKind(t) \/ HandlerKind(t)
         \/ WorldKind
  PROVE  overlapped' = overlapped
<1>1. ASSUME NEW t \in Tasks, CreateKind(t) PROVE overlapped' = overlapped
  BY <1>1 DEF CreateKind, CreateStep, DropExpiredKey, CheckOrderLimits,
     InsertOrder, InsertDuplicate, StoreIdempotencyKey, Respond, CreateDies,
     CreateOrder, createVars, worldVars
<1>2. ASSUME NEW t \in Tasks, HandlerKind(t) PROVE overlapped' = overlapped
  BY <1>2 DEF HandlerKind, HandlerStep, TryThrows, HandlerDies, MarkVerified,
     MarkCancelled, PutAmount, RejectExpired, MarkExecuting, CreateRecord,
     CallProvider, CompleteOrder, CompleteRecord, UpdateOrderLimits, FailOrder,
     FailRecord, CatchOrder, CatchRecord, stepVars, worldVars
<1>3. CASE WorldKind
  BY <1>3 DEF WorldKind, ExpireOrder, ImmediateDropped, ExpireKey, worldVars, vars
<1>4. QED
  BY <1>1, <1>2, <1>3

Mapped ==
  /\ SerialInv'
  /\ Lifecycle!LifecycleNext \/ UNCHANGED Lifecycle!lvars

LEMMA HandlerMapped ==
  ASSUME Inv, SerialInv, NEW t \in Tasks, HandlerKind(t),
         NEW o \in OrderIds, o = handling[t].order
  PROVE  Mapped
<1>1. /\ t \in DOMAIN handling /\ o \in Placed
      /\ Placed' = Placed /\ Placed \subseteq OrderIds
      /\ DOMAIN handling' \subseteq DOMAIN handling
      /\ \A p \in Placed : p # o => orders'[p] = orders[p]
      /\ overlapped' = overlapped
  BY OthersKept, OverlapFrame DEF Inv, TypeOK
<1>2. \A u \in DOMAIN handling' :
         /\ handling'[u].order = handling[u].order
         /\ u # t => handling'[u] = handling[u]
  BY HandlerFrame DEF HandlerKind
<1>3. \A p \in OrderIds : p # o => fills'[p] = fills[p]
  <2>1. fills' = fills \/ \E x, a \in BOOLEAN : CallProvider(t, x, a)
    BY DEF HandlerKind, HandlerStep, TryThrows, HandlerDies, MarkVerified,
       MarkCancelled, PutAmount, RejectExpired, MarkExecuting, CreateRecord,
       CompleteOrder, CompleteRecord, UpdateOrderLimits, FailOrder, FailRecord,
       CatchOrder, CatchRecord, worldVars, handleVars
  <2>2. QED
    BY <2>1 DEF CallProvider, Inv, TypeOK
<1>4. Serial(o) => /\ Advances(o)
                   /\ orders'[o].status \in PendingStatus => fills'[o] = 0
                   /\ t \in DOMAIN handling' =>
                        AgreesWith(handling'[t].pc, orders'[o].status, fills'[o] > 0)
  BY HandlerLife
<1>5. SerialInv'
  <2>1. overlapped' \subseteq Placed' /\ \A p : Serial(p)' <=> Serial(p)
    BY <1>1 DEF SerialInv, Serial
  <2>2. \A p \in Placed' : Serial(p)' /\ orders'[p].status \in PendingStatus
                           => fills'[p] = 0
    BY <1>1, <1>3, <1>4, <2>1 DEF SerialInv
  <2>3. ASSUME NEW u \in DOMAIN handling', handling'[u].order \in Placed' \ overlapped'
        PROVE  /\ AgreesWith(handling'[u].pc, orders'[handling'[u].order].status,
                             fills'[handling'[u].order] > 0)
               /\ \A v \in DOMAIN handling' :
                    handling'[v].order = handling'[u].order => v = u
    <3>1. /\ u \in DOMAIN handling /\ Serial(handling[u].order)
          /\ handling'[u].order = handling[u].order
      BY <1>1, <1>2, <2>3 DEF Serial
    <3>2. /\ \A v \in DOMAIN handling : handling[v].order = handling[u].order => v = u
          /\ AgreesWith(handling[u].pc, orders[handling[u].order].status,
                        fills[handling[u].order] > 0)
      BY <3>1 DEF SerialInv
    <3>3. CASE u = t
      BY <1>1, <1>2, <1>4, <3>1, <3>2, <3>3
    <3>4. CASE u # t
      <4>1. handling[u].order # o /\ handling[u].order \in Placed
        BY <1>1, <3>1, <3>2, <3>4 DEF Inv
      <4>2. QED
        BY <1>1, <1>2, <1>3, <3>1, <3>2, <3>4, <4>1
    <3>5. QED
      BY <3>3, <3>4
  <2>4. QED
    BY <2>1, <2>2, <2>3 DEF SerialInv, Serial
<1>6. CASE ~ Serial(o)
  <2>1. LifeStatus' = LifeStatus /\ LifeExecuted' = LifeExecuted
    BY <1>1, <1>3, <1>6 DEF LifeStatus, LifeExecuted, Serial
  <2>2. QED
    BY <1>5, <2>1, LifeStutter DEF Mapped
<1>7. CASE Serial(o)
  <2>1. /\ fills \in [OrderIds -> Nat]
        /\ LifeStatus[o] = orders[o].status
        /\ \A to : orders'[o].status = to => LifeStatus' = [LifeStatus EXCEPT ![o] = to]
    BY <1>1, <1>7 DEF LifeStatus, Serial, Inv, TypeOK
  <2>2. ASSUME fills'[o] = fills[o]
        PROVE  LifeExecuted' = LifeExecuted
    BY <1>1, <1>3, <2>2 DEF LifeExecuted
  <2>3. ASSUME orders'[o].status = orders[o].status
        PROVE  LifeStatus' = LifeStatus
    BY <1>1, <2>3 DEF LifeStatus
  <2>4. ASSUME NEW to, orders'[o].status = to, Forward(orders[o].status, to),
               fills'[o] = fills[o]
        PROVE  Lifecycle!LifecycleNext
    BY <2>1, <2>2, <2>4, LifeMove
  <2>5. ASSUME orders'[o].status = orders[o].status, orders[o].status = "executing",
               fills[o] = 0, fills'[o] = 1
        PROVE  Lifecycle!LifecycleNext
    <3>1. o \notin LifeExecuted /\ LifeExecuted' = LifeExecuted \cup {o}
      BY <1>1, <1>3, <1>7, <2>5 DEF LifeExecuted, Serial
    <3>2. QED
      BY <2>1, <2>3, <2>5, <3>1, LifeExecute
  <2>6. ASSUME orders'[o].status = orders[o].status, fills'[o] = fills[o]
        PROVE  UNCHANGED Lifecycle!lvars
    BY <2>2, <2>3, <2>6, LifeStutter
  <2>7. QED
    BY <1>4, <1>5, <1>7, <2>4, <2>5, <2>6 DEF Advances, Mapped
<1>8. QED
  BY <1>6, <1>7

(* A request for an order nobody holds leaves it what it is; for an order *)
(* somebody holds, it makes it disputed.                                  *)
LEMMA RequestMapped ==
  ASSUME Inv, SerialInv, NEW t \in Tasks, NEW o \in OrderIds, RequestKind(t, o)
  PROVE  Mapped
<1>1. UNCHANGED <<orders, fills>>
  BY RequestFrame DEF RequestKind
<1>2. ASSUME NEW pc, NEW a, Begin(t, pc, o, a)
      PROVE  /\ DOMAIN handling' = DOMAIN handling \cup {t}
             /\ t \notin DOMAIN handling
             /\ \A u \in DOMAIN handling : handling'[u] = handling[u]
             /\ handling'[t].order = o
             /\ handling'[t].pc = pc
             /\ \/ overlapped' = overlapped \cup {o}
                \/ /\ overlapped' = overlapped
                   /\ \A u \in DOMAIN handling : handling[u].order # o
  BY <1>2 DEF Begin, Free, Put
<1>3. \/ UNCHANGED <<handling, overlapped>>
      \/ /\ DOMAIN handling' = DOMAIN handling \cup {t}
         /\ t \notin DOMAIN handling
         /\ \A u \in DOMAIN handling : handling'[u] = handling[u]
         /\ handling'[t].order = o
         /\ o \in Placed
         /\ \/ /\ handling'[t].pc = "markVerified"
               /\ orders[o].status = "pending_verification"
            \/ handling'[t].pc \in {"cancel", "update"} /\ orders[o].status \in PendingStatus
            \/ handling'[t].pc \in BeforeRunPc /\ orders[o].status = "pending_execution"
         /\ \/ overlapped' = overlapped \cup {o}
            \/ /\ overlapped' = overlapped
               /\ \A u \in DOMAIN handling : handling[u].order # o
  <2>1. CASE \E c \in BOOLEAN : VerifyOrder(t, o, c)
    BY <1>2, <2>1 DEF VerifyOrder, HasStatus
  <2>2. CASE CancelOrder(t, o) \/ \E a \in NewAmounts : UpdateOrder(t, o, a)
    BY <1>2, <2>2 DEF CancelOrder, UpdateOrder, IsPending
  <2>3. CASE ExecuteOrder(t, o) \/ RunImmediate(t, o)
    <3>1. UNCHANGED <<handling, overlapped>> \/ (CanExecute(o) /\ BeginExecute(t, o))
      BY <2>3 DEF ExecuteOrder, RunImmediate
    <3>2. QED
      BY <1>2, <3>1 DEF CanExecute, HasStatus, BeginExecute, BeforeRunPc
  <2>4. QED
    BY <2>1, <2>2, <2>3 DEF RequestKind
<1>4. SerialInv'
  BY <1>1, <1>3 DEF SerialInv, Serial, AgreesWith, BeforeRunPc
<1>5. CASE overlapped' = overlapped
  BY <1>1, <1>4, <1>5, LifeStutter DEF LifeStatus, LifeExecuted, Mapped
<1>6. CASE o \in Placed /\ overlapped' = overlapped \cup {o}
  <2>1. /\ LifeStatus[o] # "absent"
        /\ LifeStatus' = [LifeStatus EXCEPT ![o] = "disputed"]
        /\ LifeExecuted' = LifeExecuted \ {o}
    <3>1. orders \in [Placed -> Row] /\ orders[o].status \in Status
      BY <1>6 DEF Inv, TypeOK, Row
    <3>2. LifeStatus[o] # "absent"
      BY <1>6, <3>1 DEF LifeStatus, Status, PendingStatus, TerminalStatus
    <3>3. QED
      BY <1>1, <1>6, <3>2 DEF LifeStatus, LifeExecuted
  <2>2. QED
    BY <1>4, <2>1, LifeDispute DEF Mapped
<1>7. QED
  BY <1>3, <1>5, <1>6

LEMMA SerialNext ==
  ASSUME Inv, SerialInv, [Next]_vars
  PROVE  Mapped
<1>1. ASSUME NEW t \in Tasks, CreateKind(t)
      PROVE  Mapped
  <2>1. /\ UNCHANGED <<handling, fills, overlapped>>
        /\ \/ orders' = orders
           \/ \E o \in OrderIds, totp \in BOOLEAN : InsertOrder(t, o, totp)
    BY <1>1, CreateFrame, OverlapFrame DEF CreateKind
  <2>2. ASSUME NEW o \in OrderIds, NEW totp \in BOOLEAN, InsertOrder(t, o, totp)
        PROVE  Mapped
    BY <2>1, <2>2, InsertLife DEF Mapped
  <2>3. CASE orders' = orders
    BY <2>1, <2>3, LifeStutter DEF SerialInv, Serial, LifeStatus, LifeExecuted, Mapped
  <2>4. QED
    BY <2>1, <2>2, <2>3
<1>2. ASSUME NEW t \in Tasks, HandlerKind(t)
      PROVE  Mapped
  <2>1. \E o \in OrderIds : o = handling[t].order
    BY <1>2, OthersKept
  <2>2. QED
    BY <1>2, <2>1, HandlerMapped
<1>3. ASSUME NEW t \in Tasks, NEW o \in OrderIds, RequestKind(t, o)
      PROVE  Mapped
  BY <1>3, RequestMapped
<1>4. CASE WorldKind
  <2>1. UNCHANGED <<orders, handling, fills, overlapped>>
    BY <1>4, WorldFrame, OverlapFrame DEF WorldKind
  <2>2. QED
    BY <2>1, LifeStutter DEF SerialInv, Serial, LifeStatus, LifeExecuted, Mapped
<1>5. QED
  BY <1>1, <1>2, <1>3, <1>4, StepKinds

(* Whatever fails, whichever answer is lost and however the requests for   *)
(* other orders interleave, the tables implement the lifecycle of the user *)
(* guide for every order of which no two handlers overlapped: a status     *)
(* only moves forward, and the provider executes the order at most once.   *)
THEOREM ImplementsLifecycle == Spec => LifecycleSpec
<1>1. Init => SerialInv /\ Lifecycle!LifecycleInit
  BY DEF Init, SerialInv, Lifecycle!LifecycleInit
<1>2. Inv /\ SerialInv /\ [Next]_vars
        => SerialInv' /\ [Lifecycle!LifecycleNext]_(Lifecycle!lvars)
  BY SerialNext DEF Mapped
<1>3. QED
  BY <1>1, <1>2, InvHolds, PTL DEF Spec, LifecycleSpec, Lifecycle!LifecycleSpec

=============================================================================
