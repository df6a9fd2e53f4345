-------------------------- MODULE TransactionOrders --------------------------
(***************************************************************************)
(* The life of a transaction order in the API: TransactionExecutionService *)
(* (apps/api/src/modules/transaction-execution) over the tables            *)
(* transaction_orders, idempotency_keys, order_executions and order_limits *)
(* and an external execution provider.                                     *)
(*                                                                         *)
(* A handler is an async function: between two awaited database calls any  *)
(* other handler, of this replica or of another one, may run.  Every       *)
(* awaited read or write that another handler can interfere with is        *)
(* therefore an action of its own, and what a handler has read is kept in  *)
(* its task record until it writes.  No handler uses a database            *)
(* transaction or a conditional update.                                    *)
(***************************************************************************)
EXTENDS Integers, FiniteSets, Functions

CONSTANTS
  OrderIds,   \* ids a new row of transaction_orders may get
  NoOrder,    \* not an order id
  Keys,       \* idempotency keys the clients choose
  Bodies,     \* request bodies of createOrder
  NewAmounts, \* amounts a client may put with updateOrder
  Tasks,      \* handlers that may be in flight at once, over all replicas
  Threshold,  \* HIGH_VALUE_THRESHOLD
  Currencies,
  Limits,     \* the user's rows of order_limits that apply to the orders
  CurrencyOf, \* currency of each limit
  MaxAmount,  \* maxAmount of each limit
  MaxFaults   \* bound on failed database calls and replica restarts

(* dry: dryRun; auto: autoExecute; sensitive: the type is sell or withdraw *)
Body == [amount : Nat, currency : Currencies, sensitive : BOOLEAN,
         dry : BOOLEAN, auto : BOOLEAN]

ASSUME ConstantsAssumption ==
  /\ NoOrder \notin OrderIds
  /\ Bodies \subseteq Body
  /\ NewAmounts \subseteq Nat
  /\ Threshold \in Nat
  /\ CurrencyOf \in [Limits -> Currencies]
  /\ MaxAmount \in [Limits -> Nat]
  /\ MaxFaults \in Nat

VARIABLES
  orders,     \* transaction_orders: id -> row, over the rows that exist
  idem,       \* idempotency_keys: key -> row, over the rows that exist
  executions, \* order_executions: per order, how many rows have each status
  used,       \* usedAmount of each order limit
  immediates, \* per order, callbacks setImmediate has queued to execute it
  creating,   \* createOrder handlers in flight: task -> what it has read
  handling,   \* the other handlers in flight: task -> what it has read
  fills,      \* (external) per order, how often the provider really executed it
  aged,       \* orders whose expiresAt, one day after creation, has passed
  faults,     \* failed database calls and restarts so far
  \* History variables: what happened, read by the properties only.
  gated,      \* orders that were created pending_verification
  proved,     \* orders for which a valid OTP code was presented
  reported,   \* total amount of the runs the provider reported as a success
  lost,       \* per limit, the part of it whose booking a fault cut off
  orphans,    \* orders a handler that owned the execution died on
  overlapped  \* orders that two handlers have held at one time

vars == <<orders, idem, executions, used, immediates, creating, handling,
          fills, aged, faults, gated, proved, reported, lost, orphans,
          overlapped>>

-----------------------------------------------------------------------------
(* The rows, and the handlers in flight. *)

PendingStatus == {"pending_verification", "pending_execution"}
TerminalStatus == {"completed", "failed", "cancelled", "rejected"}
Status == PendingStatus \cup {"executing"} \cup TerminalStatus

Row == [status : Status, key : Keys, body : Bodies, amount : Nat,
        otpVerified : BOOLEAN]

KeyRow == [body : Bodies, order : OrderIds, expired : BOOLEAN]

(* A createOrder handler: pc is the call it awaits next, or its answer. *)
CreatePc == {"dropKey", "limits", "insert", "storeKey"}
Answer == {"ok", "conflict", "refused", "duplicate", "error"}
CreateTask == [pc : CreatePc \cup Answer, key : Keys, body : Bodies,
               order : OrderIds \cup {NoOrder}]

(* Where executeOrder is between its awaits: before the row says executing, *)
(* inside its try block, and inside its catch block.                        *)
BeforeRunPc == {"reject", "markExecuting"}
BookPc == {"complete", "completeRecord", "bookLimits"}
TryPc == BookPc \cup {"fail", "failRecord"}
CatchPc == {"catchOrder", "catchRecord"}
OwnerPc == {"createRecord", "provider"} \cup TryPc \cup CatchPc
(* The handler has yet to write how the execution ended into the order row. *)
WillWritePc == {"createRecord", "provider", "complete", "fail", "catchOrder"}
HandlerPc == {"markVerified", "cancel", "update"} \cup BeforeRunPc \cup OwnerPc

RecordStatus == {"executing", "completed", "failed"}

(* amount: of the order as the handler read it, or that it is asked to put; *)
(* record: status of the order_executions row the handler has created;      *)
(* left: the limits its execution is not booked against yet.                *)
Handler == [pc : HandlerPc, order : OrderIds, amount : Nat,
            record : RecordStatus \cup {"none"}, left : SUBSET Limits]

Put(f, x, v) == [y \in DOMAIN f \cup {x} |-> IF y = x THEN v ELSE f[y]]
Without(f, X) == [y \in DOMAIN f \ X |-> f[y]]

Empty == [x \in {} |-> 0]

Placed == DOMAIN orders
Free(t) == t \notin DOMAIN creating \cup DOMAIN handling
CreateAt(t, pc) == t \in DOMAIN creating /\ creating[t].pc = pc
HandlerAt(t, pc) == t \in DOMAIN handling /\ handling[t].pc = pc

SetStatus(o, s) == orders' = [orders EXCEPT ![o].status = s]

TypeOK ==
  /\ Placed \subseteq OrderIds
  /\ orders \in [Placed -> Row]
  /\ DOMAIN idem \subseteq Keys
  /\ idem \in [DOMAIN idem -> KeyRow]
  /\ executions \in [OrderIds -> [RecordStatus -> Int]]
  /\ used \in [Limits -> Nat]
  /\ immediates \in [OrderIds -> Nat]
  /\ DOMAIN creating \subseteq Tasks
  /\ creating \in [DOMAIN creating -> CreateTask]
  /\ DOMAIN handling \subseteq Tasks
  /\ handling \in [DOMAIN handling -> Handler]
  /\ fills \in [OrderIds -> Nat]
  /\ aged \subseteq OrderIds
  /\ faults \in 0..MaxFaults
  /\ gated \subseteq OrderIds
  /\ proved \subseteq OrderIds
  /\ reported \in Nat
  /\ lost \in [Limits -> Nat]
  /\ orphans \subseteq OrderIds
  /\ overlapped \subseteq OrderIds

Init ==
  /\ orders = Empty
  /\ idem = Empty
  /\ executions = [o \in OrderIds |-> [s \in RecordStatus |-> 0]]
  /\ used = [l \in Limits |-> 0]
  /\ immediates = [o \in OrderIds |-> 0]
  /\ creating = Empty
  /\ handling = Empty
  /\ fills = [o \in OrderIds |-> 0]
  /\ aged = {}
  /\ faults = 0
  /\ gated = {}
  /\ proved = {}
  /\ reported = 0
  /\ lost = [l \in Limits |-> 0]
  /\ orphans = {}
  /\ overlapped = {}

-----------------------------------------------------------------------------
(* createOrder *)

createVars == <<executions, used, handling, fills, aged, faults, proved,
                reported, lost, orphans, overlapped>>

GoCreate(t, pc) == creating' = [creating EXCEPT ![t].pc = pc]

(* Definitions named ...Mutant are plausible mistakes in the definition     *)
(* after them. No specification uses one: each shows that a property can    *)
(* fail, when it stands in for that definition.                             *)

CheckIdempotencyMutant(k, b) ==
  CASE k \notin DOMAIN idem -> [pc |-> "limits", order |-> NoOrder]
    [] OTHER                -> [pc |-> "ok", order |-> idem[k].order]

(* checkIdempotency: what a request with key k and body b finds. *)
CheckIdempotency(k, b) ==
  CASE k \notin DOMAIN idem   -> [pc |-> "limits", order |-> NoOrder]
    [] k \in DOMAIN idem /\ idem[k].body # b
                              -> [pc |-> "conflict", order |-> NoOrder]
    [] k \in DOMAIN idem /\ idem[k].body = b /\ idem[k].expired
                              -> [pc |-> "dropKey", order |-> NoOrder]
    [] OTHER                  -> [pc |-> "ok", order |-> idem[k].order]

CreateOrder(t, k, b) ==
  /\ Free(t)
  /\ LET found == CheckIdempotency(k, b)
     IN  creating' = Put(creating, t, [pc |-> found.pc, key |-> k, body |-> b,
                                       order |-> found.order])
  /\ UNCHANGED <<orders, idem, immediates, gated, createVars>>

(* The expired key is deleted by an awaited call of its own, which throws  *)
(* when another request has deleted the row first.                         *)
DropExpiredKey(t) ==
  /\ CreateAt(t, "dropKey")
  /\ LET k == creating[t].key
     IN  /\ GoCreate(t, IF k \in DOMAIN idem THEN "limits" ELSE "error")
         /\ idem' = Without(idem, {k})
  /\ UNCHANGED <<orders, immediates, gated, createVars>>

(* A limit in another currency than the order's is skipped. *)
WithinLimits(b) ==
  \A l \in Limits : CurrencyOf[l] = b.currency => b.amount <= MaxAmount[l] - used[l]

(* The account checks and the balance check read tables this module leaves *)
(* out: they admit or refuse the order.                                    *)
CheckOrderLimits(t) ==
  /\ CreateAt(t, "limits")
  /\ \E admitted \in BOOLEAN :
        GoCreate(t, IF admitted /\ WithinLimits(creating[t].body)
                    THEN "insert" ELSE "refused")
  /\ UNCHANGED <<orders, idem, immediates, gated, createVars>>

RequiresOtp(b, totpEnabled) ==
  b.amount >= Threshold \/ b.sensitive \/ totpEnabled

(* idempotencyKey is @unique in the table. *)
KeyTaken(k) == \E o \in Placed : orders[o].key = k

(* totpEnabled is read afresh, and the user may switch it at any time. *)
InsertOrder(t, o, totpEnabled) ==
  /\ CreateAt(t, "insert")
  /\ ~ KeyTaken(creating[t].key)
  /\ o \notin Placed
  /\ LET b == creating[t].body
         otp == RequiresOtp(b, totpEnabled)
     IN  /\ orders' = Put(orders, o,
              [status |-> IF otp THEN "pending_verification"
                                 ELSE "pending_execution",
               key |-> creating[t].key, body |-> b, amount |-> b.amount,
               otpVerified |-> FALSE])
         /\ gated' = IF otp THEN gated \cup {o} ELSE gated
  /\ creating' = [creating EXCEPT ![t].pc = "storeKey", ![t].order = o]
  /\ UNCHANGED <<idem, immediates, createVars>>

InsertDuplicate(t) ==
  /\ CreateAt(t, "insert")
  /\ KeyTaken(creating[t].key)
  /\ GoCreate(t, "duplicate")
  /\ UNCHANGED <<orders, idem, immediates, gated, createVars>>

(* storeIdempotencyKey, then setImmediate(executeOrder) for an autoExecute *)
(* order that needs no OTP (the handler's requiresOtp is o \in gated).     *)
StoreIdempotencyKey(t) ==
  /\ CreateAt(t, "storeKey")
  /\ LET k == creating[t].key
         b == creating[t].body
         o == creating[t].order
     IN  IF k \in DOMAIN idem
         THEN /\ GoCreate(t, "duplicate")
              /\ UNCHANGED <<idem, immediates>>
         ELSE /\ GoCreate(t, "ok")
              /\ idem' = Put(idem, k, [body |-> b, order |-> o,
                                       expired |-> FALSE])
              /\ immediates' = IF b.auto /\ o \notin gated
                               THEN [immediates EXCEPT ![o] = @ + 1]
                               ELSE immediates
  /\ UNCHANGED <<orders, gated, createVars>>

Respond(t) ==
  /\ t \in DOMAIN creating
  /\ creating[t].pc \in Answer
  /\ creating' = Without(creating, {t})
  /\ UNCHANGED <<orders, idem, immediates, gated, createVars>>

-----------------------------------------------------------------------------
(* verifyOrder, cancelOrder, updateOrder: each reads the row, checks its    *)
(* status, and later writes whatever the row has become.                    *)

handleVars == <<idem, used, creating, fills, aged, faults, gated, reported,
                lost, orphans>>

Begin(t, pc, o, amount) ==
  /\ Free(t)
  /\ handling' = Put(handling, t, [pc |-> pc, order |-> o, amount |-> amount,
                                   record |-> "none", left |-> Limits])
  /\ overlapped' = IF \E u \in DOMAIN handling : handling[u].order = o
                   THEN overlapped \cup {o} ELSE overlapped

Go(t, pc) == handling' = [handling EXCEPT ![t].pc = pc]
Finish(t) == handling' = Without(handling, {t})

IsPendingMutant(o) == o \in Placed
IsPending(o) == o \in Placed /\ orders[o].status \in PendingStatus
HasStatus(o, s) == o \in Placed /\ orders[o].status = s

(* A wrong code, or a user without TOTP, is answered without a write. *)
VerifyOrder(t, o, codeIsValid) ==
  /\ HasStatus(o, "pending_verification")
  /\ codeIsValid
  /\ Begin(t, "markVerified", o, 0)
  /\ proved' = IF codeIsValid THEN proved \cup {o} ELSE proved
  /\ UNCHANGED <<orders, executions, immediates, handleVars>>

MarkVerified(t) ==
  /\ HandlerAt(t, "markVerified")
  /\ LET o == handling[t].order
     IN  /\ orders' = [orders EXCEPT ![o].status = "pending_execution",
                                     ![o].otpVerified = TRUE]
         /\ immediates' = IF orders[o].body.auto
                          THEN [immediates EXCEPT ![o] = @ + 1]
                          ELSE immediates
  /\ Finish(t)
  /\ UNCHANGED <<executions, proved, handleVars, overlapped>>

CancelOrder(t, o) ==
  /\ IsPending(o)
  /\ Begin(t, "cancel", o, 0)
  /\ UNCHANGED <<orders, executions, immediates, proved, handleVars>>

MarkCancelled(t) ==
  /\ HandlerAt(t, "cancel")
  /\ SetStatus(handling[t].order, "cancelled")
  /\ Finish(t)
  /\ UNCHANGED <<executions, immediates, proved, handleVars, overlapped>>

UpdateOrder(t, o, amount) ==
  /\ IsPending(o)
  /\ Begin(t, "update", o, amount)
  /\ UNCHANGED <<orders, executions, immediates, proved, handleVars>>

PutAmount(t) ==
  /\ HandlerAt(t, "update")
  /\ orders' = [orders EXCEPT ![handling[t].order].amount = handling[t].amount]
  /\ Finish(t)
  /\ UNCHANGED <<executions, immediates, proved, handleVars, overlapped>>

-----------------------------------------------------------------------------
(* executeOrder *)

executeVars == <<idem, creating, aged, faults, gated, proved, lost, orphans>>
stepVars == <<executeVars, overlapped>>

CanExecuteMutant(o) == IsPending(o)
CanExecute(o) == HasStatus(o, "pending_execution")

BeginExecute(t, o) ==
  Begin(t, IF o \in aged THEN "reject" ELSE "markExecuting", o,
        orders[o].amount)

(* POST :id/execute *)
ExecuteOrder(t, o) ==
  /\ CanExecute(o)
  /\ BeginExecute(t, o)
  /\ UNCHANGED <<orders, executions, used, immediates, fills, reported,
                 executeVars>>

(* A callback queued by setImmediate: an error it meets is only logged. *)
RunImmediate(t, o) ==
  /\ immediates[o] > 0
  /\ immediates' = [immediates EXCEPT ![o] = @ - 1]
  /\ IF CanExecute(o) THEN BeginExecute(t, o)
                      ELSE Free(t) /\ UNCHANGED <<handling, overlapped>>
  /\ UNCHANGED <<orders, executions, used, fills, reported, executeVars>>

RejectExpired(t) ==
  /\ HandlerAt(t, "reject")
  /\ SetStatus(handling[t].order, "rejected")
  /\ Finish(t)
  /\ UNCHANGED <<executions, used, immediates, fills, reported, stepVars>>

MarkExecuting(t) ==
  /\ HandlerAt(t, "markExecuting")
  /\ SetStatus(handling[t].order, "executing")
  /\ Go(t, "createRecord")
  /\ UNCHANGED <<executions, used, immediates, fills, reported, stepVars>>

(* order_executions rows of the handler's order: one leaves status from,   *)
(* one enters status to.                                                   *)
MoveRecord(o, from, to) ==
  executions' = [executions EXCEPT ![o] =
    [s \in RecordStatus |-> @[s] + (IF s = to THEN 1 ELSE 0)
                                 - (IF s = from THEN 1 ELSE 0)]]

CreateRecord(t) ==
  /\ HandlerAt(t, "createRecord")
  /\ MoveRecord(handling[t].order, "none", "executing")
  /\ handling' = [handling EXCEPT ![t].pc = "provider",
                                  ![t].record = "executing"]
  /\ UNCHANGED <<orders, used, immediates, fills, reported, stepVars>>

CallProviderMutant(t, executed, answered) ==
  /\ HandlerAt(t, "provider")
  /\ fills' = IF executed THEN [fills EXCEPT ![handling[t].order] = @ + 1]
                          ELSE fills
  /\ reported' = reported + handling[t].amount
  /\ Go(t, "complete")
  /\ UNCHANGED <<orders, executions, used, immediates, stepVars>>

(* executeDryRun always succeeds and calls no provider.  executeReal        *)
(* reports success only when the provider executed the order; an error or a *)
(* refusal is reported as a failure, and an answer lost after the provider  *)
(* executed the order is such an error.                                     *)
CallProvider(t, executed, answered) ==
  /\ HandlerAt(t, "provider")
  /\ LET o == handling[t].order
         dry == orders[o].body.dry
         success == dry \/ (executed /\ answered)
     IN  /\ dry => executed = FALSE /\ answered = TRUE
         /\ fills' = IF executed THEN [fills EXCEPT ![o] = @ + 1] ELSE fills
         /\ reported' = IF success THEN reported + handling[t].amount
                                   ELSE reported
         /\ Go(t, IF success THEN "complete" ELSE "fail")
  /\ UNCHANGED <<orders, executions, used, immediates, stepVars>>

CompleteOrderMutant(t) ==
  /\ HandlerAt(t, "complete")
  /\ SetStatus(handling[t].order, "completed")
  /\ Go(t, "bookLimits")
  /\ UNCHANGED <<executions, used, immediates, fills, reported, stepVars>>

CompleteOrder(t) ==
  /\ HandlerAt(t, "complete")
  /\ SetStatus(handling[t].order, "completed")
  /\ Go(t, "completeRecord")
  /\ UNCHANGED <<executions, used, immediates, fills, reported, stepVars>>

CompleteRecord(t) ==
  /\ HandlerAt(t, "completeRecord")
  /\ MoveRecord(handling[t].order, handling[t].record, "completed")
  /\ handling' = [handling EXCEPT ![t].pc = "bookLimits",
                                  ![t].record = "completed"]
  /\ UNCHANGED <<orders, used, immediates, fills, reported, stepVars>>

UpdateOrderLimitsMutant(t) ==
  /\ HandlerAt(t, "bookLimits")
  /\ \E l \in handling[t].left :
        used' = [used EXCEPT ![l] = @ + orders[handling[t].order].amount]
  /\ Finish(t)
  /\ UNCHANGED <<orders, executions, immediates, fills, reported, stepVars>>

(* The handler has booked limit l, in an awaited call of the loop's own. *)
Booked(t, l) ==
  IF handling[t].left = {l} THEN Finish(t)
                            ELSE handling' = [handling EXCEPT ![t].left = @ \ {l}]

(* One limit of the loop, in whatever order findMany returned them.  The    *)
(* loop does not compare currencies, as checkOrderLimits does.              *)
UpdateOrderLimits(t) ==
  /\ HandlerAt(t, "bookLimits")
  /\ \/ handling[t].left = {} /\ Finish(t) /\ UNCHANGED used
     \/ \E l \in handling[t].left :
          /\ used' = [used EXCEPT ![l] = @ + handling[t].amount]
          /\ Booked(t, l)
  /\ UNCHANGED <<orders, executions, immediates, fills, reported, stepVars>>

FailOrderMutant(t) ==
  /\ HandlerAt(t, "fail")
  /\ Finish(t)
  /\ UNCHANGED <<orders, executions, used, immediates, fills, reported,
                 stepVars>>

(* The failure branch ends in a throw inside the try block, so the catch    *)
(* block writes the order and the record once more.                         *)
FailOrder(t) ==
  /\ HandlerAt(t, "fail")
  /\ SetStatus(handling[t].order, "failed")
  /\ Go(t, "failRecord")
  /\ UNCHANGED <<executions, used, immediates, fills, reported, stepVars>>

FailRecord(t) ==
  /\ HandlerAt(t, "failRecord")
  /\ MoveRecord(handling[t].order, handling[t].record, "failed")
  /\ handling' = [handling EXCEPT ![t].pc = "catchOrder",
                                  ![t].record = "failed"]
  /\ UNCHANGED <<orders, used, immediates, fills, reported, stepVars>>

CatchOrderMutant(t) ==
  /\ HandlerAt(t, "catchOrder")
  /\ SetStatus(handling[t].order, "pending_execution")
  /\ Go(t, "catchRecord")
  /\ UNCHANGED <<executions, used, immediates, fills, reported, stepVars>>

CatchOrder(t) ==
  /\ HandlerAt(t, "catchOrder")
  /\ SetStatus(handling[t].order, "failed")
  /\ Go(t, "catchRecord")
  /\ UNCHANGED <<executions, used, immediates, fills, reported, stepVars>>

CatchRecord(t) ==
  /\ HandlerAt(t, "catchRecord")
  /\ MoveRecord(handling[t].order, handling[t].record, "failed")
  /\ Finish(t)
  /\ UNCHANGED <<orders, used, immediates, fills, reported, stepVars>>

-----------------------------------------------------------------------------
(* Time, and failures *)

worldVars == <<orders, executions, used, fills, gated, proved, reported,
               overlapped>>

ExpireOrder(o) ==
  /\ o \in Placed \ aged
  /\ aged' = aged \cup {o}
  /\ UNCHANGED <<idem, immediates, creating, handling, faults, lost, orphans,
                 worldVars>>

(* A key lives seven days, its order one. *)
ExpireKey(k) ==
  /\ k \in DOMAIN idem
  /\ idem[k].order \in aged
  /\ ~ idem[k].expired
  /\ idem' = [idem EXCEPT ![k].expired = TRUE]
  /\ UNCHANGED <<immediates, creating, handling, aged, faults, lost, orphans,
                 worldVars>>

(* The amount a handler still has to book against a limit. *)
Unbooked(t, l) ==
  IF handling[t].pc \in BookPc /\ l \in handling[t].left THEN handling[t].amount ELSE 0

CutOff(t) == lost' = [l \in Limits |-> lost[l] + Unbooked(t, l)]

(* A database call inside the try block of executeOrder throws. *)
TryThrows(t) ==
  /\ faults < MaxFaults
  /\ faults' = faults + 1
  /\ t \in DOMAIN handling
  /\ handling[t].pc \in TryPc
  /\ CutOff(t)
  /\ Go(t, "catchOrder")
  /\ UNCHANGED <<idem, immediates, creating, aged, orphans, worldVars>>

(* The handler ends without its next write: that call throws outside the   *)
(* try block, or the replica that runs it restarts.                        *)
HandlerDies(t) ==
  /\ faults < MaxFaults
  /\ faults' = faults + 1
  /\ t \in DOMAIN handling
  /\ CutOff(t)
  /\ orphans' = IF handling[t].pc \in OwnerPc
                THEN orphans \cup {handling[t].order} ELSE orphans
  /\ Finish(t)
  /\ UNCHANGED <<idem, immediates, creating, aged, worldVars>>

CreateDies(t) ==
  /\ faults < MaxFaults
  /\ faults' = faults + 1
  /\ t \in DOMAIN creating
  /\ creating[t].pc \notin Answer
  /\ creating' = Without(creating, {t})
  /\ UNCHANGED <<idem, immediates, handling, aged, lost, orphans, worldVars>>

(* A restart of the replica drops the callbacks it has queued. *)
ImmediateDropped(o) ==
  /\ faults < MaxFaults
  /\ faults' = faults + 1
  /\ immediates[o] > 0
  /\ immediates' = [immediates EXCEPT ![o] = @ - 1]
  /\ UNCHANGED <<idem, creating, handling, aged, lost, orphans, worldVars>>

-----------------------------------------------------------------------------

(* What a handler in flight does next. *)
CreateStep(t) ==
  \/ DropExpiredKey(t)
  \/ CheckOrderLimits(t)
  \/ \E o \in OrderIds, totpEnabled \in BOOLEAN : InsertOrder(t, o, totpEnabled)
  \/ InsertDuplicate(t)
  \/ StoreIdempotencyKey(t)
  \/ Respond(t)

HandlerStep(t) ==
  \/ MarkVerified(t)
  \/ MarkCancelled(t)
  \/ PutAmount(t)
  \/ RejectExpired(t)
  \/ MarkExecuting(t)
  \/ CreateRecord(t)
  \/ \E executed, answered \in BOOLEAN : CallProvider(t, executed, answered)
  \/ CompleteOrder(t)
  \/ CompleteRecord(t)
  \/ UpdateOrderLimits(t)
  \/ FailOrder(t)
  \/ FailRecord(t)
  \/ CatchOrder(t)
  \/ CatchRecord(t)

Request(t) ==
  \/ \E k \in Keys, b \in Bodies : CreateOrder(t, k, b)
  \/ \E o \in OrderIds :
       \/ \E codeIsValid \in BOOLEAN : VerifyOrder(t, o, codeIsValid)
       \/ CancelOrder(t, o)
       \/ \E amount \in NewAmounts : UpdateOrder(t, o, amount)
       \/ ExecuteOrder(t, o)
       \/ RunImmediate(t, o)

Fault(t) == TryThrows(t) \/ HandlerDies(t) \/ CreateDies(t)

Next ==
  \/ \E t \in Tasks : CreateStep(t) \/ HandlerStep(t) \/ Request(t) \/ Fault(t)
  \/ \E o \in OrderIds : ExpireOrder(o) \/ ImmediateDropped(o)
  \/ \E k \in Keys : ExpireKey(k)

Spec == Init /\ [][Next]_vars

-----------------------------------------------------------------------------
(* Properties *)

(* A createOrder that succeeds answers with the order of its own request,  *)
(* and all successful requests with one key are answered with one order:   *)
(* the key is checked, the row inserted and the key stored by three calls  *)
(* that other requests with the key interleave with (createOrder 71-153).  *)
SuccessAnswersOwnOrder ==
  \A t \in DOMAIN creating : creating[t].pc = "ok" =>
    /\ creating[t].order \in Placed
    /\ orders[creating[t].order].key = creating[t].key
    /\ orders[creating[t].order].body = creating[t].body
    /\ \A u \in DOMAIN creating :
         creating[u].pc = "ok" /\ creating[u].key = creating[t].key
           => creating[u].order = creating[t].order

(* An order that was created pending_verification goes nowhere but to      *)
(* cancelled, and never to the provider, before a valid code for it was    *)
(* presented, whatever overlaps with verifyOrder and executeOrder.  A      *)
(* sensitive order, or one at or above the threshold, is executed without  *)
(* a code only if it was below the threshold when it was created, so that  *)
(* an updateOrder raised it (644-687: nothing computes the need again).    *)
NeedsCode(o, amount) == RequiresOtp([orders[o].body EXCEPT !.amount = amount], FALSE)

OtpSkippedOnlyIfRaised ==
  /\ \A o \in gated \ proved :
       /\ orders[o].status \in {"pending_verification", "cancelled"}
       /\ fills[o] = 0
  /\ \A t \in DOMAIN handling :
       LET o == handling[t].order
       IN  /\ handling[t].pc \in OwnerPc
           /\ NeedsCode(o, handling[t].amount)
           => o \in proved \/ ~ NeedsCode(o, orders[o].body.amount)

(* A completed order was executed by the provider, or simulated; a dry run *)
(* never reaches the provider (executeOrder 303-314, executeDryRun).       *)
CompletedWasExecuted ==
  \A o \in Placed :
    /\ orders[o].status = "completed" => fills[o] > 0 \/ orders[o].body.dry
    /\ orders[o].body.dry => fills[o] = 0

(* A completed order has a completed execution record, unless the handler  *)
(* is still about to write it or died before it could: the two tables are  *)
(* written by separate calls (executeOrder 314-334).                       *)
CompletedHasRecord ==
  \A o \in Placed : orders[o].status = "completed" =>
    \/ executions[o]["completed"] > 0
    \/ o \in orphans
    \/ \E t \in DOMAIN handling : /\ handling[t].order = o
                                  /\ handling[t].pc \in {"completeRecord", "catchOrder"}

(* A row says executing only while a handler is in flight that has still   *)
(* to write how the execution ended, or after one died: no interleaving of *)
(* executeOrder with itself, cancelOrder or verifyOrder leaves it behind.  *)
ExecutingIsOwned ==
  \A o \in Placed : orders[o].status = "executing" =>
    \/ o \in orphans
    \/ \E t \in DOMAIN handling : /\ handling[t].order = o
                                  /\ handling[t].pc \in WillWritePc

(* Every amount the provider reported as executed is booked against each    *)
(* limit once, is about to be, or was cut off by a fault, between two       *)
(* limits of the loop too; an updateOrder that lands during the execution   *)
(* does not change what is booked (updateOrderLimits 826-856 uses the       *)
(* amount executeOrder read).                                               *)
LimitsAreBookedOnce ==
  \A l \in Limits :
    used[l] + lost[l] + SumFunction([t \in DOMAIN handling |-> Unbooked(t, l)])
      = reported

(* An order that reached a final status while no handler held an earlier   *)
(* read of it keeps that status: every late overwrite needs a stale read.  *)
Settled(o, s) ==
  /\ HasStatus(o, s)
  /\ \A t \in DOMAIN handling : handling[t].order # o

SettledIsFinal ==
  [][\A o \in OrderIds, s \in TerminalStatus : Settled(o, s) => Settled(o, s)']_vars

(* Refinement: the tables implement the order lifecycle of the user guide,  *)
(* faults and lost answers included, for every order of which no two        *)
(* handlers overlap, whatever happens to the others.                        *)
Lifecycle == INSTANCE OrderLifecycle WITH
  status <- [o \in OrderIds |-> IF o \notin Placed THEN "absent"
                                ELSE IF o \in overlapped THEN "disputed"
                                ELSE orders[o].status],
  executed <- {o \in OrderIds \ overlapped : fills[o] > 0}

LifecycleSpec == Lifecycle!LifecycleSpec

(* docs/api/transaction-execution-api.md:175, a code is "Required for       *)
(* high-value transactions (>= $10,000) or sensitive operations": what the  *)
(* provider is asked to execute needs none, or was proved.                  *)
HighValueIsVerified ==
  \A t \in DOMAIN handling :
    LET o == handling[t].order
    IN  /\ handling[t].pc = "provider"
        /\ NeedsCode(o, handling[t].amount)
        => o \in proved

(* docs/api/transaction-execution-api.md:250, an execute request in an     *)
(* "Invalid order status" is refused: the provider executes an order at    *)
(* most once.                                                              *)
ExecutedAtMostOnce == \A o \in OrderIds : fills[o] <= 1
=============================================================================
