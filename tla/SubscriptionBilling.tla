------------------------- MODULE SubscriptionBilling -------------------------
(***************************************************************************)
(* The tier of one user of the Dhanam API and what writes it: the upgrade  *)
(* request that opens a checkout, the webhook handlers of Stripe and of    *)
(* Janua, the trial requests, and the hourly job that ends trials.         *)
(*                                                                         *)
(* A handler looks the user up, writes the user's row, inserts a billing   *)
(* row whose event id is unique, and answers: four steps, no transaction,  *)
(* each on its own connection.  A provider that gets no 2xx answer sends   *)
(* the event again, and events arrive in any order.                        *)
(***************************************************************************)
EXTENDS Naturals, FiniteSets

CONSTANTS
    Sub,         \* checkouts the user may open, and the subscription each one buys
    NoOne,       \* the null of an id column
    ProviderOf,  \* who sells the subscription: "stripe" or "janua"
    DoorOf,      \* the request that opens the checkout
    RankOf,      \* the rank upgradeToPremium reads off the name of its plan
    TierOf,      \* the rank of the tier its plan is sold as (PLAN_TIER_MAP); community is 0
    DefaultTier, \* the rank of "pro", which an event that names no plan gives
    TopTier,     \* the highest rank
    TrialTiers,  \* the ranks of the plans a trial may be started of
    Sends,       \* the kinds of event each provider is registered to send
    Replica,     \* API replicas: each runs the hourly job
    MaxFailures, \* bound: statements that fail, answers lost and replicas that die
    MaxTrials,   \* bound: trials the user starts
    MaxCheckouts,\* bound: checkouts that are begun
    MaxInFlight  \* bound: webhook handlers that run at one time

Provider == {"stripe", "janua"}

(***************************************************************************)
(* "upgrade" is upgradeToPremium; "direct" stands for createExternalCheckout *)
(* and createOperatorCheckout, which do the same without its check of the  *)
(* tier; "federated" is createFederatedCheckout.                           *)
(***************************************************************************)
Door == {"upgrade", "direct", "federated"}

(***************************************************************************)
(* Kinds of events.  "paid" is Janua's payment event, which writes the     *)
(* tier again; "invoice" is Stripe's, which only inserts a row.            *)
(***************************************************************************)
Kinds == [stripe |-> {"checkout", "created", "invoice", "deleted"},
          janua  |-> {"created", "paid", "deleted"}]

ASSUME SubscriptionAssumption ==
    /\ NoOne \notin Sub
    /\ TopTier \in Nat \ {0}
    /\ ProviderOf \in [Sub -> Provider]
    /\ DoorOf \in [Sub -> Door]
    /\ RankOf \in [Sub -> Nat]
    /\ TierOf \in [Sub -> 1 .. TopTier]
    /\ DefaultTier \in 1 .. TopTier
    /\ \A p \in Provider : {"created", "deleted"} \subseteq Sends[p] /\ Sends[p] \subseteq Kinds[p]
    /\ MaxFailures \in Nat
    /\ TrialTiers \subseteq 1 .. TopTier
    /\ MaxTrials \in Nat /\ MaxCheckouts \in Nat
    /\ MaxInFlight \in Nat

VARIABLES
    user,       \* the row of the user
    checkout,   \* the provider's side of each subscription
    payer,      \* the customer each checkout was opened for
    stage,      \* where the delivery of each event stands
    recorded,   \* events with a billing row (unique stripeEventId)
    request,    \* the trial request the user is waiting for
    job,        \* the hourly job of each replica
    failures, trials,                             \* counters of the bounds
    \* history, read by the properties only:
    written,    \* events whose write of the user's row was done
    raced,      \* requests that read no customer, before another one stored his
    unmatched,  \* events acknowledged because no user has their customer
    swallowed,  \* Janua events acknowledged although their handler failed
    overwritten,\* running subscriptions whose tier another writer wrote over
    late,       \* subscriptions whose tier was written after their end was
    source      \* the subscription that wrote the tier last, NoOne if none did

rows    == <<user, recorded>>
world   == <<checkout, payer>>
bounds  == <<failures, trials>>
history == <<written, raced, unmatched, swallowed, overwritten, late, source>>
vars == <<user, checkout, payer, stage, recorded, request, job, failures, trials,
          written, raced, unmatched, swallowed, overwritten, late, source>>

Event == {e \in {"checkout", "created", "invoice", "paid", "deleted"} \X Sub :
              e[1] \in Sends[ProviderOf[e[2]]]}

Opening(s) == {e \in Event : e[2] = s /\ e[1] # "deleted"}
Writes(e)  == e[1] # "invoice"

FirstStep(e) == IF e[1] \in {"invoice", "paid"} THEN "record" ELSE "write"

NextStep(e) == [write  |-> IF e[1] = "paid" THEN "answer" ELSE "record",
                record |-> IF e[1] = "paid" THEN "write" ELSE "answer"]

Busy == {e \in Event : stage[e] \in {"write", "record", "answer"}}

Running(s) == checkout[s] = "active"

Unset == [tier |-> 0, customer |-> [p \in Provider |-> NoOne], subscription |-> NoOne,
          trial |-> 0, due |-> FALSE, card |-> FALSE, promo |-> "none"]

Init ==
    /\ user = Unset
    /\ checkout = [s \in Sub |-> "none"]
    /\ payer = [s \in Sub |-> NoOne]
    /\ stage = [e \in Event |-> "unsent"]
    /\ recorded = {}
    /\ request = [op |-> "none", tier |-> 0]
    /\ job = [r \in Replica |-> [at |-> "idle", tier |-> 0, card |-> FALSE]]
    /\ failures = 0 /\ trials = 0
    /\ written = {} /\ raced = {} /\ unmatched = {} /\ swallowed = {}
    /\ overwritten = {} /\ late = {} /\ source = NoOne

(***************************************************************************)
(* A write of the tier by the events of subscription w, or by a trial when *)
(* w is NoOne: every other running subscription is written over.           *)
(***************************************************************************)
TierWrittenBy(w) ==
    overwritten' = overwritten \cup {s \in Sub : Running(s) /\ s # w}

----------------------------------------------------------------------------
(* The requests that open a checkout, and the subscription at its provider. *)

\* Through Janua, createFederatedCheckout does not select the customer id it passes on.
ForgetsCustomer(s) == DoorOf[s] = "federated" /\ ProviderOf[s] = "janua"

\* Through Stripe, its metadata name the plan in a field no handler reads.
ForgetsPlan(s) == DoorOf[s] = "federated" /\ ProviderOf[s] = "stripe"

\* The tier the events of the subscription give.
GivenTier(s) == IF ForgetsPlan(s) THEN DefaultTier ELSE TierOf[s]

\* A request reads the row, and from it the customer.
BeginCheckout(s) ==
    /\ checkout[s] = "none"
    /\ Cardinality({t \in Sub : checkout[t] # "none"}) < MaxCheckouts
    /\ checkout' = [checkout EXCEPT ![s] =
                        IF DoorOf[s] = "upgrade" THEN "asked" ELSE "requested"]
    /\ payer' = [payer EXCEPT ![s] = IF ForgetsCustomer(s) THEN NoOne
                                     ELSE user.customer[ProviderOf[s]]]
    /\ UNCHANGED <<user, stage, recorded, request, job, bounds, history>>

\* upgradeToPremium reads the row once more: the tier may be at its plan's or above.
CheckTier(s) ==
    /\ checkout[s] = "asked"
    /\ checkout' = [checkout EXCEPT ![s] =
                        IF user.tier < RankOf[s] THEN "requested" ELSE "refused"]
    /\ UNCHANGED <<user, payer, stage, recorded, request, job, bounds, history>>

\* The other requests to this provider that have read no customer.
FoundNone(s) ==
    {t \in Sub \ {s} : /\ ProviderOf[t] = ProviderOf[s]
                       /\ checkout[t] \in {"asked", "requested"}
                       /\ payer[t] = NoOne}

\* A mistake: the new customer is not stored.
OpenCheckoutMutant(s) ==
    /\ checkout[s] = "requested"
    /\ checkout' = [checkout EXCEPT ![s] = "open"]
    /\ payer' = IF payer[s] = NoOne THEN [payer EXCEPT ![s] = s] ELSE payer
    /\ UNCHANGED <<user, stage, recorded, request, job, bounds, history>>

\* It creates and stores a customer if it read none, and opens the checkout.
OpenCheckout(s) ==
    /\ checkout[s] = "requested"
    /\ checkout' = [checkout EXCEPT ![s] = "open"]
    /\ IF payer[s] = NoOne
         THEN /\ payer' = [payer EXCEPT ![s] = s]
              /\ user' = [user EXCEPT !.customer[ProviderOf[s]] = s]
              /\ raced' = raced \cup FoundNone(s)
         ELSE UNCHANGED <<payer, user, raced>>
    /\ UNCHANGED <<stage, recorded, request, job, bounds, written, unmatched,
                   swallowed, overwritten, late, source>>

\* The user pays: the provider sends every event but the last.
Pay(s) ==
    /\ checkout[s] = "open"
    /\ checkout' = [checkout EXCEPT ![s] = "active"]
    /\ stage' = [e \in Event |-> IF e \in Opening(s) THEN "waiting" ELSE stage[e]]
    /\ UNCHANGED <<user, payer, recorded, request, job, bounds, history>>

\* The subscription ends: cancelled at the end of its period, or given up unpaid.
End(s) ==
    /\ Running(s)
    /\ checkout' = [checkout EXCEPT ![s] = "ended"]
    /\ stage' = [stage EXCEPT ![<<"deleted", s>>] = "waiting"]
    /\ UNCHANGED <<user, payer, recorded, request, job, bounds, history>>

----------------------------------------------------------------------------
(* The webhook handlers.                                                   *)

\* A checkout names its user; any other event is matched by the customer.
Matches(e) ==
    \/ e[1] = "checkout"
    \/ user.customer[ProviderOf[e[2]]] = payer[e[2]]

Receive(e) ==
    /\ stage[e] = "waiting"
    /\ Cardinality(Busy) < MaxInFlight
    /\ IF Matches(e)
         THEN /\ stage' = [stage EXCEPT ![e] = FirstStep(e)]
              /\ UNCHANGED unmatched
         ELSE /\ stage' = [stage EXCEPT ![e] = "acked"]
              /\ unmatched' = unmatched \cup {e}
    /\ UNCHANGED <<rows, world, request, job, bounds, written, raced, swallowed,
                   overwritten, late, source>>

\* A mistake: the id of the new subscription is not stored.
RowAfterNoIdMutant(e) ==
    LET s == e[2] IN
    CASE e[1] = "checkout" ->
             [user EXCEPT !.tier = GivenTier(s), !.customer["stripe"] = payer[s]]
      [] e[1] = "deleted" -> [user EXCEPT !.tier = 0, !.subscription = NoOne]
      [] OTHER -> [user EXCEPT !.tier = GivenTier(s)]

\* A mistake: the end of a subscription clears its id and keeps the tier.
RowAfterKeepsTierMutant(e) ==
    LET s == e[2] IN
    CASE e[1] = "deleted" -> [user EXCEPT !.subscription = NoOne]
      [] e[1] = "created" -> [user EXCEPT !.tier = GivenTier(s), !.subscription = s]
      [] OTHER -> [user EXCEPT !.tier = GivenTier(s)]

\* What the handler of e writes into the row.
RowAfter(e) ==
    LET s == e[2] IN
    CASE e[1] = "checkout" ->
             [user EXCEPT !.tier = GivenTier(s), !.customer["stripe"] = payer[s]]
      [] e[1] = "created" /\ ProviderOf[s] = "stripe" ->
             [user EXCEPT !.tier = GivenTier(s), !.subscription = s]
      [] e[1] = "deleted" /\ ProviderOf[s] = "stripe" ->
             [user EXCEPT !.tier = 0, !.subscription = NoOne]
      [] e[1] = "deleted" /\ ProviderOf[s] = "janua" -> [user EXCEPT !.tier = 0]
      [] OTHER -> [user EXCEPT !.tier = GivenTier(s)]

WriteUser(e) ==
    /\ stage[e] = "write"
    /\ stage' = [stage EXCEPT ![e] = NextStep(e)["write"]]
    /\ user' = RowAfter(e)
    /\ written' = written \cup {e}
    /\ late' = IF e[1] # "deleted" /\ <<"deleted", e[2]>> \in written
                 THEN late \cup {e[2]} ELSE late
    /\ source' = IF user'.tier = 0 THEN NoOne ELSE e[2]
    /\ TierWrittenBy(e[2])
    /\ UNCHANGED <<recorded, world, request, job, bounds, raced, unmatched, swallowed>>

RecordEvent(e) ==
    /\ stage[e] = "record"
    /\ e \notin recorded
    /\ recorded' = recorded \cup {e}
    /\ stage' = [stage EXCEPT ![e] = NextStep(e)["record"]]
    /\ UNCHANGED <<user, world, request, job, bounds, history>>

\* A mistake: both endpoints answer 200.
ThrowsAckedMutant(e) == stage' = [stage EXCEPT ![e] = "acked"] /\ UNCHANGED swallowed

\* The handler throws: the Stripe endpoint answers 5xx, the Janua endpoint answers 200.
Throws(e) ==
    IF ProviderOf[e[2]] = "stripe"
      THEN stage' = [stage EXCEPT ![e] = "waiting"] /\ UNCHANGED swallowed
      ELSE stage' = [stage EXCEPT ![e] = "acked"] /\ swallowed' = swallowed \cup {e}

RecordRefused(e) ==
    /\ stage[e] = "record"
    /\ e \in recorded
    /\ Throws(e)
    /\ UNCHANGED <<rows, world, request, job, bounds, written, raced, unmatched,
                   overwritten, late, source>>

StatementFails(e) ==
    /\ stage[e] \in {"write", "record"}
    /\ failures < MaxFailures
    /\ failures' = failures + 1
    /\ Throws(e)
    /\ UNCHANGED <<rows, world, request, job, trials, written, raced, unmatched,
                   overwritten, late, source>>

\* The replica dies or the answer is lost: the provider sends the event again.
AnswerLost(e) ==
    /\ e \in Busy
    /\ failures < MaxFailures
    /\ failures' = failures + 1
    /\ stage' = [stage EXCEPT ![e] = "waiting"]
    /\ UNCHANGED <<rows, world, request, job, trials, history>>

Answer(e) ==
    /\ stage[e] = "answer"
    /\ stage' = [stage EXCEPT ![e] = "acked"]
    /\ UNCHANGED <<rows, world, request, job, bounds, history>>

----------------------------------------------------------------------------
(* Trials.                                                                 *)

\* startTrial reads the row: no trial open, community tier.
CheckStart(t) ==
    /\ request.op = "none"
    /\ trials < MaxTrials
    /\ user.trial = 0
    /\ user.tier = 0
    /\ request' = [op |-> "start", tier |-> t]
    /\ trials' = trials + 1
    /\ UNCHANGED <<rows, world, stage, job, failures, history>>

\* It then writes the trial and the tier.
StartTrial ==
    /\ request.op = "start"
    /\ user' = [user EXCEPT !.trial = request.tier, !.due = FALSE, !.card = FALSE,
                            !.tier = request.tier]
    /\ request' = [op |-> "none", tier |-> 0]
    /\ TierWrittenBy(NoOne)
    /\ source' = NoOne
    /\ UNCHANGED <<recorded, world, stage, job, bounds, written, raced, unmatched,
                   swallowed, late>>

\* extendTrialWithCC reads the row: a trial open, and no card yet.
CheckExtend ==
    /\ request.op = "none"
    /\ user.trial # 0
    /\ ~user.card
    /\ request' = [op |-> "extend", tier |-> 0]
    /\ UNCHANGED <<rows, world, stage, job, bounds, history>>

\* It then writes the card and an end 21 days after the start.
ExtendTrial ==
    /\ request.op = "extend"
    /\ user' = [user EXCEPT !.card = TRUE, !.due = FALSE]
    /\ request' = [op |-> "none", tier |-> 0]
    /\ UNCHANGED <<recorded, world, stage, job, bounds, history>>

\* Time passes: the trial reaches trialEndsAt, or the promo promoEndsAt.
TrialRunsOut ==
    /\ user.trial # 0
    /\ ~user.due
    /\ user' = [user EXCEPT !.due = TRUE]
    /\ UNCHANGED <<recorded, world, stage, request, job, bounds, history>>

PromoRunsOut ==
    /\ user.promo = "running"
    /\ user' = [user EXCEPT !.promo = "over"]
    /\ UNCHANGED <<recorded, world, stage, request, job, bounds, history>>

----------------------------------------------------------------------------
(* The hourly job: find the expired trials, end each, then clear the       *)
(* expired promos.  A failure while ending is logged and skipped.          *)

DueTrial == user.trial # 0 /\ user.due

Goes(r, step) == job' = [job EXCEPT ![r] = [at |-> step, tier |-> 0, card |-> FALSE]]

\* A sweep that finds nothing changes nothing and is not a step of the model.
FindTrial(r) ==
    /\ job[r].at = "idle"
    /\ DueTrial
    /\ Goes(r, "found")
    /\ UNCHANGED <<rows, world, stage, request, bounds, history>>

\* endTrial reads the trial and the card; without a trial it returns.
ReadTrial(r) ==
    /\ job[r].at = "found"
    /\ IF user.trial = 0
         THEN Goes(r, "idle")
         ELSE job' = [job EXCEPT ![r] = [at |-> "ending", tier |-> user.trial,
                                         card |-> user.card]]
    /\ UNCHANGED <<rows, world, stage, request, bounds, history>>

\* A mistake: the downgrade leaves the trial in the row.
EndTrialMutant(r) ==
    /\ job[r].at = "ending"
    /\ user' = [user EXCEPT !.tier = 0]
    /\ Goes(r, "idle")
    /\ TierWrittenBy(NoOne)
    /\ source' = NoOne
    /\ UNCHANGED <<recorded, world, stage, request, bounds, written, raced, unmatched,
                   swallowed, late>>

\* It downgrades to community, or with a card starts the promo at the trial's tier.
EndTrial(r) ==
    /\ job[r].at = "ending"
    /\ user' = IF job[r].card
                 THEN [user EXCEPT !.tier = job[r].tier, !.trial = 0, !.due = FALSE,
                                   !.promo = "running"]
                 ELSE [user EXCEPT !.tier = 0, !.trial = 0, !.due = FALSE]
    /\ Goes(r, "idle")
    /\ TierWrittenBy(NoOne)
    /\ source' = NoOne
    /\ UNCHANGED <<recorded, world, stage, request, bounds, written, raced, unmatched,
                   swallowed, late>>

JobFails(r) ==
    /\ job[r].at \in {"found", "ending"}
    /\ failures < MaxFailures
    /\ failures' = failures + 1
    /\ Goes(r, "idle")
    /\ UNCHANGED <<rows, world, stage, request, trials, history>>

\* The second half of the job clears a promo that is over, and leaves the tier.
ClearPromo(r) ==
    /\ job[r].at = "idle"
    /\ user.promo = "over"
    /\ user' = [user EXCEPT !.promo = "none"]
    /\ UNCHANGED <<recorded, world, stage, request, job, bounds, history>>

----------------------------------------------------------------------------
Checkouts == \E s \in Sub : BeginCheckout(s) \/ CheckTier(s) \/ OpenCheckout(s)
World    == (\E s \in Sub : Pay(s) \/ End(s)) \/ TrialRunsOut \/ PromoRunsOut
Webhooks == \E e \in Event : \/ Receive(e) \/ WriteUser(e) \/ RecordEvent(e)
                             \/ RecordRefused(e) \/ StatementFails(e)
                             \/ AnswerLost(e) \/ Answer(e)
Trials   == (\E t \in TrialTiers : CheckStart(t)) \/ StartTrial
                \/ CheckExtend \/ ExtendTrial
Jobs     == \E r \in Replica : \/ FindTrial(r) \/ ReadTrial(r) \/ EndTrial(r)
                               \/ JobFails(r) \/ ClearPromo(r)

Next == Checkouts \/ World \/ Webhooks \/ Trials \/ Jobs

(***************************************************************************)
(* A provider sends an event until it is acknowledged, a handler that runs *)
(* goes on until it answers, and the job runs every hour.  Nothing makes   *)
(* the user pay, cancel or start a trial.                                  *)
(***************************************************************************)
Handles(e) == WriteUser(e) \/ RecordEvent(e) \/ RecordRefused(e) \/ Answer(e)
JobRuns(r) == FindTrial(r) \/ ReadTrial(r) \/ EndTrial(r)

Fairness ==
    /\ \A e \in Event : SF_vars(Receive(e)) /\ WF_vars(Handles(e))
    /\ \A r \in Replica : WF_vars(JobRuns(r))

Spec == Init /\ [][Next]_vars /\ Fairness

----------------------------------------------------------------------------
(* Properties.                                                             *)

Step == {"unsent", "waiting", "write", "record", "answer", "acked"}

UserRow == [tier : 0 .. TopTier, customer : [Provider -> Sub \cup {NoOne}],
            subscription : Sub \cup {NoOne}, trial : 0 .. TopTier, due : BOOLEAN,
            card : BOOLEAN, promo : {"none", "running", "over"}]

\* Types of the variables.
TypeOK ==
    /\ user \in UserRow
    /\ checkout \in [Sub -> {"none", "asked", "refused", "requested", "open", "active",
                          "ended"}]
    /\ payer \in [Sub -> Sub \cup {NoOne}]
    /\ stage \in [Event -> Step]
    /\ recorded \subseteq Event
    /\ request \in [op : {"none", "start", "extend"}, tier : 0 .. TopTier]
    /\ job \in [Replica -> [at : {"idle", "found", "ending"}, tier : 0 .. TopTier,
                            card : BOOLEAN]]
    /\ failures \in 0 .. MaxFailures
    /\ trials \in 0 .. MaxTrials
    /\ written \subseteq Event /\ unmatched \subseteq Event
    /\ swallowed \subseteq Event /\ raced \subseteq Sub
    /\ overwritten \subseteq Sub /\ late \subseteq Sub
    /\ source \in Sub \cup {NoOne}

Dropped(e) == e \in unmatched \cup swallowed

\* An event a provider will never send again has its billing row and its write, unless
\* no user had its customer or it is a Janua event whose handler failed: whatever the
\* order of write and insert, and whatever was retried in between.
AcknowledgedIsApplied ==
    \A e \in Event : stage[e] = "acked" /\ ~Dropped(e)
                        => e \in recorded /\ (Writes(e) => e \in written)

\* An event of a paid subscription finds no user only when its provider has a second
\* customer of the user, who was made by a request that had read no customer: before
\* another request stored one (upgradeToPremiumViaStripe 297-310 and its kin), or without
\* looking (createFederatedCheckout through Janua).  No order of the events, no retry and
\* no handler that writes an old customer back parts an event from its user otherwise.
UnmatchedOnlyIfCustomerReplaced ==
    \A e \in unmatched : \E s, u \in Sub :
        /\ ProviderOf[s] = ProviderOf[e[2]] /\ ProviderOf[u] = ProviderOf[e[2]]
        /\ payer[s] \notin {NoOne, payer[e[2]]}
        /\ payer[u] = u /\ (u \in raced \/ ForgetsCustomer(u))

\* A user whose payment was acknowledged has the tier paid for, and a Stripe subscription
\* that can be cancelled, unless something else wrote the tier while that subscription
\* ran: a trial that began or ended over it, or an event of another subscription.  What a
\* federated Stripe checkout sold is the exception: its events give "pro" whatever it was.
UnservedOnlyIfOverwritten ==
    \A s \in Sub :
        Running(s) /\ stage[<<"created", s>>] = "acked" /\ ~Dropped(<<"created", s>>)
            => \/ s \in overwritten
               \/ /\ user.tier = IF ForgetsPlan(s) THEN DefaultTier ELSE TierOf[s]
                  /\ ProviderOf[s] = "stripe" => user.subscription = s

\* A subscription whose end was acknowledged no longer gives the user its tier, unless
\* an opening event of it was applied after its end (out of order, or retried because
\* an answer was lost), or its end was dropped.
EndedGivesNothingUnlessLate ==
    \A s \in Sub :
        stage[<<"deleted", s>>] = "acked" /\ ~Dropped(<<"deleted", s>>) /\ source = s
            => s \in late

\* Every event a provider sends is in the end recorded or dropped (there are finitely
\* many), and a trial that ran out ends: neither failures nor the endless refusals of an
\* event whose answer was lost hold up the rest.
BillingSettles ==
    /\ <>[](\A e \in Event : stage[e] # "unsent" => e \in recorded \/ Dropped(e))
    /\ []<>~DueTrial
=============================================================================
