---------------------------- MODULE UsageMetering ----------------------------
(***************************************************************************)
(* Metered credits and the invoices for their overage: UsageMeteringService *)
(* and OverageInvoicingJob (apps/api/src/modules/billing) over the tables  *)
(* usage_events and credit_balances.                                       *)
(*                                                                         *)
(* recordUsage works in a database transaction of the default isolation    *)
(* level: it reads committed rows, and its writes become visible together  *)
(* at the commit, but another transaction may commit between the two. The  *)
(* nightly job runs in every replica and awaits Stripe between its read of *)
(* an overage and its reset.                                               *)
(*                                                                         *)
(* resetPeriod and provisionCredits, which would change a balance as well, *)
(* have no caller.                                                         *)
(***************************************************************************)
EXTENDS Integers, FiniteSets, Functions

CONSTANTS
  Orgs,           \* organisations: each is the user whose id it has
  NoOrg,          \* not an organisation
  Keys,           \* idempotency keys: each stands for one report of usage
  OrgOf,          \* the organisation a report is about
  CreditsOf,      \* the credits it reports
  Tiers,          \* subscription tiers
  Billable,       \* those that have a rate in OVERAGE_RATES
  Included,       \* TIER_CREDITS
  MinInvoice,     \* per tier, the overage that is worth Stripe's 0.50 USD
  BaseTier,       \* community
  GrantSize,      \* credits of a referral reward
  Customers,      \* organisations with a stripeCustomerId
  Tasks,          \* requests in flight at once, over all replicas
  Jobs,           \* runs of the job in flight at once, one per replica
  MaxChanges,     \* bound on changes of a tier and referral rewards
  MaxFaults       \* bound on failed calls and restarts of the job

ASSUME UsageAssumption ==
  /\ NoOrg \notin Orgs
  /\ OrgOf \in [Keys -> Orgs]
  /\ CreditsOf \in [Keys -> Nat \ {0}]
  /\ Billable \subseteq Tiers
  /\ BaseTier \in Tiers
  /\ Included \in [Tiers -> Nat]
  /\ MinInvoice \in [Tiers -> Nat \ {0}]
  /\ GrantSize \in Nat
  /\ Customers \subseteq Orgs
  /\ MaxChanges \in Nat
  /\ MaxFaults \in Nat

VARIABLES
  tier,        \* users.subscriptionTier, written by other parts of billing
  balances,    \* credit_balances: organisation -> row, over the rows that exist
  events,      \* usage_events: the keys that are stored
  metering,    \* recordUsage requests in flight: task -> what it has read
  opening,     \* getBalance requests about to create a row: task -> its values
  invoicing,   \* runs of the job: job -> what it has read
  items,       \* (external) credits on invoice items that await an invoice
  invoiced,    \* (external) credits on invoices
  billed,      \* credits on the billing events of overage invoices
  changes,     \* changes of a tier and referral rewards so far
  faults,      \* failed calls and restarts of the job so far
  \* History variables, read by the properties only.
  cleared,     \* per organisation, overage that resets have taken out
  stale,       \* per organisation, the credits reports used of a remainder
               \* that another report had changed since it was read
  exposed,     \* organisations whose overage two runs of the job held at
               \* once, or one put on an item and did not reset
  disturbed,   \* organisations that ran up overage while a run held theirs
  paid         \* organisations that have been on a tier with a rate

vars == <<tier, balances, events, metering, opening, invoicing, items, invoiced,
          billed, changes, faults,
          cleared, stale, exposed, disturbed, paid>>

requestVars == <<metering, opening>>
stripeVars == <<items, invoiced, billed>>
boundVars == <<changes, faults>>

-----------------------------------------------------------------------------

Balance == [included : Nat, used : Nat, overage : Nat]

(* A recordUsage request: before it has read the tier, before its           *)
(* transaction has read the balance, before it commits. fresh: the          *)
(* transaction creates the row. seen: the credits used in the row it read,  *)
(* which no guard asks for.                                                 *)
Meter == [pc : {"tier", "read", "commit"}, key : Keys, tier : Tiers,
          used : Nat, overage : Nat, seen : Nat, fresh : BOOLEAN]

Open == [org : Orgs, tier : Tiers]

(* A run of the job: before it looks a user up, before each call to Stripe, *)
(* before the reset and before the billing event. todo: balances it has     *)
(* read and not reset; owed: their overage, as it read it.                  *)
Invoicing == [pc : {"user", "item", "invoice", "reset", "event"},
              todo : SUBSET Orgs, owed : [Orgs -> Nat], org : Orgs \cup {NoOrg}]

HasBalance(o) == o \in DOMAIN balances
Overage(o) == IF HasBalance(o) THEN balances[o].overage ELSE 0

Free(t) == t \notin DOMAIN metering \cup DOMAIN opening
MeterAt(t, pc) == t \in DOMAIN metering /\ metering[t].pc = pc
JobAt(j, pc) == j \in DOMAIN invoicing /\ invoicing[j].pc = pc
Pending(j, o) == j \in DOMAIN invoicing /\ o \in invoicing[j].todo

Put(f, x, v) == [y \in DOMAIN f \cup {x} |-> IF y = x THEN v ELSE f[y]]
Drop(f, x) == [y \in DOMAIN f \ {x} |-> f[y]]
Empty == [x \in {} |-> 0]

TypeOK ==
  /\ tier \in [Orgs -> Tiers]
  /\ DOMAIN balances \subseteq Orgs
  /\ balances \in [DOMAIN balances -> Balance]
  /\ events \subseteq Keys
  /\ DOMAIN metering \subseteq Tasks
  /\ metering \in [DOMAIN metering -> Meter]
  /\ DOMAIN opening \subseteq Tasks
  /\ opening \in [DOMAIN opening -> Open]
  /\ DOMAIN invoicing \subseteq Jobs
  /\ invoicing \in [DOMAIN invoicing -> Invoicing]
  /\ items \in [Orgs -> Nat]
  /\ invoiced \in [Orgs -> Nat]
  /\ billed \in [Orgs -> Nat]
  /\ changes \in 0..MaxChanges
  /\ faults \in 0..MaxFaults
  /\ cleared \in [Orgs -> Nat]
  /\ stale \in [Orgs -> Nat]
  /\ exposed \subseteq Orgs
  /\ disturbed \subseteq Orgs
  /\ paid \subseteq Orgs

Init ==
  /\ tier \in [Orgs -> Tiers]
  /\ balances = Empty
  /\ events = {}
  /\ metering = Empty
  /\ opening = Empty
  /\ invoicing = Empty
  /\ items = [o \in Orgs |-> 0]
  /\ invoiced = [o \in Orgs |-> 0]
  /\ billed = [o \in Orgs |-> 0]
  /\ changes = 0
  /\ faults = 0
  /\ cleared = [o \in Orgs |-> 0]
  /\ stale = [o \in Orgs |-> 0]
  /\ exposed = {}
  /\ disturbed = {}
  /\ paid = {o \in Orgs : tier[o] \in Billable}

-----------------------------------------------------------------------------
(* Definitions named ...Mutant are plausible mistakes in the definition     *)
(* after them. No specification uses one: each shows that a property can    *)
(* fail, when it stands in for that definition.                             *)

(* Other parts of billing *)

ChangeTier(o, s) ==
  /\ changes < MaxChanges
  /\ changes' = changes + 1
  /\ s # tier[o]
  /\ tier' = [tier EXCEPT ![o] = s]
  /\ paid' = IF s \in Billable THEN paid \cup {o} ELSE paid
  /\ UNCHANGED <<balances, events, requestVars, invoicing, stripeVars,
                 faults, cleared, stale, exposed, disturbed>>

NewBalance(included) == [included |-> included, used |-> 0, overage |-> 0]

(* applyCreditGrant of the referral rewards *)
GrantCredits(o) ==
  /\ changes < MaxChanges
  /\ changes' = changes + 1
  /\ balances' =
       IF HasBalance(o)
       THEN [balances EXCEPT ![o].included = @ + GrantSize]
       ELSE Put(balances, o, NewBalance(Included[BaseTier] + GrantSize))
  /\ UNCHANGED <<tier, events, requestVars, invoicing, stripeVars,
                 faults, cleared, stale, exposed, disturbed, paid>>

-----------------------------------------------------------------------------
(* getBalance, for an organisation that has no row yet *)

FindNoBalance(t, o) ==
  /\ Free(t)
  /\ ~ HasBalance(o)
  /\ opening' = Put(opening, t, [org |-> o, tier |-> tier[o]])
  /\ UNCHANGED <<tier, balances, events, metering, invoicing, stripeVars,
                 boundVars, cleared, stale, exposed, disturbed, paid>>

(* The index on orgId refuses a second row: the request fails. *)
CreateBalance(t) ==
  /\ t \in DOMAIN opening
  /\ LET o == opening[t].org
     IN  balances' = IF HasBalance(o) THEN balances
                     ELSE Put(balances, o, NewBalance(Included[opening[t].tier]))
  /\ opening' = Drop(opening, t)
  /\ UNCHANGED <<tier, events, metering, invoicing, stripeVars, boundVars,
                 cleared, stale, exposed, disturbed, paid>>

-----------------------------------------------------------------------------
(* recordUsage *)

(* A key that is stored is answered at once. *)
RecordUsage(t, k) ==
  /\ Free(t)
  /\ k \notin events
  /\ metering' = Put(metering, t, [pc |-> "tier", key |-> k, tier |-> BaseTier,
                                   used |-> 0, overage |-> 0, seen |-> 0,
                                   fresh |-> FALSE])
  /\ UNCHANGED <<tier, balances, events, opening, invoicing, stripeVars,
                 boundVars, cleared, stale, exposed, disturbed, paid>>

ReadTier(t) ==
  /\ MeterAt(t, "tier")
  /\ metering' = [metering EXCEPT ![t].pc = "read",
                                  ![t].tier = tier[OrgOf[metering[t].key]]]
  /\ UNCHANGED <<tier, balances, events, opening, invoicing, stripeVars,
                 boundVars, cleared, stale, exposed, disturbed, paid>>

CoveredAllMutant(credits, remaining) ==
  IF remaining <= 0 THEN 0 ELSE credits

(* The part of a report that the included credits cover; overage the rest. *)
Covered(credits, remaining) ==
  CASE remaining <= 0 -> 0
    [] remaining > 0 /\ credits > remaining -> remaining
    [] OTHER -> credits

AllowedMutant(s, overage) == TRUE

(* Overage needs a rate: without one the report is refused. *)
Allowed(s, overage) == overage = 0 \/ s \in Billable

(* The transaction reads the event and the balance, and splits the report. *)
(* A refusal and a key that has been stored meanwhile end the request.     *)
ReadBalance(t) ==
  /\ MeterAt(t, "read")
  /\ LET k == metering[t].key
         o == OrgOf[k]
         row == IF HasBalance(o) THEN balances[o]
                ELSE NewBalance(Included[metering[t].tier])
         used == Covered(CreditsOf[k], row.included - row.used)
         overage == CreditsOf[k] - used
     IN  IF k \notin events /\ Allowed(metering[t].tier, overage)
         THEN metering' = [metering EXCEPT
                ![t].pc = "commit", ![t].used = used, ![t].overage = overage,
                ![t].seen = row.used, ![t].fresh = ~ HasBalance(o)]
         ELSE metering' = Drop(metering, t)
  /\ UNCHANGED <<tier, balances, events, opening, invoicing, stripeVars,
                 boundVars, cleared, stale, exposed, disturbed, paid>>

CommitsMutant(t) == TRUE

(* The unique indexes on idempotencyKey and orgId let one writer through. *)
Commits(t) ==
  LET k == metering[t].key
  IN  k \notin events /\ ~ (metering[t].fresh /\ HasBalance(OrgOf[k]))

(* The increments apply to the row as it is by now. *)
CommitUsage(t) ==
  /\ MeterAt(t, "commit")
  /\ LET m == metering[t]
         o == OrgOf[m.key]
         row == IF m.fresh THEN NewBalance(Included[m.tier]) ELSE balances[o]
     IN  IF Commits(t)
         THEN /\ events' = events \cup {m.key}
              /\ balances' = Put(balances, o,
                   [row EXCEPT !.used = @ + m.used, !.overage = @ + m.overage])
              /\ disturbed' = IF m.overage > 0 /\ \E j \in Jobs : Pending(j, o)
                              THEN disturbed \cup {o} ELSE disturbed
              /\ stale' = IF row.used = m.seen THEN stale
                          ELSE [stale EXCEPT ![o] = @ + m.used]
         ELSE UNCHANGED <<events, balances, disturbed, stale>>
  /\ metering' = Drop(metering, t)
  /\ UNCHANGED <<tier, opening, invoicing, stripeVars, boundVars, cleared,
                 exposed, paid>>

(* A call fails or the replica restarts: the transaction leaves nothing. *)
MeterFails(t) ==
  /\ t \in DOMAIN metering
  /\ metering' = Drop(metering, t)
  /\ UNCHANGED <<tier, balances, events, opening, invoicing, stripeVars,
                 boundVars, cleared, stale, exposed, disturbed, paid>>

-----------------------------------------------------------------------------
(* OverageInvoicingJob *)

OwingMutant == {o \in Orgs : Overage(o) > MinInvoice[tier[o]]}
Owing == {o \in Orgs : Overage(o) > 0}

InvoiceOverages(j) ==
  /\ j \notin DOMAIN invoicing
  /\ Owing # {}
  /\ invoicing' = Put(invoicing, j,
       [pc |-> "user", todo |-> Owing, owed |-> [o \in Orgs |-> Overage(o)],
        org |-> NoOrg])
  /\ exposed' = exposed \cup {o \in Owing : \E i \in Jobs : Pending(i, o)}
  /\ UNCHANGED <<tier, balances, events, requestVars, stripeVars, boundVars,
                 cleared, stale, disturbed, paid>>

(* The run is through with the organisation, and goes on to its next one. *)
NextOrg(j, o) ==
  LET rest == invoicing[j].todo \ {o}
  IN  invoicing' =
        IF rest = {} THEN Drop(invoicing, j)
        ELSE [invoicing EXCEPT ![j].pc = "user", ![j].todo = rest,
                               ![j].org = NoOrg]

GoJob(j, pc) == invoicing' = [invoicing EXCEPT ![j].pc = pc]

(* The user has a customer id and a rate, and the amount is not too small. *)
Chargeable(o, owed) ==
  /\ o \in Customers
  /\ tier[o] \in Billable
  /\ owed >= MinInvoice[tier[o]]

LookUpUser(j, o) ==
  /\ JobAt(j, "user")
  /\ o \in invoicing[j].todo
  /\ IF Chargeable(o, invoicing[j].owed[o])
     THEN invoicing' = [invoicing EXCEPT ![j].pc = "item", ![j].org = o]
     ELSE NextOrg(j, o)
  /\ UNCHANGED <<tier, balances, events, requestVars, stripeVars, boundVars,
                 cleared, stale, exposed, disturbed, paid>>

CreateInvoiceItem(j) ==
  /\ JobAt(j, "item")
  /\ LET o == invoicing[j].org
     IN  items' = [items EXCEPT ![o] = @ + invoicing[j].owed[o]]
  /\ GoJob(j, "invoice")
  /\ UNCHANGED <<tier, balances, events, requestVars, invoiced, billed,
                 boundVars, cleared, stale, exposed, disturbed, paid>>

(* Stripe puts the items that await one on the invoice. *)
TakeItems(o) ==
  /\ invoiced' = [invoiced EXCEPT ![o] = @ + items[o]]
  /\ items' = [items EXCEPT ![o] = 0]

CreateInvoice(j) ==
  /\ JobAt(j, "invoice")
  /\ TakeItems(invoicing[j].org)
  /\ GoJob(j, "reset")
  /\ UNCHANGED <<tier, balances, events, requestVars, billed, boundVars,
                 cleared, stale, exposed, disturbed, paid>>

ResetOverageMutant(j) ==
  /\ JobAt(j, "reset")
  /\ invoicing' = [invoicing EXCEPT ![j].pc = "event",
                                    ![j].todo = @ \ {invoicing[j].org}]
  /\ UNCHANGED <<tier, balances, events, requestVars, stripeVars, boundVars,
                 cleared, stale, exposed, disturbed, paid>>

(* overageCredits is set to zero, whatever it is by now. *)
ResetOverage(j) ==
  /\ JobAt(j, "reset")
  /\ LET o == invoicing[j].org
     IN  /\ balances' = [balances EXCEPT ![o].overage = 0]
         /\ cleared' = [cleared EXCEPT ![o] = @ + Overage(o)]
         /\ invoicing' = [invoicing EXCEPT ![j].pc = "event",
                                           ![j].todo = @ \ {o}]
  /\ UNCHANGED <<tier, events, requestVars, stripeVars, boundVars,
                 stale, exposed, disturbed, paid>>

RecordInvoice(j) ==
  /\ JobAt(j, "event")
  /\ LET o == invoicing[j].org
     IN  /\ billed' = [billed EXCEPT ![o] = @ + invoicing[j].owed[o]]
         /\ NextOrg(j, o)
  /\ UNCHANGED <<tier, balances, events, requestVars, items, invoiced,
                 boundVars, cleared, stale, exposed, disturbed, paid>>

Fault == faults < MaxFaults /\ faults' = faults + 1

(* Past the item, and short of the reset that belongs to it. *)
Itemised(j) == JobAt(j, "invoice") \/ JobAt(j, "reset")

ExposeItem(j) ==
  exposed' = IF Itemised(j) THEN exposed \cup {invoicing[j].org} ELSE exposed

InvoicingThrowsMutant(j) ==
  /\ j \in DOMAIN invoicing /\ invoicing[j].org # NoOrg
  /\ Fault
  /\ GoJob(j, "reset")
  /\ UNCHANGED <<tier, balances, events, requestVars, stripeVars, exposed,
                 changes, cleared, stale, disturbed, paid>>

(* A call throws without effect: the run drops the organisation. *)
InvoicingThrows(j) ==
  /\ j \in DOMAIN invoicing
  /\ Fault
  /\ \E o \in Orgs :
       /\ IF invoicing[j].org = NoOrg THEN o \in invoicing[j].todo
                                      ELSE o = invoicing[j].org
       /\ NextOrg(j, o)
  /\ ExposeItem(j)
  /\ UNCHANGED <<tier, balances, events, requestVars, stripeVars,
                 changes, cleared, stale, disturbed, paid>>

(* Stripe does what it was asked, and its answer is lost. *)
AnswerLost(j) ==
  /\ Fault
  /\ LET o == invoicing[j].org
     IN  /\ \/ /\ JobAt(j, "item")
               /\ items' = [items EXCEPT ![o] = @ + invoicing[j].owed[o]]
               /\ UNCHANGED invoiced
            \/ JobAt(j, "invoice") /\ TakeItems(o)
         /\ NextOrg(j, o)
         /\ exposed' = exposed \cup {o}
  /\ UNCHANGED <<tier, balances, events, requestVars, billed,
                 changes, cleared, stale, disturbed, paid>>

(* The replica restarts. *)
JobDies(j) ==
  /\ j \in DOMAIN invoicing
  /\ Fault
  /\ invoicing' = Drop(invoicing, j)
  /\ ExposeItem(j)
  /\ UNCHANGED <<tier, balances, events, requestVars, stripeVars,
                 changes, cleared, stale, disturbed, paid>>

-----------------------------------------------------------------------------

JobStep(j) ==
  \/ \E o \in Orgs : LookUpUser(j, o)
  \/ CreateInvoiceItem(j)
  \/ CreateInvoice(j)
  \/ ResetOverage(j)
  \/ RecordInvoice(j)

Request(t) ==
  \/ \E o \in Orgs : FindNoBalance(t, o)
  \/ CreateBalance(t)
  \/ \E k \in Keys : RecordUsage(t, k)
  \/ ReadTier(t)
  \/ ReadBalance(t)
  \/ CommitUsage(t)
  \/ MeterFails(t)

Next ==
  \/ \E t \in Tasks : Request(t)
  \/ \E j \in Jobs :
       \/ InvoiceOverages(j)
       \/ JobStep(j)
       \/ InvoicingThrows(j)
       \/ AnswerLost(j)
       \/ JobDies(j)
  \/ \E o \in Orgs :
       \/ GrantCredits(o)
       \/ \E s \in Tiers : ChangeTier(o, s)

(* The cron job runs every night in every replica, and its calls answer or *)
(* time out.                                                               *)
Fairness ==
  \A j \in Jobs : WF_vars(InvoiceOverages(j)) /\ WF_vars(JobStep(j))

Spec == Init /\ [][Next]_vars

FairSpec == Spec /\ Fairness

-----------------------------------------------------------------------------
(* Properties *)

Stored(o) == {k \in events : OrgOf[k] = o}

Recorded(o) == IF HasBalance(o) THEN balances[o].used + balances[o].overage ELSE 0

(* Every credit that was reported is in the balance exactly once, as used   *)
(* or as overage, or was taken out of the overage by a reset, however the   *)
(* transactions and the job overlap (recordUsage 101-181, "Atomic updates"  *)
(* 44-45).                                                                  *)
CreditsAreConserved ==
  \A o \in Orgs :
    SumFunctionOnSet(CreditsOf, Stored(o)) = cleared[o] + Recorded(o)

(* No balance uses more than its included credits, but by what reports used *)
(* of a remainder that another report had changed since they read it: the   *)
(* overage begins where the allowance ends, whatever tiers, grants and      *)
(* repeated keys do in between (recordUsage 133-181). The class comment     *)
(* (44-47) excludes even that excess: its transactions "prevent race        *)
(* conditions between concurrent usage reports" and the free tier is        *)
(* "hard-blocked". At read committed they do not, and it is not.            *)
OverdrawnOnlyByStaleReports ==
  \A o \in DOMAIN balances :
    balances[o].used <= balances[o].included + stale[o]

(* An organisation that was never on a tier with a rate is never owed, nor *)
(* charged, overage: the refusal (recordUsage 136-161) and the skip of the *)
(* job (52-57) both see a tier that may be stale.                          *)
FreeTierOwesNothing ==
  \A o \in Orgs \ paid : Overage(o) = 0 /\ items[o] = 0 /\ invoiced[o] = 0

(* No credit of overage is invoiced twice, unless two runs of the job held *)
(* the overage at once, or one made the item and failed before the reset:  *)
(* all that is on items and invoices is overage that was run up            *)
(* (invoiceOverages 69-84).                                                *)
InvoicedTwiceOnlyIfExposed ==
  \A o \in Orgs \ exposed : items[o] + invoiced[o] <= cleared[o] + Overage(o)

(* No overage is written off: what a reset takes out is on an item or an   *)
(* invoice, unless more was run up between the read and the reset.         *)
WrittenOffOnlyIfDisturbed ==
  \A o \in Orgs \ disturbed : cleared[o] <= items[o] + invoiced[o]

(* Overage that can be charged is charged in the end, unless it is charged *)
(* no longer because the tier changes: a run that fails or drops an        *)
(* organisation is made good by a later one.                               *)
OverageIsInvoiced ==
  \A o \in Orgs : Chargeable(o, Overage(o)) ~> ~ Chargeable(o, Overage(o))
=============================================================================
