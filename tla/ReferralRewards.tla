--------------------------- MODULE ReferralRewards ---------------------------
(***************************************************************************)
(* Referral rewards: ReferralService, ReferralRewardService, the BullMQ    *)
(* worker and the 15-minute cron job of apps/api/src/modules/referral,     *)
(* over the tables referral_rewards, credit_balances and users.            *)
(*                                                                         *)
(* A conversion webhook creates the rewards of a conversion and enqueues   *)
(* one job for each.  The worker of the queue and the cron sweeps of all   *)
(* replicas apply them, through the same applyReward: it reads the row,    *)
(* gives the reward, and then marks the row, with an await between any     *)
(* two of these.                                                           *)
(*                                                                         *)
(* recalculateTier, which each of the three calls last, reads the rewards  *)
(* and writes ambassador_profiles, which nothing here reads: it is left    *)
(* out.                                                                    *)
(***************************************************************************)
EXTENDS Integers, FiniteSets

CONSTANTS
  Deliveries,   \* deliveries of referral.converted webhooks
  Codes,        \* referral codes, one for each conversion
  CodeOf,       \* the code that a delivery carries
  Users,
  ReferrerOf,   \* of a code
  ReferredOf,   \* of a code
  Specs,        \* rewards of a conversion, by type and recipient
  Workers,      \* slots of the referral-rewards workers
  Sweeps,       \* runs of the cron job that may be in flight, one per replica
  MaxAttempts,  \* attempts of a job of the queue
  Batch,        \* rows that a sweep takes
  MaxFaults,    \* bound on failed calls and restarts
  NoReward      \* not a reward

SpecNames == {"extension", "referrerCredit", "referredCredit"}

ASSUME ReferralAssumption ==
  /\ CodeOf \in [Deliveries -> Codes]
  /\ ReferrerOf \in [Codes -> Users]
  /\ ReferredOf \in [Codes -> Users]
  /\ Specs \subseteq SpecNames /\ "extension" \in Specs
  /\ Workers \cap Sweeps = {}
  /\ MaxAttempts \in Nat /\ MaxAttempts > 0
  /\ Batch \in Nat /\ Batch > 0
  /\ MaxFaults \in Nat
  /\ NoReward \notin Deliveries \X Specs

(* The id of a reward row: the delivery that created it, and its spec. *)
Rewards == Deliveries \X Specs

Appliers == Workers \cup Sweeps

CodeOfReward(r) == CodeOf[r[1]]

Recipient(r) == IF r[2] = "referredCredit" THEN ReferredOf[CodeOfReward(r)]
                                           ELSE ReferrerOf[CodeOfReward(r)]

IsExtension(r) == r[2] = "extension"

VARIABLES
  rewards,  \* referral_rewards: id -> applied, over the rows that exist
  hooks,    \* handleConversionWebhook: delivery -> where it is, once begun
  jobs,     \* (external) the queue: reward -> its job
  applying, \* applyReward and its callers in flight: worker or sweep -> state
  expiry,   \* subscriptionExpiresAt of a user, in months from now
  faults,   \* failed calls and restarts so far
  \* History variables, read by the properties only.
  grants,   \* per reward, how often it was given
  waived,   \* rewards that applyReward passed over without giving anything
  exposed,  \* rewards two appliers held at once, or one gave and did not mark
  raced     \* codes two handlers found free at once

vars == <<rewards, hooks, jobs, applying, expiry, faults,
          grants, waived, exposed, raced>>

-----------------------------------------------------------------------------

Created == DOMAIN rewards

Hook == [pc : {"create", "enqueue", "done"}, todo : SUBSET Rewards]

Job == [state : {"waiting", "active", "completed", "failed"}, attempts : Nat]

(* What an applier awaits next: the read of a row, the gift, the write of   *)
(* the expiry it computed, or the mark.                                    *)
ApplyPc == {"check", "give", "extend", "mark"}

Apply == [pc : ApplyPc, todo : SUBSET Rewards, reward : Rewards \cup {NoReward},
          months : Nat]

At(a, pc) == a \in DOMAIN applying /\ applying[a].pc = pc
HookAt(d, pc) == d \in DOMAIN hooks /\ hooks[d].pc = pc

(* Past the check of reward.applied, and not yet past the mark. *)
Holds(a, r) == /\ a \in DOMAIN applying
               /\ applying[a].pc \in {"give", "extend", "mark"}
               /\ applying[a].reward = r

TypeOK ==
  /\ Created \subseteq Rewards
  /\ rewards \in [Created -> BOOLEAN]
  /\ DOMAIN hooks \subseteq Deliveries
  /\ hooks \in [DOMAIN hooks -> Hook]
  /\ DOMAIN jobs \subseteq Created
  /\ jobs \in [DOMAIN jobs -> Job]
  /\ DOMAIN applying \subseteq Appliers
  /\ applying \in [DOMAIN applying -> Apply]
  /\ expiry \in [Users -> Nat]
  /\ faults \in 0..MaxFaults
  /\ grants \in [Rewards -> Nat]
  /\ waived \subseteq Rewards
  /\ exposed \subseteq Rewards
  /\ raced \subseteq Codes

Init ==
  /\ rewards = [r \in {} |-> FALSE]
  /\ hooks = [d \in {} |-> 0]
  /\ jobs = [r \in {} |-> 0]
  /\ applying = [a \in {} |-> 0]
  /\ expiry = [u \in Users |-> 0]
  /\ faults = 0
  /\ grants = [r \in Rewards |-> 0]
  /\ waived = {}
  /\ exposed = {}
  /\ raced = {}

(* f with the value of k set or added, and f without k *)
Put(f, k, v) == [x \in DOMAIN f \cup {k} |-> IF x = k THEN v ELSE f[x]]
Drop(f, k) == [x \in DOMAIN f \ {k} |-> f[x]]

Fault == faults < MaxFaults /\ faults' = faults + 1

-----------------------------------------------------------------------------
(* Definitions named ...Mutant are plausible mistakes in the definition     *)
(* after them. No specification uses one: each shows that a property can    *)
(* fail, when it stands in for that definition.                             *)

(* handleConversionWebhook *)

hookVars == <<applying, expiry, grants, waived, exposed>>

HookGoes(d, pc) == hooks' = [hooks EXCEPT ![d].pc = pc]

DuplicateMutant(d) ==
  \E r \in Created : IsExtension(r) /\ r[1] = d

(* findFirst: an extension was created for this code before. *)
Duplicate(d) ==
  \E r \in Created : IsExtension(r) /\ CodeOfReward(r) = CodeOf[d]

(* A handler that found the code free has not created its rewards yet. *)
Creating(c) == \E d \in DOMAIN hooks : hooks[d].pc = "create" /\ CodeOf[d] = c

LookForDuplicate(d) ==
  /\ d \in Deliveries \ DOMAIN hooks
  /\ hooks' = Put(hooks, d, [pc |-> IF Duplicate(d) THEN "done" ELSE "create",
                             todo |-> {}])
  /\ raced' = IF ~ Duplicate(d) /\ Creating(CodeOf[d])
              THEN raced \cup {CodeOf[d]} ELSE raced
  /\ UNCHANGED <<rewards, jobs, faults, hookVars>>

RewardsOf(d) == {d} \X Specs

(* The transaction commits all rewards of the conversion or none. *)
CreateRewards(d) ==
  /\ HookAt(d, "create")
  /\ rewards' = [r \in Created \cup RewardsOf(d) |->
                   IF r \in Created THEN rewards[r] ELSE FALSE]
  /\ hooks' = [hooks EXCEPT ![d].pc = "enqueue", ![d].todo = RewardsOf(d)]
  /\ UNCHANGED <<jobs, faults, raced, hookVars>>

(* The next reward is enqueued; BullMQ ignores an id that it knows. *)
EnqueueNext(d, r) ==
  /\ HookAt(d, "enqueue")
  /\ r \in hooks[d].todo
  /\ hooks' = [hooks EXCEPT ![d].todo = @ \ {r},
                            ![d].pc = IF hooks[d].todo = {r} THEN "done"
                                                             ELSE "enqueue"]
  /\ UNCHANGED <<rewards, raced, hookVars>>

Enqueue(d, r) ==
  /\ EnqueueNext(d, r)
  /\ jobs' = IF r \in DOMAIN jobs THEN jobs
             ELSE Put(jobs, r, [state |-> "waiting", attempts |-> 0])
  /\ UNCHANGED faults

(* Redis is away, or the queue is not ready: logged, and left to the sweep. *)
EnqueueFails(d, r) ==
  /\ EnqueueNext(d, r)
  /\ Fault
  /\ UNCHANGED jobs

(* A database call throws, or the replica restarts: the handler is gone.   *)
HookFails(d) ==
  /\ d \in DOMAIN hooks /\ hooks[d].pc # "done"
  /\ Fault
  /\ HookGoes(d, "done")
  /\ UNCHANGED <<rewards, jobs, raced, hookVars>>

-----------------------------------------------------------------------------
(* The callers of applyReward *)

callVars == <<rewards, hooks, expiry, grants, waived, exposed, raced>>

Idle(a) == a \in Appliers /\ a \notin DOMAIN applying

Begin(a, todo) ==
  /\ Idle(a)
  /\ applying' = Put(applying, a, [pc |-> "check", todo |-> todo,
                                   reward |-> NoReward, months |-> 0])

(* BullMQ hands a waiting job to the worker; its back-off has passed. *)
TakeJob(w, r) ==
  /\ w \in Workers
  /\ r \in DOMAIN jobs /\ jobs[r].state = "waiting"
  /\ Begin(w, {r})
  /\ jobs' = [jobs EXCEPT ![r].state = "active"]
  /\ UNCHANGED <<faults, callVars>>

Unapplied == {r \in Created : ~ rewards[r]}

FindUnappliedMutant ==
  {rows \in SUBSET (Unapplied \ DOMAIN jobs) :
     /\ rows # {}
     /\ Cardinality(rows) <= Batch
     /\ rows = Unapplied \ DOMAIN jobs \/ Cardinality(rows) = Batch}

(* At most Batch of the rows that are not applied. *)
FindUnapplied ==
  {rows \in SUBSET Unapplied :
     /\ rows # {}
     /\ Cardinality(rows) <= Batch
     /\ rows = Unapplied \/ Cardinality(rows) = Batch}

Sweep(s) ==
  /\ \E rows \in FindUnapplied : Begin(s, rows)
  /\ UNCHANGED <<jobs, faults, callVars>>

(* A worker is done after its reward, a sweep after the last of its batch. *)
NextReward(a, r) ==
  applying' = IF applying[a].todo = {r}
              THEN Drop(applying, a)
              ELSE [applying EXCEPT ![a] =
                     [pc |-> "check", todo |-> applying[a].todo \ {r},
                      reward |-> NoReward, months |-> 0]]

(* applyReward returned applied: true. *)
Applied(a, r) ==
  /\ NextReward(a, r)
  /\ jobs' = IF a \in Workers THEN [jobs EXCEPT ![r].state = "completed"] ELSE jobs

(* applyReward returned applied: false or threw: the worker throws, and the *)
(* queue retries the job or gives it up; the sweep goes on.                *)
NotApplied(a, r) ==
  LET attempts == jobs[r].attempts + 1
  IN  /\ NextReward(a, r)
      /\ jobs' = IF a \in Workers
                 THEN [jobs EXCEPT ![r] =
                   [state |-> IF attempts >= MaxAttempts THEN "failed" ELSE "waiting",
                    attempts |-> attempts]]
                 ELSE jobs

-----------------------------------------------------------------------------
(* applyReward *)

HoldsOf(r) == {a \in DOMAIN applying : Holds(a, r)}

CheckRewardMutant(a, r) ==
  /\ At(a, "check")
  /\ r \in applying[a].todo
  /\ applying' = [applying EXCEPT ![a].pc = "give", ![a].reward = r]
  /\ exposed' = IF HoldsOf(r) # {} THEN exposed \cup {r} ELSE exposed
  /\ UNCHANGED <<jobs, rewards, hooks, expiry, faults, grants, waived, raced>>

(* findUnique, and the way out when the row says applied. *)
CheckReward(a, r) ==
  /\ At(a, "check")
  /\ r \in applying[a].todo
  /\ IF rewards[r]
     THEN Applied(a, r) /\ UNCHANGED exposed
     ELSE /\ applying' = [applying EXCEPT ![a].pc = "give", ![a].reward = r]
          /\ exposed' = IF HoldsOf(r) # {} THEN exposed \cup {r} ELSE exposed
          /\ UNCHANGED jobs
  /\ UNCHANGED <<rewards, hooks, expiry, faults, grants, waived, raced>>

giveVars == <<rewards, hooks, jobs, exposed, raced>>

(* applyCreditGrant: an atomic increment of the balance. *)
GiveCredit(a) ==
  /\ At(a, "give")
  /\ ~ IsExtension(applying[a].reward)
  /\ grants' = [grants EXCEPT ![applying[a].reward] = @ + 1]
  /\ applying' = [applying EXCEPT ![a].pc = "mark"]
  /\ UNCHANGED <<expiry, faults, waived, giveVars>>

(* applySubscriptionExtension: the reads. *)
ReadExpiry(a) ==
  LET r == applying[a].reward
  IN  /\ At(a, "give")
      /\ IsExtension(r)
      /\ applying' = [applying EXCEPT ![a].pc = "extend",
                                      ![a].months = expiry[Recipient(r)] + 1]
      /\ UNCHANGED <<expiry, faults, grants, waived, giveVars>>

(* Stripe is not configured, the user has no Stripe customer or is gone, or *)
(* both writes of the credit balance throw: logged, and nothing else.      *)
PassOver(a) ==
  /\ At(a, "give")
  /\ waived' = waived \cup {applying[a].reward}
  /\ applying' = [applying EXCEPT ![a].pc = "mark"]
  /\ UNCHANGED <<expiry, faults, grants, giveVars>>

(* ... and the write of what it computed. *)
WriteExpiry(a) ==
  LET r == applying[a].reward
  IN  /\ At(a, "extend")
      /\ expiry' = [expiry EXCEPT ![Recipient(r)] = applying[a].months]
      /\ grants' = [grants EXCEPT ![r] = @ + 1]
      /\ applying' = [applying EXCEPT ![a].pc = "mark"]
      /\ UNCHANGED <<faults, waived, giveVars>>

MarkApplied(a) ==
  LET r == applying[a].reward
  IN  /\ At(a, "mark")
      /\ rewards' = [rewards EXCEPT ![r] = TRUE]
      /\ Applied(a, r)
      /\ UNCHANGED <<hooks, expiry, faults, grants, waived, exposed, raced>>

ApplyFailsMutant(a, r) ==
  /\ At(a, "check") \/ At(a, "give") \/ At(a, "extend") \/ At(a, "mark")
  /\ r \in applying[a].todo
  /\ Fault
  /\ applying' = [applying EXCEPT ![a].pc = "mark", ![a].reward = r]
  /\ UNCHANGED <<rewards, hooks, jobs, expiry, grants, waived, exposed, raced>>

(* A database call throws: applied: false. What was given stays given. *)
ApplyFails(a, r) ==
  /\ \/ At(a, "check") /\ r \in applying[a].todo /\ UNCHANGED exposed
     \/ /\ At(a, "give") \/ At(a, "extend")
        /\ r = applying[a].reward
        /\ UNCHANGED exposed
     \/ At(a, "mark") /\ r = applying[a].reward /\ exposed' = exposed \cup {r}
  /\ Fault
  /\ NotApplied(a, r)
  /\ UNCHANGED <<rewards, hooks, expiry, grants, waived, raced>>

(* The replica restarts. BullMQ finds the job stalled and lets it wait for  *)
(* another worker; the sweep is gone.                                      *)
ApplierDies(a) ==
  /\ a \in DOMAIN applying
  /\ Fault
  /\ applying' = Drop(applying, a)
  /\ exposed' = IF applying[a].pc = "mark" THEN exposed \cup {applying[a].reward}
                                           ELSE exposed
  /\ jobs' = [r \in DOMAIN jobs |->
                IF a \in Workers /\ r \in applying[a].todo
                THEN [jobs[r] EXCEPT !.state = "waiting"] ELSE jobs[r]]
  /\ UNCHANGED <<rewards, hooks, expiry, grants, waived, raced>>

-----------------------------------------------------------------------------

HookStep(d) ==
  \/ CreateRewards(d)
  \/ \E r \in Rewards : Enqueue(d, r)

ApplyStep(a) ==
  \/ \E r \in Rewards : CheckReward(a, r)
  \/ GiveCredit(a)
  \/ ReadExpiry(a)
  \/ PassOver(a)
  \/ WriteExpiry(a)
  \/ MarkApplied(a)

SomeFault ==
  \/ \E d \in Deliveries : HookFails(d) \/ \E r \in Rewards : EnqueueFails(d, r)
  \/ \E a \in Appliers :
       \/ ApplierDies(a)
       \/ \E r \in Rewards : ApplyFails(a, r)

Next ==
  \/ \E d \in Deliveries : LookForDuplicate(d) \/ HookStep(d)
  \/ \E w \in Workers, r \in Rewards : TakeJob(w, r)
  \/ \E s \in Sweeps : Sweep(s)
  \/ \E a \in Appliers : ApplyStep(a)
  \/ SomeFault

(* Calls in flight answer, the worker takes jobs, and the cron job runs in *)
(* every replica. Whether a webhook is ever delivered is up to PhyndCRM.   *)
Fairness ==
  /\ \A d \in Deliveries : WF_vars(HookStep(d))
  /\ \A w \in Workers : WF_vars(\E r \in Rewards : TakeJob(w, r))
  /\ \A s \in Sweeps : WF_vars(Sweep(s))
  /\ \A a \in Appliers : WF_vars(ApplyStep(a))

Spec == Init /\ [][Next]_vars

FairSpec == Spec /\ Fairness

-----------------------------------------------------------------------------
(* Properties *)

(* A reward is marked applied only once it was given, or was passed over   *)
(* by applyReward itself (for want of a Stripe customer, or with an error  *)
(* that it swallows): no fault or overlap marks one that was not tried     *)
(* (applyReward 62-87).                                                    *)
AppliedWasGiven ==
  \A r \in Created : rewards[r] => grants[r] > 0 \/ r \in waived

(* No row is given to its recipient twice, unless two appliers held it at  *)
(* once or one failed between the gift and the mark: the check of          *)
(* reward.applied (applyReward 51-54) is enough when nothing overlaps.     *)
GivenTwiceOnlyIfExposed ==
  \A r \in Rewards : grants[r] > 1 => r \in exposed

(* No conversion is rewarded twice, unless two deliveries of it looked for *)
(* a duplicate before either created its rewards (referral.service 65-80). *)
RewardedTwiceOnlyIfRaced ==
  \A q, r \in Created :
    CodeOfReward(q) = CodeOfReward(r) /\ q[1] # r[1] => CodeOfReward(r) \in raced

(* Every reward that was created is applied in the end: the sweep is the   *)
(* safety net of a lost enqueue and of a job that was given up.            *)
RewardsAreApplied ==
  \A r \in Rewards : r \in Created ~> (r \in Created /\ rewards[r])
=============================================================================
