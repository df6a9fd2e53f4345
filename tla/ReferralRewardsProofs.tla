------------------------ MODULE ReferralRewardsProofs ------------------------
(***************************************************************************)
(* Theorems about ReferralRewards, for any number of deliveries, codes,    *)
(* workers, sweeps, attempts and faults.                                   *)
(***************************************************************************)
EXTENDS ReferralRewards, TLAPS

(* What appliers and handlers hold are rows that exist, and jobs that exist. *)
HeldExists ==
  /\ \A a \in DOMAIN applying :
       /\ applying[a].todo \subseteq Created
       /\ applying[a].pc # "check" => applying[a].reward \in applying[a].todo
       /\ a \in Workers => applying[a].todo \subseteq DOMAIN jobs
  /\ \A d \in DOMAIN hooks : hooks[d].pc = "enqueue" => hooks[d].todo \subseteq Created

Base == TypeOK /\ HeldExists

-----------------------------------------------------------------------------
(* What the helpers do to the applier that moves, and to no other. *)

LEMMA BeginFacts ==
  ASSUME Base, NEW a \in Appliers, NEW todo \in SUBSET Created, Begin(a, todo)
  PROVE  /\ a \notin DOMAIN applying
         /\ DOMAIN applying' = DOMAIN applying \cup {a}
         /\ applying' \in [DOMAIN applying' -> Apply]
         /\ applying'[a].pc = "check" /\ applying'[a].todo = todo
         /\ applying'[a].reward = NoReward
         /\ \A b \in DOMAIN applying : applying'[b] = applying[b]
<1> DEFINE new == [pc |-> "check", todo |-> todo, reward |-> NoReward, months |-> 0]
<1>1. new \in Apply
  BY DEF Apply, ApplyPc, Base, TypeOK
<1>2. a \notin DOMAIN applying
  BY DEF Begin, Idle
<1>3. applying' = [b \in DOMAIN applying \cup {a} |->
                     IF b = a THEN new ELSE applying[b]]
  BY DEF Begin, Put
<1>4. QED
  BY <1>1, <1>2, <1>3 DEF Base, TypeOK

LEMMA NextRewardFacts ==
  ASSUME Base, NEW a \in DOMAIN applying, NEW r, NextReward(a, r)
  PROVE  /\ DOMAIN applying' \subseteq DOMAIN applying
         /\ applying' \in [DOMAIN applying' -> Apply]
         /\ \A b \in DOMAIN applying :
              b # a => b \in DOMAIN applying' /\ applying'[b] = applying[b]
         /\ a \in DOMAIN applying' =>
              /\ applying'[a].pc = "check"
              /\ applying'[a].todo \subseteq applying[a].todo
<1> DEFINE new == [pc |-> "check", todo |-> applying[a].todo \ {r},
                   reward |-> NoReward, months |-> 0]
<1>1. applying[a] \in Apply
  BY DEF Base, TypeOK
<1>2. new \in Apply
  BY <1>1 DEF Apply, ApplyPc
<1>3. CASE applying' = Drop(applying, a)
  BY <1>3 DEF Drop, Base, TypeOK
<1>4. CASE applying' = [applying EXCEPT ![a] = new]
  BY <1>2, <1>4 DEF Base, TypeOK
<1>5. QED
  BY <1>3, <1>4 DEF NextReward

(* A step within applyReward, to another pc than "check". *)
Within(a, new) ==
  /\ new \in Apply
  /\ new.pc # "check"
  /\ new.todo = applying[a].todo
  /\ applying' = [applying EXCEPT ![a] = new]

LEMMA WithinFacts ==
  ASSUME Base, NEW a \in DOMAIN applying, NEW new, Within(a, new)
  PROVE  /\ DOMAIN applying' = DOMAIN applying
         /\ applying' \in [DOMAIN applying' -> Apply]
         /\ applying'[a] = new
         /\ \A b \in DOMAIN applying : b # a => applying'[b] = applying[b]
BY DEF Within, Base, TypeOK

LEMMA ToGive ==
  ASSUME Base, NEW a \in DOMAIN applying, NEW r \in applying[a].todo,
         applying' = [applying EXCEPT ![a].pc = "give", ![a].reward = r]
  PROVE  Within(a, [applying[a] EXCEPT !.pc = "give", !.reward = r])
<1>1. applying[a] \in Apply /\ r \in Rewards
  BY DEF Base, TypeOK, HeldExists, Apply
<1>2. QED
  BY <1>1 DEF Within, Apply, ApplyPc

LEMMA ToMark ==
  ASSUME Base, NEW a \in DOMAIN applying,
         applying' = [applying EXCEPT ![a].pc = "mark"]
  PROVE  Within(a, [applying[a] EXCEPT !.pc = "mark"])
<1>1. applying[a] \in Apply
  BY DEF Base, TypeOK
<1>2. QED
  BY <1>1 DEF Within, Apply, ApplyPc

LEMMA ToExtend ==
  ASSUME Base, NEW a \in DOMAIN applying, NEW m \in Nat,
         applying' = [applying EXCEPT ![a].pc = "extend", ![a].months = m]
  PROVE  Within(a, [applying[a] EXCEPT !.pc = "extend", !.months = m])
<1>1. applying[a] \in Apply
  BY DEF Base, TypeOK
<1>2. QED
  BY <1>1 DEF Within, Apply, ApplyPc

(* The end of an attempt, for the queue. *)
LEMMA JobsStay ==
  ASSUME Base, NEW a \in DOMAIN applying, NEW r,
         a \in Workers => r \in DOMAIN jobs,
         Applied(a, r) \/ NotApplied(a, r)
  PROVE  DOMAIN jobs' = DOMAIN jobs /\ jobs' \in [DOMAIN jobs' -> Job]
<1>1. a \in Workers => jobs[r] \in Job
  BY DEF Base, TypeOK
<1>2. QED
  BY <1>1 DEF Applied, NotApplied, Base, TypeOK, Job

-----------------------------------------------------------------------------
(* A step of applier a that adds nothing to what it has to do. *)
Moves(a) ==
  /\ DOMAIN applying' \subseteq DOMAIN applying
  /\ applying' \in [DOMAIN applying' -> Apply]
  /\ \A b \in DOMAIN applying :
       b # a => b \in DOMAIN applying' /\ applying'[b] = applying[b]
  /\ a \in DOMAIN applying' =>
       /\ applying'[a].todo \subseteq applying[a].todo
       /\ applying'[a].pc # "check" => applying'[a].reward \in applying'[a].todo

LEMMA MovesKeepHeld ==
  ASSUME Base, NEW a, Moves(a), DOMAIN jobs' = DOMAIN jobs,
         Created \subseteq Created', UNCHANGED hooks
  PROVE  HeldExists'
<1>1. ASSUME NEW b \in DOMAIN applying'
      PROVE  /\ applying'[b].todo \subseteq Created'
             /\ applying'[b].pc # "check" => applying'[b].reward \in applying'[b].todo
             /\ b \in Workers => applying'[b].todo \subseteq DOMAIN jobs'
  <2>1. CASE b = a
    BY <2>1, <1>1 DEF Moves, Base, HeldExists
  <2>2. CASE b # a
    BY <2>2, <1>1 DEF Moves, Base, HeldExists
  <2>3. QED
    BY <2>1, <2>2
<1>2. QED
  BY <1>1 DEF Base, HeldExists

LEMMA NextRewardMoves ==
  ASSUME Base, NEW a \in DOMAIN applying, NEW r, NextReward(a, r)
  PROVE  Moves(a)
BY NextRewardFacts DEF Moves

LEMMA WithinMoves ==
  ASSUME Base, NEW a \in DOMAIN applying, NEW new, Within(a, new),
         new.reward \in applying[a].todo
  PROVE  Moves(a)
BY WithinFacts DEF Moves, Within

(* Every step of an applier keeps Base. *)
LEMMA ApplyKeepsBase ==
  ASSUME Base, NEW a \in Appliers,
         ApplyStep(a) \/ \E r \in Rewards : ApplyFails(a, r)
  PROVE  Base'
<1> USE ReferralAssumption
<1>1. ASSUME NEW r \in Rewards, CheckReward(a, r)  PROVE Base'
  <2>1. a \in DOMAIN applying /\ r \in applying[a].todo
    BY <1>1 DEF CheckReward, At
  <2>2. CASE rewards[r]
    <3>1. Applied(a, r) /\ UNCHANGED <<exposed, rewards, hooks, expiry, faults,
                                       grants, waived, raced>>
      BY <1>1, <2>2 DEF CheckReward
    <3>2. DOMAIN jobs' = DOMAIN jobs /\ jobs' \in [DOMAIN jobs' -> Job]
      BY <3>1, <2>1, JobsStay DEF Base, HeldExists
    <3>3. Moves(a)
      BY <3>1, <2>1, NextRewardMoves DEF Applied
    <3>4. HeldExists'
      BY <3>1, <3>2, <3>3, MovesKeepHeld DEF Created
    <3>5. QED
      BY <3>1, <3>2, <3>3, <3>4 DEF Base, TypeOK, Moves, Created
  <2>3. CASE ~ rewards[r]
    <3>1. /\ applying' = [applying EXCEPT ![a].pc = "give", ![a].reward = r]
          /\ exposed' = exposed \cup {r} \/ exposed' = exposed
          /\ UNCHANGED <<jobs, rewards, hooks, expiry, faults, grants, waived, raced>>
      BY <1>1, <2>3 DEF CheckReward
    <3>2. Within(a, [applying[a] EXCEPT !.pc = "give", !.reward = r])
      BY <3>1, <2>1, ToGive
    <3>3. Moves(a)
      BY <3>2, <2>1, WithinMoves DEF Base, TypeOK, Apply
    <3>4. HeldExists'
      BY <3>1, <3>3, MovesKeepHeld DEF Created
    <3>5. QED
      BY <3>1, <3>3, <3>4 DEF Base, TypeOK, Moves, Created
  <2>4. QED
    BY <2>2, <2>3
<1>2. ASSUME GiveCredit(a) \/ PassOver(a) \/ WriteExpiry(a)  PROVE Base'
  <2>1. /\ a \in DOMAIN applying /\ applying[a].pc # "check"
        /\ applying' = [applying EXCEPT ![a].pc = "mark"]
        /\ UNCHANGED <<rewards, hooks, jobs, exposed, raced, faults>>
    BY <1>2 DEF GiveCredit, PassOver, WriteExpiry, At, giveVars
  <2>2. applying[a] \in Apply /\ applying[a].reward \in applying[a].todo
        /\ applying[a].reward \in Rewards
    BY <2>1 DEF Base, TypeOK, HeldExists, Apply
  <2>3. Within(a, [applying[a] EXCEPT !.pc = "mark"])
    BY <2>1, ToMark
  <2>4. Moves(a)
    BY <2>1, <2>2, <2>3, WithinMoves DEF Apply
  <2>5. HeldExists'
    BY <2>1, <2>4, MovesKeepHeld DEF Created
  <2>6. Recipient(applying[a].reward) \in Users
    BY <2>2 DEF Recipient, CodeOfReward, Rewards
  <2>7. expiry' \in [Users -> Nat]
    BY <1>2, <2>2, <2>6 DEF Base, TypeOK, Apply, GiveCredit, PassOver, WriteExpiry
  <2>8. grants' \in [Rewards -> Nat] /\ waived' \subseteq Rewards
    BY <1>2, <2>2 DEF Base, TypeOK, GiveCredit, PassOver, WriteExpiry
  <2>9. QED
    BY <2>1, <2>4, <2>5, <2>7, <2>8 DEF Base, TypeOK, Moves, Created
<1>3. ASSUME ReadExpiry(a)  PROVE Base'
  <2> DEFINE m == expiry[Recipient(applying[a].reward)] + 1
  <2>1. /\ a \in DOMAIN applying /\ applying[a].pc = "give"
        /\ applying' = [applying EXCEPT ![a].pc = "extend", ![a].months = m]
        /\ UNCHANGED <<rewards, hooks, jobs, expiry, faults, grants, waived,
                       exposed, raced>>
    BY <1>3 DEF ReadExpiry, At, giveVars
  <2>2. applying[a] \in Apply /\ applying[a].reward \in applying[a].todo
        /\ applying[a].reward \in Rewards
    BY <2>1 DEF Base, TypeOK, HeldExists, Apply
  <2>3. m \in Nat
    BY <2>2 DEF Recipient, CodeOfReward, Rewards, Base, TypeOK
  <2>4. Within(a, [applying[a] EXCEPT !.pc = "extend", !.months = m])
    BY <2>1, <2>3, ToExtend
  <2>5. Moves(a)
    BY <2>1, <2>2, <2>4, WithinMoves DEF Apply
  <2>6. HeldExists'
    BY <2>1, <2>5, MovesKeepHeld DEF Created
  <2>7. QED
    BY <2>1, <2>5, <2>6 DEF Base, TypeOK, Moves, Created
<1>4. ASSUME MarkApplied(a)  PROVE Base'
  <2> DEFINE r == applying[a].reward
  <2>1. /\ a \in DOMAIN applying /\ applying[a].pc = "mark"
        /\ rewards' = [rewards EXCEPT ![r] = TRUE]
        /\ Applied(a, r)
        /\ UNCHANGED <<hooks, expiry, faults, grants, waived, exposed, raced>>
    BY <1>4 DEF MarkApplied, At
  <2>2. r \in applying[a].todo
    BY <2>1 DEF Base, HeldExists
  <2>3. DOMAIN jobs' = DOMAIN jobs /\ jobs' \in [DOMAIN jobs' -> Job]
    BY <2>1, <2>2, JobsStay DEF Base, HeldExists
  <2>4. Moves(a)
    BY <2>1, NextRewardMoves DEF Applied
  <2>5. Created' = Created /\ rewards' \in [Created -> BOOLEAN]
    BY <2>1 DEF Created, Base, TypeOK
  <2>6. HeldExists'
    BY <2>1, <2>3, <2>4, <2>5, MovesKeepHeld
  <2>7. QED
    BY <2>1, <2>3, <2>4, <2>5, <2>6 DEF Base, TypeOK, Moves
<1>5. ASSUME NEW r \in Rewards, ApplyFails(a, r)  PROVE Base'
  <2>1. /\ a \in DOMAIN applying
        /\ exposed' = exposed \/ exposed' = exposed \cup {r}
        /\ Fault
        /\ NotApplied(a, r)
        /\ UNCHANGED <<rewards, hooks, expiry, grants, waived, raced>>
    BY <1>5 DEF ApplyFails, At
  <2>2. r \in applying[a].todo
    BY <1>5, <2>1 DEF ApplyFails, At, Base, HeldExists
  <2>3. DOMAIN jobs' = DOMAIN jobs /\ jobs' \in [DOMAIN jobs' -> Job]
    BY <2>1, <2>2, JobsStay DEF Base, HeldExists
  <2>4. Moves(a)
    BY <2>1, NextRewardMoves DEF NotApplied
  <2>5. HeldExists'
    BY <2>1, <2>3, <2>4, MovesKeepHeld DEF Created
  <2>6. faults' \in 0..MaxFaults
    BY <2>1 DEF Fault, Base, TypeOK
  <2>7. QED
    BY <2>1, <2>3, <2>4, <2>5, <2>6 DEF Base, TypeOK, Moves, Created
<1>6. QED
  BY <1>1, <1>2, <1>3, <1>4, <1>5 DEF ApplyStep

LEMMA DeathMoves ==
  ASSUME Base, NEW a \in Appliers, ApplierDies(a)
  PROVE  Moves(a)
BY DEF ApplierDies, Drop, Moves, Base, TypeOK

LEMMA DeathKeepsBase ==
  ASSUME Base, NEW a \in Appliers, ApplierDies(a)
  PROVE  Base'
<1>1. Moves(a)
  BY DeathMoves
<1>2. a \in DOMAIN applying
  BY DEF ApplierDies
<1>3. DOMAIN jobs' = DOMAIN jobs /\ jobs' \in [DOMAIN jobs' -> Job]
  BY DEF ApplierDies, Base, TypeOK, Job
<1>4. HeldExists'
  BY <1>1, <1>3, MovesKeepHeld DEF ApplierDies, Created
<1>5. applying[a].pc = "mark" => applying[a].reward \in Rewards
  BY <1>2 DEF Base, TypeOK, HeldExists
<1>6. exposed' \subseteq Rewards
  BY <1>5 DEF ApplierDies, Base, TypeOK
<1>7. faults' \in 0..MaxFaults
  BY ReferralAssumption DEF ApplierDies, Fault, Base, TypeOK
<1>8. UNCHANGED <<rewards, hooks, expiry, grants, waived, raced>>
  BY DEF ApplierDies
<1>9. QED
  BY <1>1, <1>3, <1>4, <1>6, <1>7, <1>8 DEF Base, TypeOK, Moves, Created

(* What begins only takes what exists. *)
LEMMA BeginKeepsBase ==
  ASSUME Base, NEW a \in Appliers, NEW todo \in SUBSET Created, Begin(a, todo),
         UNCHANGED <<faults, callVars>>,
         DOMAIN jobs' = DOMAIN jobs, jobs' \in [DOMAIN jobs' -> Job],
         a \in Workers => todo \subseteq DOMAIN jobs
  PROVE  Base'
<1>1. /\ DOMAIN applying' = DOMAIN applying \cup {a}
      /\ applying' \in [DOMAIN applying' -> Apply]
      /\ applying'[a].pc = "check" /\ applying'[a].todo = todo
      /\ \A b \in DOMAIN applying : applying'[b] = applying[b]
  BY BeginFacts
<1>2. Created' = Created
  BY DEF callVars, Created
<1>3. ASSUME NEW b \in DOMAIN applying'
      PROVE  /\ applying'[b].todo \subseteq Created'
             /\ applying'[b].pc # "check" => applying'[b].reward \in applying'[b].todo
             /\ b \in Workers => applying'[b].todo \subseteq DOMAIN jobs'
  <2>1. CASE b = a
    BY <2>1, <1>1, <1>2
  <2>2. CASE b # a
    BY <2>2, <1>1, <1>2, <1>3 DEF Base, HeldExists
  <2>3. QED
    BY <2>1, <2>2
<1>4. HeldExists'
  BY <1>2, <1>3 DEF Base, HeldExists, callVars
<1>5. TypeOK'
  BY <1>1, <1>2 DEF Base, TypeOK, callVars
<1>6. QED
  BY <1>4, <1>5 DEF Base

LEMMA CallersKeepBase ==
  ASSUME Base,
         \/ \E w \in Workers, r \in Rewards : TakeJob(w, r)
         \/ \E s \in Sweeps : Sweep(s)
  PROVE  Base'
<1>1. ASSUME NEW w \in Workers, NEW r \in Rewards, TakeJob(w, r)  PROVE Base'
  <2>1. /\ r \in DOMAIN jobs
        /\ Begin(w, {r})
        /\ jobs' = [jobs EXCEPT ![r].state = "active"]
        /\ UNCHANGED <<faults, callVars>>
    BY <1>1 DEF TakeJob
  <2>2. r \in Created /\ jobs[r] \in Job
    BY <2>1 DEF Base, TypeOK
  <2>3. DOMAIN jobs' = DOMAIN jobs /\ jobs' \in [DOMAIN jobs' -> Job]
    BY <2>1, <2>2 DEF Base, TypeOK, Job
  <2>4. QED
    BY <2>1, <2>2, <2>3, BeginKeepsBase DEF Appliers
<1>2. ASSUME NEW s \in Sweeps, Sweep(s)  PROVE Base'
  <2>1. PICK rows \in FindUnapplied : Begin(s, rows)
    BY <1>2 DEF Sweep
  <2>2. rows \in SUBSET Created
    BY <2>1 DEF FindUnapplied, Unapplied
  <2>3. UNCHANGED <<jobs, faults, callVars>>
    BY <1>2 DEF Sweep
  <2>4. DOMAIN jobs' = DOMAIN jobs /\ jobs' \in [DOMAIN jobs' -> Job]
    BY <2>3 DEF Base, TypeOK
  <2>5. s \notin Workers /\ s \in Appliers
    BY ReferralAssumption DEF Appliers
  <2>6. QED
    BY <2>1, <2>2, <2>3, <2>4, <2>5, BeginKeepsBase
<1>3. QED
  BY <1>1, <1>2

(* A handler adds rows and jobs, and takes none away. *)
LEMMA HookKeepsHeld ==
  ASSUME Base, Created \subseteq Created', DOMAIN jobs \subseteq DOMAIN jobs',
         UNCHANGED applying,
         \A d \in DOMAIN hooks' : hooks'[d].pc = "enqueue" =>
            hooks'[d].todo \subseteq Created'
  PROVE  HeldExists'
BY DEF Base, HeldExists

LEMMA HooksKeepBase ==
  ASSUME Base, NEW d \in Deliveries,
         \/ LookForDuplicate(d)
         \/ HookStep(d)
         \/ HookFails(d)
         \/ \E r \in Rewards : EnqueueFails(d, r)
  PROVE  Base'
<1>1. CASE LookForDuplicate(d)
  <2>1. /\ DOMAIN hooks' = DOMAIN hooks \cup {d}
        /\ hooks' \in [DOMAIN hooks' -> Hook]
        /\ \A e \in DOMAIN hooks : hooks'[e] = hooks[e]
        /\ hooks'[d].pc # "enqueue"
    BY <1>1 DEF LookForDuplicate, Put, Base, TypeOK, Hook
  <2>2. UNCHANGED <<rewards, jobs, faults, hookVars>> /\ raced' \subseteq Codes
    BY <1>1, ReferralAssumption DEF LookForDuplicate, Base, TypeOK
  <2>3. HeldExists'
    <3>1. Created' = Created /\ jobs' = jobs /\ applying' = applying
      BY <2>2 DEF Created, hookVars
    <3>2. \A e \in DOMAIN hooks' : hooks'[e].pc = "enqueue" =>
             hooks'[e].todo \subseteq Created'
      BY <2>1, <3>1 DEF Base, HeldExists
    <3>3. QED
      BY <3>1, <3>2, HookKeepsHeld
  <2>4. QED
    BY <2>1, <2>2, <2>3 DEF Base, TypeOK, hookVars, Created
<1>2. CASE CreateRewards(d)
  <2>1. /\ d \in DOMAIN hooks /\ hooks[d] \in Hook
        /\ RewardsOf(d) \subseteq Rewards
    BY <1>2 DEF CreateRewards, HookAt, Base, TypeOK, RewardsOf, Rewards
  <2>2. /\ hooks' = [hooks EXCEPT ![d].pc = "enqueue", ![d].todo = RewardsOf(d)]
        /\ Created' = Created \cup RewardsOf(d)
        /\ rewards' \in [Created' -> BOOLEAN]
        /\ UNCHANGED <<jobs, faults, raced, hookVars>>
    BY <1>2 DEF CreateRewards, Created, Base, TypeOK
  <2>3. /\ DOMAIN hooks' = DOMAIN hooks
        /\ hooks' \in [DOMAIN hooks' -> Hook]
        /\ \A e \in DOMAIN hooks : e # d => hooks'[e] = hooks[e]
        /\ hooks'[d].todo = RewardsOf(d)
    BY <2>1, <2>2 DEF Base, TypeOK, Hook
  <2>4. \A e \in DOMAIN hooks' : hooks'[e].pc = "enqueue" =>
           hooks'[e].todo \subseteq Created'
    BY <2>2, <2>3 DEF Base, HeldExists
  <2>5. HeldExists'
    BY <2>2, <2>4, HookKeepsHeld DEF hookVars
  <2>6. QED
    BY <2>1, <2>2, <2>3, <2>5 DEF Base, TypeOK, hookVars
<1>3. ASSUME NEW r \in Rewards, Enqueue(d, r) \/ EnqueueFails(d, r)  PROVE Base'
  <2>1. /\ d \in DOMAIN hooks /\ hooks[d] \in Hook
        /\ hooks[d].pc = "enqueue" /\ r \in hooks[d].todo
        /\ UNCHANGED <<rewards, raced, hookVars>>
    BY <1>3 DEF Enqueue, EnqueueFails, EnqueueNext, HookAt, Base, TypeOK
  <2>2. /\ DOMAIN hooks' = DOMAIN hooks
        /\ hooks' \in [DOMAIN hooks' -> Hook]
        /\ \A e \in DOMAIN hooks : e # d => hooks'[e] = hooks[e]
        /\ hooks'[d].todo \subseteq hooks[d].todo
    <3> DEFINE pc == IF hooks[d].todo = {r} THEN "done" ELSE "enqueue"
               left == hooks[d].todo \ {r}
    <3>1. hooks' = [hooks EXCEPT ![d].todo = left, ![d].pc = pc]
      BY <1>3 DEF Enqueue, EnqueueFails, EnqueueNext
    <3>2. pc \in {"done", "enqueue"} /\ left \subseteq hooks[d].todo
          /\ left \subseteq Rewards
      BY <2>1 DEF Hook
    <3> HIDE DEF pc, left
    <3>3. QED
      BY <3>1, <3>2, <2>1 DEF Base, TypeOK, Hook
  <2>3. r \in Created /\ Created' = Created
    BY <2>1 DEF Base, HeldExists, Created
  <2>4. /\ DOMAIN jobs \subseteq DOMAIN jobs' /\ DOMAIN jobs' \subseteq Created
        /\ jobs' \in [DOMAIN jobs' -> Job]
    <3>1. [state |-> "waiting", attempts |-> 0] \in Job
      BY DEF Job
    <3>2. CASE jobs' = jobs
      BY <3>2 DEF Base, TypeOK
    <3>3. CASE jobs' = Put(jobs, r, [state |-> "waiting", attempts |-> 0])
      BY <3>1, <3>3, <2>3 DEF Put, Base, TypeOK
    <3>4. QED
      BY <1>3, <3>2, <3>3 DEF Enqueue, EnqueueFails
  <2>5. faults' \in 0..MaxFaults
    BY <1>3, ReferralAssumption DEF Enqueue, EnqueueFails, Fault, Base, TypeOK
  <2>6. \A e \in DOMAIN hooks' : hooks'[e].pc = "enqueue" =>
           hooks'[e].todo \subseteq Created'
    BY <2>1, <2>2, <2>3 DEF Base, HeldExists
  <2>7. HeldExists'
    BY <2>1, <2>3, <2>4, <2>6, HookKeepsHeld DEF hookVars
  <2>8. QED
    BY <2>1, <2>2, <2>3, <2>4, <2>5, <2>7 DEF Base, TypeOK, hookVars
<1>4. CASE HookFails(d)
  <2>1. /\ d \in DOMAIN hooks /\ hooks[d] \in Hook
        /\ hooks' = [hooks EXCEPT ![d].pc = "done"]
        /\ UNCHANGED <<rewards, jobs, raced, hookVars>>
        /\ Fault
    BY <1>4 DEF HookFails, HookGoes, Base, TypeOK
  <2>2. /\ DOMAIN hooks' = DOMAIN hooks
        /\ hooks' \in [DOMAIN hooks' -> Hook]
        /\ \A e \in DOMAIN hooks : e # d => hooks'[e] = hooks[e]
        /\ hooks'[d].pc = "done"
    BY <2>1 DEF Base, TypeOK, Hook
  <2>3. faults' \in 0..MaxFaults
    BY <2>1, ReferralAssumption DEF Fault, Base, TypeOK
  <2>4. Created' = Created
    BY <2>1 DEF Created
  <2>5. \A e \in DOMAIN hooks' : hooks'[e].pc = "enqueue" =>
           hooks'[e].todo \subseteq Created'
    BY <2>2, <2>4 DEF Base, HeldExists
  <2>6. HeldExists'
    BY <2>1, <2>4, <2>5, HookKeepsHeld DEF hookVars
  <2>7. QED
    BY <2>1, <2>2, <2>3, <2>4, <2>6 DEF Base, TypeOK, hookVars
<1>5. QED
  BY <1>1, <1>2, <1>3, <1>4 DEF HookStep

LEMMA BaseInit == Init => Base
BY ReferralAssumption DEF Init, Base, TypeOK, HeldExists, Created

LEMMA BaseStep == Base /\ [Next]_vars => Base'
<1> SUFFICES ASSUME Base, [Next]_vars  PROVE Base'
  OBVIOUS
<1>1. CASE UNCHANGED vars
  BY <1>1 DEF vars, Base, TypeOK, HeldExists, Created
<1>2. CASE Next
  BY <1>2, HooksKeepBase, CallersKeepBase, ApplyKeepsBase, DeathKeepsBase
     DEF Next, SomeFault
<1>3. QED
  BY <1>1, <1>2

(* The state of rows, handlers, jobs, appliers and balances keeps its type *)
(* in every run, and no step works on a row that does not exist.           *)
THEOREM ReferralTypeCorrect == Spec => []TypeOK
<1>1. Base => TypeOK
  BY DEF Base
<1>2. QED
  BY <1>1, BaseInit, BaseStep, PTL DEF Spec

-----------------------------------------------------------------------------
(* The mark comes after the gift. *)

Tried(r) == grants[r] > 0 \/ r \in waived
TriedNext(r) == grants'[r] > 0 \/ r \in waived'

Marked == \A a \in DOMAIN applying :
            applying[a].pc = "mark" => Tried(applying[a].reward)

Given == Marked /\ AppliedWasGiven

(* No step takes back a gift, and who is at the mark after it either was   *)
(* there before or has just given.                                         *)
LEMMA GivenKept ==
  ASSUME Base, Given, Base',
         \A r \in Rewards : Tried(r) => TriedNext(r),
         \A b \in DOMAIN applying' : applying'[b].pc = "mark" =>
            \/ b \in DOMAIN applying /\ applying'[b] = applying[b]
            \/ TriedNext(applying'[b].reward),
         \A r \in Created' : rewards'[r] =>
            (r \in Created /\ rewards[r]) \/ Tried(r)
  PROVE  Given'
<1>1. ASSUME NEW b \in DOMAIN applying', applying'[b].pc = "mark"
      PROVE  TriedNext(applying'[b].reward)
  <2>1. CASE TriedNext(applying'[b].reward)
    BY <2>1
  <2>2. CASE b \in DOMAIN applying /\ applying'[b] = applying[b]
    <3>1. applying[b].reward \in Rewards /\ Tried(applying[b].reward)
      BY <1>1, <2>2 DEF Given, Marked, Base, TypeOK, HeldExists
    <3>2. QED
      BY <2>2, <3>1
  <2>3. QED
    BY <1>1, <2>1, <2>2
<1>2. ASSUME NEW r \in Created', rewards'[r]  PROVE TriedNext(r)
  <2>1. r \in Rewards
    BY <1>2 DEF Base, TypeOK
  <2>2. Tried(r)
    BY <1>2 DEF Given, AppliedWasGiven, Tried, TriedNext
  <2>3. QED
    BY <2>1, <2>2
<1>3. Marked'
  BY <1>1 DEF Marked, TriedNext, Tried
<1>4. AppliedWasGiven'
  BY <1>2 DEF AppliedWasGiven, Tried, TriedNext
<1>5. QED
  BY <1>3, <1>4 DEF Given

LEMMA GivenInit == Init => Given
BY DEF Init, Given, Marked, AppliedWasGiven, Created

LEMMA GivenStep == Base /\ Base' /\ Given /\ [Next]_vars => Given'
<1> SUFFICES ASSUME Base, Base', Given, [Next]_vars  PROVE Given'
  OBVIOUS
<1>1. ASSUME NEW a \in Appliers, GiveCredit(a) \/ PassOver(a) \/ WriteExpiry(a)
      PROVE  Given'
  <2> DEFINE q == applying[a].reward
  <2>1. /\ a \in DOMAIN applying
        /\ applying' = [applying EXCEPT ![a].pc = "mark"]
        /\ UNCHANGED rewards
    BY <1>1 DEF GiveCredit, PassOver, WriteExpiry, At, giveVars
  <2>2. applying[a] \in Apply /\ q \in Rewards
    BY <1>1, <2>1 DEF GiveCredit, PassOver, WriteExpiry, At, Base, TypeOK, HeldExists
  <2>3. \/ grants' = [grants EXCEPT ![q] = @ + 1] /\ waived' = waived
        \/ grants' = grants /\ waived' = waived \cup {q}
    BY <1>1 DEF GiveCredit, PassOver, WriteExpiry
  <2>4. TriedNext(q) /\ \A r \in Rewards : Tried(r) => TriedNext(r)
    BY <2>2, <2>3 DEF Tried, TriedNext, Base, TypeOK
  <2>5. /\ DOMAIN applying' = DOMAIN applying
        /\ applying'[a].reward = q
        /\ \A b \in DOMAIN applying : b # a => applying'[b] = applying[b]
    BY <2>1, <2>2, ToMark, WithinFacts DEF Apply
  <2>6. \A b \in DOMAIN applying' : applying'[b].pc = "mark" =>
            \/ b \in DOMAIN applying /\ applying'[b] = applying[b]
            \/ TriedNext(applying'[b].reward)
    BY <2>4, <2>5
  <2>7. \A r \in Created' : rewards'[r] => r \in Created /\ rewards[r]
    BY <2>1 DEF Created
  <2>8. QED
    BY <2>4, <2>6, <2>7, GivenKept
<1>2. ASSUME UNCHANGED <<grants, waived>>,
             NEW a, Moves(a),
             a \in DOMAIN applying' => applying'[a].pc # "mark",
             \A r \in Created' : rewards'[r] =>
                (r \in Created /\ rewards[r]) \/ Tried(r)
      PROVE  Given'
  <2>1. \A r \in Rewards : Tried(r) => TriedNext(r)
    BY <1>2 DEF Tried, TriedNext
  <2>2. \A b \in DOMAIN applying' : applying'[b].pc = "mark" =>
            b \in DOMAIN applying /\ applying'[b] = applying[b]
    BY <1>2 DEF Moves
  <2>3. QED
    BY <1>2, <2>1, <2>2, GivenKept
<1>3. ASSUME NEW a \in Appliers, NEW r \in Rewards,
             CheckReward(a, r) \/ ApplyFails(a, r)
      PROVE  Given'
  <2>1. a \in DOMAIN applying /\ UNCHANGED <<rewards, grants, waived>>
    BY <1>3 DEF CheckReward, ApplyFails, At
  <2>2. CASE NextReward(a, r)
    <3>1. Moves(a) /\ (a \in DOMAIN applying' => applying'[a].pc # "mark")
      BY <2>1, <2>2, NextRewardFacts, NextRewardMoves
    <3>2. QED
      BY <2>1, <3>1, <1>2 DEF Created
  <2>3. CASE CheckReward(a, r) /\ ~ NextReward(a, r)
    <3>1. /\ r \in applying[a].todo
          /\ applying' = [applying EXCEPT ![a].pc = "give", ![a].reward = r]
      BY <2>3 DEF CheckReward, Applied
    <3>2. Within(a, [applying[a] EXCEPT !.pc = "give", !.reward = r])
      BY <2>1, <3>1, ToGive
    <3>3. Moves(a)
      BY <2>1, <3>1, <3>2, WithinMoves DEF Base, TypeOK, Apply
    <3>4. applying'[a].pc # "mark"
      BY <2>1, <3>1 DEF Base, TypeOK, Apply
    <3>5. QED
      BY <2>1, <3>3, <3>4, <1>2 DEF Created
  <2>4. QED
    BY <1>3, <2>2, <2>3 DEF ApplyFails, NotApplied
<1>4. ASSUME NEW a \in Appliers, ReadExpiry(a)  PROVE Given'
  <2> DEFINE m == expiry[Recipient(applying[a].reward)] + 1
  <2>1. /\ a \in DOMAIN applying /\ applying[a].pc = "give"
        /\ applying' = [applying EXCEPT ![a].pc = "extend", ![a].months = m]
        /\ UNCHANGED <<rewards, grants, waived>>
    BY <1>4 DEF ReadExpiry, At, giveVars
  <2>2. applying[a] \in Apply /\ applying[a].reward \in applying[a].todo
        /\ applying[a].reward \in Rewards
    BY <2>1 DEF Base, TypeOK, HeldExists, Apply
  <2>3. m \in Nat
    BY <2>2, ReferralAssumption DEF Recipient, CodeOfReward, Rewards, Base, TypeOK
  <2>4. Within(a, [applying[a] EXCEPT !.pc = "extend", !.months = m])
    BY <2>1, <2>3, ToExtend
  <2>5. Moves(a) /\ applying'[a].pc # "mark"
    BY <2>1, <2>2, <2>4, WithinMoves, WithinFacts DEF Apply
  <2>6. QED
    BY <2>1, <2>5, <1>2 DEF Created
<1>5. ASSUME NEW a \in Appliers, MarkApplied(a)  PROVE Given'
  <2> DEFINE q == applying[a].reward
  <2>1. /\ a \in DOMAIN applying /\ applying[a].pc = "mark"
        /\ rewards' = [rewards EXCEPT ![q] = TRUE]
        /\ NextReward(a, q)
        /\ UNCHANGED <<grants, waived>>
    BY <1>5 DEF MarkApplied, Applied, At
  <2>2. Tried(q)
    BY <2>1 DEF Given, Marked
  <2>3. \A r \in Created' : rewards'[r] => (r \in Created /\ rewards[r]) \/ Tried(r)
    BY <2>1, <2>2 DEF Created, Base, TypeOK
  <2>4. Moves(a) /\ (a \in DOMAIN applying' => applying'[a].pc # "mark")
    BY <2>1, NextRewardFacts, NextRewardMoves
  <2>5. QED
    BY <2>1, <2>3, <2>4, <1>2
<1>6. ASSUME NEW a \in Appliers, ApplierDies(a)  PROVE Given'
  <2>1. UNCHANGED <<rewards, grants, waived>> /\ a \notin DOMAIN applying'
    BY <1>6 DEF ApplierDies, Drop
  <2>2. QED
    BY <2>1, <1>6, DeathMoves, <1>2 DEF Created
<1>7. ASSUME NEW a \in Appliers, NEW todo \in SUBSET Created, Begin(a, todo),
             UNCHANGED <<rewards, grants, waived>>
      PROVE  Given'
  <2>1. \A b \in DOMAIN applying' : applying'[b].pc = "mark" =>
            b \in DOMAIN applying /\ applying'[b] = applying[b]
    BY <1>7, BeginFacts
  <2>2. QED
    BY <1>7, <2>1, GivenKept DEF Tried, TriedNext, Created
<1>8. ASSUME NEW d \in Deliveries,
             \/ LookForDuplicate(d)
             \/ HookStep(d)
             \/ HookFails(d)
             \/ \E r \in Rewards : EnqueueFails(d, r)
      PROVE  Given'
  <2>1. UNCHANGED <<applying, grants, waived>>
    BY <1>8 DEF LookForDuplicate, HookStep, CreateRewards, Enqueue, HookFails,
                EnqueueFails, EnqueueNext, hookVars
  <2>2. \A r \in Created' : rewards'[r] => r \in Created /\ rewards[r]
    BY <1>8 DEF LookForDuplicate, HookStep, CreateRewards, Enqueue, HookFails,
                EnqueueFails, EnqueueNext, hookVars, Created
  <2>3. QED
    BY <2>1, <2>2, GivenKept DEF Tried, TriedNext
<1>9. CASE UNCHANGED vars
  BY <1>9 DEF vars, Given, Marked, AppliedWasGiven, Tried, TriedNext, Created
<1>10. ASSUME NEW w \in Workers, NEW r \in Rewards, TakeJob(w, r)  PROVE Given'
  <2>1. Begin(w, {r}) /\ {r} \in SUBSET Created /\ w \in Appliers
        /\ UNCHANGED <<rewards, grants, waived>>
    BY <1>10 DEF TakeJob, Appliers, callVars, Base, TypeOK
  <2>2. QED
    BY <2>1, <1>7
<1>11. ASSUME NEW s \in Sweeps, Sweep(s)  PROVE Given'
  <2>1. PICK rows \in FindUnapplied : Begin(s, rows)
    BY <1>11 DEF Sweep
  <2>2. rows \in SUBSET Created /\ s \in Appliers
        /\ UNCHANGED <<rewards, grants, waived>>
    BY <1>11, <2>1 DEF FindUnapplied, Unapplied, Sweep, Appliers, callVars
  <2>3. QED
    BY <2>1, <2>2, <1>7
<1>12. QED
  BY <1>1, <1>3, <1>4, <1>5, <1>6, <1>8, <1>9, <1>10, <1>11
     DEF Next, SomeFault, ApplyStep

(* In every run a reward that is marked applied was given, or was passed   *)
(* over by applyReward itself: neither a fault nor an overlap of a worker  *)
(* with sweeps marks one that was not tried.                               *)
THEOREM AppliedWasGivenHolds == Spec => []AppliedWasGiven
<1>1. Given => AppliedWasGiven
  BY DEF Given
<1>2. QED
  BY <1>1, BaseInit, BaseStep, GivenInit, GivenStep, PTL DEF Spec

-----------------------------------------------------------------------------
(* A reward that was never exposed has one holder at a time; nobody holds  *)
(* it once it is marked; and who gave it is still at the mark, or has      *)
(* marked it.                                                              *)

GivenBy(a, r) == /\ a \in DOMAIN applying
                 /\ applying[a].pc = "mark" /\ applying[a].reward = r

OnceFor(r) ==
  /\ \A a, b \in DOMAIN applying : Holds(a, r) /\ Holds(b, r) => a = b
  /\ (\E a \in DOMAIN applying : Holds(a, r)) => ~ rewards[r]
  /\ grants[r] <= 1
  /\ grants[r] > 0 => \/ r \in Created /\ rewards[r]
                      \/ \E a \in DOMAIN applying : GivenBy(a, r)

Once == \A r \in Rewards \ exposed : OnceFor(r)

(* Nothing that OnceFor reads of r has changed but for rows that were added. *)
LEMMA OnceUntouched ==
  ASSUME Base, NEW r \in Rewards, OnceFor(r),
         \A a \in DOMAIN applying' : Holds(a, r)' =>
            a \in DOMAIN applying /\ Holds(a, r),
         \A a \in DOMAIN applying : GivenBy(a, r) =>
            a \in DOMAIN applying' /\ GivenBy(a, r)',
         r \in Created => r \in Created' /\ rewards'[r] = rewards[r],
         grants'[r] = grants[r]
  PROVE  OnceFor(r)'
<1>1. \A a, b \in DOMAIN applying' : Holds(a, r)' /\ Holds(b, r)' => a = b
  BY DEF OnceFor
<1>2. (\E a \in DOMAIN applying' : Holds(a, r)') => ~ rewards'[r]
  <2>1. SUFFICES ASSUME NEW a \in DOMAIN applying, Holds(a, r)  PROVE ~ rewards'[r]
    OBVIOUS
  <2>2. r \in Created
    BY <2>1 DEF Holds, Base, TypeOK, HeldExists
  <2>3. QED
    BY <2>1, <2>2 DEF OnceFor
<1>3. grants'[r] <= 1
  BY DEF OnceFor
<1>4. grants'[r] > 0 => \/ r \in Created' /\ rewards'[r]
                       \/ \E a \in DOMAIN applying' : GivenBy(a, r)'
  BY DEF OnceFor
<1>5. QED
  BY <1>1, <1>2, <1>3, <1>4 DEF OnceFor

(* Applier a lets its reward go, marked if it had given it. *)
LEMMA OnceLetGo ==
  ASSUME Base, Once, NEW a \in DOMAIN applying, Moves(a),
         a \in DOMAIN applying' => applying'[a].pc = "check",
         exposed \subseteq exposed', UNCHANGED grants,
         \/ /\ UNCHANGED rewards
            /\ applying[a].pc = "mark" => applying[a].reward \in exposed'
         \/ /\ applying[a].pc = "mark"
            /\ rewards' = [rewards EXCEPT ![applying[a].reward] = TRUE]
  PROVE  Once'
<1> SUFFICES ASSUME NEW r \in Rewards \ exposed'  PROVE OnceFor(r)'
  BY DEF Once, Rewards
<1>1. OnceFor(r)
  BY DEF Once
<1>2. \A b \in DOMAIN applying' : Holds(b, r)' =>
         b \in DOMAIN applying /\ b # a /\ Holds(b, r)
  BY DEF Moves, Holds
<1>3. \A b \in DOMAIN applying : b # a /\ GivenBy(b, r) =>
         b \in DOMAIN applying' /\ GivenBy(b, r)'
  BY DEF Moves, GivenBy
<1>4. CASE ~ GivenBy(a, r)
  <2>1. r \in Created => r \in Created' /\ rewards'[r] = rewards[r]
    BY <1>4 DEF GivenBy, Created, Base, TypeOK
  <2>2. \A b \in DOMAIN applying : GivenBy(b, r) =>
           b \in DOMAIN applying' /\ GivenBy(b, r)'
    BY <1>3, <1>4
  <2>3. QED
    BY <1>1, <1>2, <2>1, <2>2, OnceUntouched
<1>5. CASE GivenBy(a, r)
  <2>1. /\ applying[a].reward = r
        /\ rewards' = [rewards EXCEPT ![r] = TRUE]
    BY <1>5 DEF GivenBy
  <2>2. r \in Created
    BY <1>5 DEF GivenBy, Base, HeldExists
  <2>3. r \in Created' /\ rewards'[r]
    BY <2>1, <2>2 DEF Created, Base, TypeOK
  <2>4. Holds(a, r)
    BY <1>5 DEF GivenBy, Holds
  <2>5. \A b \in DOMAIN applying' : ~ Holds(b, r)'
    BY <1>1, <1>2, <2>4 DEF OnceFor
  <2>6. grants'[r] <= 1
    BY <1>1 DEF OnceFor
  <2>7. QED
    BY <2>3, <2>5, <2>6 DEF OnceFor
<1>6. QED
  BY <1>4, <1>5

(* A sweep or a worker begins, or a handler moves: nobody comes to hold. *)
LEMMA OnceKept ==
  ASSUME Base, Once, exposed \subseteq exposed', UNCHANGED grants,
         \A r \in Created : r \in Created' /\ rewards'[r] = rewards[r],
         \A a \in DOMAIN applying' :
            applying'[a].pc = "check"
            \/ (a \in DOMAIN applying /\ applying'[a] = applying[a]),
         \A a \in DOMAIN applying : a \in DOMAIN applying' /\ applying'[a] = applying[a]
  PROVE  Once'
<1> SUFFICES ASSUME NEW r \in Rewards \ exposed'  PROVE OnceFor(r)'
  BY DEF Once, Rewards
<1>1. OnceFor(r)
  BY DEF Once
<1>2. \A b \in DOMAIN applying' : Holds(b, r)' => b \in DOMAIN applying /\ Holds(b, r)
  BY DEF Holds
<1>3. \A b \in DOMAIN applying : GivenBy(b, r) =>
         b \in DOMAIN applying' /\ GivenBy(b, r)'
  BY DEF GivenBy
<1>4. QED
  BY <1>1, <1>2, <1>3, OnceUntouched

(* The check: it exposes a reward that somebody holds already. *)
LEMMA OnceChecked ==
  ASSUME Base, Once, NEW a \in Appliers, NEW q \in Rewards,
         CheckReward(a, q), ~ rewards[q]
  PROVE  Once'
<1>1. /\ a \in DOMAIN applying /\ applying[a].pc = "check"
      /\ q \in applying[a].todo
      /\ applying' = [applying EXCEPT ![a].pc = "give", ![a].reward = q]
      /\ exposed' = IF HoldsOf(q) # {} THEN exposed \cup {q} ELSE exposed
      /\ UNCHANGED <<rewards, grants>>
  BY DEF CheckReward, At
<1>2. applying[a] \in Apply
  BY <1>1 DEF Base, TypeOK
<1>3. /\ DOMAIN applying' = DOMAIN applying
      /\ \A b \in DOMAIN applying : b # a => applying'[b] = applying[b]
      /\ applying'[a].reward = q /\ applying'[a].pc = "give"
  BY <1>1, <1>2 DEF Apply
<1> SUFFICES ASSUME NEW r \in Rewards \ exposed'  PROVE OnceFor(r)'
  BY DEF Once, Rewards
<1>4. r \notin exposed /\ OnceFor(r)
  BY <1>1 DEF Once
<1>5. \A b \in DOMAIN applying : GivenBy(b, r) =>
         b \in DOMAIN applying' /\ GivenBy(b, r)'
  BY <1>1, <1>3 DEF GivenBy
<1>6. CASE r # q
  <2>1. \A b \in DOMAIN applying' : Holds(b, r)' => b \in DOMAIN applying /\ Holds(b, r)
    BY <1>3, <1>6 DEF Holds
  <2>2. QED
    BY <1>1, <1>4, <1>5, <2>1, OnceUntouched DEF Created
<1>7. CASE r = q
  <2>1. \A b \in DOMAIN applying : ~ Holds(b, r)
    BY <1>1, <1>4, <1>7 DEF HoldsOf
  <2>2. \A b \in DOMAIN applying' : Holds(b, r)' => b = a
    BY <1>3, <2>1 DEF Holds
  <2>3. ~ rewards'[r] /\ grants'[r] <= 1
    BY <1>1, <1>4, <1>7 DEF OnceFor
  <2>4. grants'[r] > 0 => \E b \in DOMAIN applying' : GivenBy(b, r)'
    BY <1>1, <1>3, <1>4, <1>5, <1>7 DEF OnceFor
  <2>5. QED
    BY <2>2, <2>3, <2>4 DEF OnceFor
<1>8. QED
  BY <1>6, <1>7

(* The gift: who holds a reward that was never exposed is alone with it,   *)
(* so nobody has given it before.                                          *)
LEMMA OnceGiven ==
  ASSUME Base, Once, NEW a \in DOMAIN applying,
         applying[a].pc \in {"give", "extend"},
         UNCHANGED <<rewards, exposed>>,
         \E new \in Apply : /\ applying' = [applying EXCEPT ![a] = new]
                            /\ new.pc # "check"
                            /\ new.reward = applying[a].reward
                            /\ \/ grants' = grants
                               \/ /\ new.pc = "mark"
                                  /\ grants' = [grants EXCEPT ![applying[a].reward] = @ + 1]
  PROVE  Once'
<1> DEFINE q == applying[a].reward
<1>1. PICK new \in Apply :
        /\ applying' = [applying EXCEPT ![a] = new]
        /\ new.pc # "check" /\ new.reward = q
        /\ \/ grants' = grants
           \/ new.pc = "mark" /\ grants' = [grants EXCEPT ![q] = @ + 1]
  OBVIOUS
<1>2. /\ DOMAIN applying' = DOMAIN applying
      /\ applying'[a] = new
      /\ \A b \in DOMAIN applying : b # a => applying'[b] = applying[b]
  BY <1>1 DEF Base, TypeOK
<1>3. Holds(a, q) /\ q \in Rewards
  BY DEF Holds, Base, TypeOK, HeldExists
<1>4. new.pc \in {"give", "extend", "mark"}
  BY <1>1 DEF Apply, ApplyPc
<1> SUFFICES ASSUME NEW r \in Rewards \ exposed'  PROVE OnceFor(r)'
  BY DEF Once, Rewards
<1>5. OnceFor(r)
  BY DEF Once
<1>6. \A b \in DOMAIN applying' : Holds(b, r)' => b \in DOMAIN applying /\ Holds(b, r)
  BY <1>1, <1>2, <1>3 DEF Holds
<1>7. \A b \in DOMAIN applying : GivenBy(b, r) =>
         b \in DOMAIN applying' /\ GivenBy(b, r)'
  BY <1>2 DEF GivenBy
<1>8. CASE grants'[r] = grants[r]
  BY <1>5, <1>6, <1>7, <1>8, OnceUntouched DEF Created
<1>9. CASE grants'[r] # grants[r]
  <2>1. /\ r = q /\ new.pc = "mark"
        /\ grants' = [grants EXCEPT ![r] = @ + 1]
    BY <1>1, <1>9 DEF Base, TypeOK
  <2>2. \A b \in DOMAIN applying : ~ GivenBy(b, r)
    <3>1. SUFFICES ASSUME NEW b \in DOMAIN applying, GivenBy(b, r)  PROVE FALSE
      OBVIOUS
    <3>2. Holds(b, r)
      BY <3>1 DEF Holds, GivenBy
    <3>3. b = a
      BY <3>2, <1>3, <1>5, <2>1 DEF OnceFor
    <3>4. QED
      BY <3>1, <3>3 DEF GivenBy
  <2>3. ~ rewards[r]
    BY <1>3, <1>5, <2>1 DEF OnceFor
  <2>4. grants[r] = 0
    BY <1>5, <2>2, <2>3 DEF OnceFor, Base, TypeOK
  <2>5. grants'[r] = 1
    BY <2>1, <2>4 DEF Base, TypeOK
  <2>6. GivenBy(a, r)' /\ a \in DOMAIN applying'
    BY <1>1, <1>2, <2>1 DEF GivenBy
  <2>7. \A b, c \in DOMAIN applying' : Holds(b, r)' /\ Holds(c, r)' => b = c
    BY <1>5, <1>6 DEF OnceFor
  <2>8. ~ rewards'[r]
    BY <2>3
  <2>9. QED
    BY <2>5, <2>6, <2>7, <2>8 DEF OnceFor
<1>10. QED
  BY <1>8, <1>9

LEMMA OnceInit == Init => Once
BY DEF Init, Once, OnceFor

LEMMA OnceStep == Base /\ Once /\ [Next]_vars => Once'
<1> SUFFICES ASSUME Base, Once, [Next]_vars  PROVE Once'
  OBVIOUS
<1>1. ASSUME NEW a \in Appliers, NEW r \in Rewards, CheckReward(a, r)
      PROVE  Once'
  <2>1. a \in DOMAIN applying /\ applying[a].pc = "check"
    BY <1>1 DEF CheckReward, At
  <2>2. CASE rewards[r]
    <3>1. NextReward(a, r) /\ UNCHANGED <<rewards, grants, exposed>>
      BY <1>1, <2>2 DEF CheckReward, Applied
    <3>2. Moves(a) /\ (a \in DOMAIN applying' => applying'[a].pc = "check")
      BY <2>1, <3>1, NextRewardFacts, NextRewardMoves
    <3>3. QED
      BY <2>1, <3>1, <3>2, OnceLetGo
  <2>3. QED
    BY <1>1, <2>2, OnceChecked
<1>2. ASSUME NEW a \in Appliers,
             GiveCredit(a) \/ PassOver(a) \/ WriteExpiry(a) \/ ReadExpiry(a)
      PROVE  Once'
  <2>1. /\ a \in DOMAIN applying /\ applying[a].pc \in {"give", "extend"}
        /\ UNCHANGED <<rewards, exposed>>
    BY <1>2 DEF GiveCredit, PassOver, WriteExpiry, ReadExpiry, At, giveVars
  <2>2. applying[a] \in Apply /\ applying[a].reward \in Rewards
    BY <2>1 DEF Base, TypeOK, HeldExists
  <2>3. CASE GiveCredit(a) \/ PassOver(a) \/ WriteExpiry(a)
    <3> DEFINE new == [applying[a] EXCEPT !.pc = "mark"]
    <3>1. /\ applying' = [applying EXCEPT ![a].pc = "mark"]
          /\ \/ grants' = grants
             \/ grants' = [grants EXCEPT ![applying[a].reward] = @ + 1]
      BY <2>3 DEF GiveCredit, PassOver, WriteExpiry
    <3>2. Within(a, new)
      BY <2>1, <3>1, ToMark
    <3>3. new \in Apply /\ applying' = [applying EXCEPT ![a] = new]
      BY <3>2 DEF Within
    <3>4. new.pc = "mark" /\ new.reward = applying[a].reward
      BY <2>2 DEF Apply
    <3> HIDE DEF new
    <3>5. QED
      BY <2>1, <3>1, <3>3, <3>4, OnceGiven
  <2>4. CASE ReadExpiry(a)
    <3> DEFINE m == expiry[Recipient(applying[a].reward)] + 1
               new == [applying[a] EXCEPT !.pc = "extend", !.months = m]
    <3>1. /\ applying' = [applying EXCEPT ![a].pc = "extend", ![a].months = m]
          /\ grants' = grants
      BY <2>4 DEF ReadExpiry
    <3>2. m \in Nat
      BY <2>2, ReferralAssumption DEF Recipient, CodeOfReward, Rewards, Base, TypeOK
    <3>3. Within(a, new)
      BY <2>1, <3>1, <3>2, ToExtend
    <3>4. new \in Apply /\ applying' = [applying EXCEPT ![a] = new]
      BY <3>3 DEF Within
    <3>5. new.pc = "extend" /\ new.reward = applying[a].reward
      BY <2>2 DEF Apply
    <3> HIDE DEF new
    <3>6. QED
      BY <2>1, <3>1, <3>4, <3>5, OnceGiven
  <2>5. QED
    BY <1>2, <2>3, <2>4
<1>3. ASSUME NEW a \in Appliers, MarkApplied(a)  PROVE Once'
  <2> DEFINE q == applying[a].reward
  <2>1. /\ a \in DOMAIN applying /\ applying[a].pc = "mark"
        /\ rewards' = [rewards EXCEPT ![q] = TRUE]
        /\ NextReward(a, q)
        /\ UNCHANGED <<grants, exposed>>
    BY <1>3 DEF MarkApplied, Applied, At
  <2>2. Moves(a) /\ (a \in DOMAIN applying' => applying'[a].pc = "check")
    BY <2>1, NextRewardFacts, NextRewardMoves
  <2>3. QED
    BY <2>1, <2>2, OnceLetGo
<1>4. ASSUME NEW a \in Appliers, NEW r \in Rewards, ApplyFails(a, r)
      PROVE  Once'
  <2>1. /\ a \in DOMAIN applying /\ NextReward(a, r)
        /\ UNCHANGED <<rewards, grants>>
        /\ exposed \subseteq exposed'
        /\ applying[a].pc = "mark" => applying[a].reward \in exposed'
    BY <1>4 DEF ApplyFails, NotApplied, At
  <2>2. Moves(a) /\ (a \in DOMAIN applying' => applying'[a].pc = "check")
    BY <2>1, NextRewardFacts, NextRewardMoves
  <2>3. QED
    BY <2>1, <2>2, OnceLetGo
<1>5. ASSUME NEW a \in Appliers, ApplierDies(a)  PROVE Once'
  <2>1. /\ a \in DOMAIN applying /\ a \notin DOMAIN applying'
        /\ UNCHANGED <<rewards, grants>>
        /\ exposed \subseteq exposed'
        /\ applying[a].pc = "mark" => applying[a].reward \in exposed'
    BY <1>5 DEF ApplierDies, Drop
  <2>2. QED
    BY <1>5, <2>1, DeathMoves, OnceLetGo
<1>6. ASSUME NEW a \in Appliers, NEW todo \in SUBSET Created, Begin(a, todo),
             UNCHANGED callVars
      PROVE  Once'
  <2>1. /\ a \notin DOMAIN applying
        /\ DOMAIN applying' = DOMAIN applying \cup {a}
        /\ applying'[a].pc = "check"
        /\ \A b \in DOMAIN applying : applying'[b] = applying[b]
    BY <1>6, BeginFacts
  <2>2. UNCHANGED <<rewards, grants, exposed>>
    BY <1>6 DEF callVars
  <2>3. \A r \in Created : r \in Created' /\ rewards'[r] = rewards[r]
    BY <2>2 DEF Created
  <2>4. \A b \in DOMAIN applying' :
           applying'[b].pc = "check"
           \/ (b \in DOMAIN applying /\ applying'[b] = applying[b])
    <3> TAKE b \in DOMAIN applying'
    <3>1. CASE b = a
      BY <2>1, <3>1
    <3>2. CASE b # a
      BY <2>1, <3>2
    <3>3. QED
      BY <3>1, <3>2
  <2>5. \A b \in DOMAIN applying : b \in DOMAIN applying' /\ applying'[b] = applying[b]
    BY <2>1
  <2>6. exposed \subseteq exposed' /\ UNCHANGED grants
    BY <2>2
  <2>7. QED
    BY <2>3, <2>4, <2>5, <2>6, OnceKept
<1>7. ASSUME NEW d \in Deliveries,
             \/ LookForDuplicate(d)
             \/ HookStep(d)
             \/ HookFails(d)
             \/ \E r \in Rewards : EnqueueFails(d, r)
      PROVE  Once'
  <2>1. UNCHANGED <<applying, grants, exposed>>
    BY <1>7 DEF LookForDuplicate, HookStep, CreateRewards, Enqueue, HookFails,
                EnqueueFails, EnqueueNext, hookVars
  <2>2. \A r \in Created : r \in Created' /\ rewards'[r] = rewards[r]
    BY <1>7 DEF LookForDuplicate, HookStep, CreateRewards, Enqueue, HookFails,
                EnqueueFails, EnqueueNext, hookVars, Created
  <2>3. QED
    BY <2>1, <2>2, OnceKept
<1>8. CASE UNCHANGED vars
  BY <1>8, OnceKept DEF vars, Created
<1>9. ASSUME NEW w \in Workers, NEW r \in Rewards, TakeJob(w, r)  PROVE Once'
  <2>1. Begin(w, {r}) /\ {r} \in SUBSET Created /\ w \in Appliers
        /\ UNCHANGED callVars
    BY <1>9 DEF TakeJob, Appliers, Base, TypeOK
  <2>2. QED
    BY <2>1, <1>6
<1>10. ASSUME NEW s \in Sweeps, Sweep(s)  PROVE Once'
  <2>1. PICK rows \in FindUnapplied : Begin(s, rows)
    BY <1>10 DEF Sweep
  <2>2. rows \in SUBSET Created /\ s \in Appliers /\ UNCHANGED callVars
    BY <1>10, <2>1 DEF FindUnapplied, Unapplied, Sweep, Appliers
  <2>3. QED
    BY <2>1, <2>2, <1>6
<1>11. QED
  BY <1>1, <1>2, <1>3, <1>4, <1>5, <1>7, <1>8, <1>9, <1>10
     DEF Next, SomeFault, ApplyStep

(* In every run a reward is given twice only if two appliers held it at    *)
(* the same time, or one gave it and then failed or died before the mark.  *)
THEOREM GivenTwiceOnlyIfExposedHolds == Spec => []GivenTwiceOnlyIfExposed
<1>1. Base /\ Once => GivenTwiceOnlyIfExposed
  BY DEF Base, TypeOK, Once, OnceFor, GivenTwiceOnlyIfExposed
<1>2. QED
  BY <1>1, BaseInit, BaseStep, OnceInit, OnceStep, PTL DEF Spec

-----------------------------------------------------------------------------
(* The rewards of a conversion: every delivery that created any created    *)
(* its extension too, and has left the lookup behind.                      *)
Whole ==
  \A r \in Created : /\ <<r[1], "extension">> \in Created
                     /\ r[1] \in DOMAIN hooks /\ hooks[r[1]].pc # "create"

(* For a code that was never raced: one delivery created its rewards, or   *)
(* one is about to and none did.                                           *)
UniqueFor(c) ==
  /\ \A q, r \in Created : CodeOfReward(q) = c /\ CodeOfReward(r) = c => q[1] = r[1]
  /\ \A d, e \in DOMAIN hooks :
       HookAt(d, "create") /\ HookAt(e, "create") /\ CodeOf[d] = c /\ CodeOf[e] = c
         => d = e
  /\ \A d \in DOMAIN hooks, r \in Created :
       HookAt(d, "create") /\ CodeOf[d] = c => CodeOfReward(r) # c

UniqueSets == Whole /\ \A c \in Codes \ raced : UniqueFor(c)

LEMMA UniqueInit == Init => UniqueSets
BY DEF Init, UniqueSets, Whole, UniqueFor, Created

(* No row is added, and nobody comes to create some. *)
LEMMA UniqueKept ==
  ASSUME UniqueSets, raced \subseteq raced', Created' = Created,
         DOMAIN hooks \subseteq DOMAIN hooks',
         \A d \in DOMAIN hooks' : hooks'[d].pc = "create" =>
            d \in DOMAIN hooks /\ hooks[d].pc = "create"
  PROVE  UniqueSets'
<1>1. Whole'
  BY DEF UniqueSets, Whole
<1>2. ASSUME NEW c \in Codes \ raced'  PROVE UniqueFor(c)'
  <2>1. UniqueFor(c)
    BY <1>2 DEF UniqueSets
  <2>2. \A d \in DOMAIN hooks' : HookAt(d, "create")' =>
           d \in DOMAIN hooks /\ HookAt(d, "create")
    BY DEF HookAt
  <2>3. \A q, r \in Created' :
           CodeOfReward(q)' = c /\ CodeOfReward(r)' = c => q[1] = r[1]
    BY <2>1 DEF UniqueFor, CodeOfReward
  <2>4. \A d, e \in DOMAIN hooks' :
           HookAt(d, "create")' /\ HookAt(e, "create")' /\ CodeOf[d] = c /\ CodeOf[e] = c
             => d = e
    BY <2>1, <2>2 DEF UniqueFor
  <2>5. \A d \in DOMAIN hooks', r \in Created' :
           HookAt(d, "create")' /\ CodeOf[d] = c => CodeOfReward(r)' # c
    BY <2>1, <2>2 DEF UniqueFor, CodeOfReward
  <2>6. QED
    BY <2>3, <2>4, <2>5 DEF UniqueFor
<1>3. QED
  BY <1>1, <1>2 DEF UniqueSets

LEMMA UniqueLooked ==
  ASSUME Base, UniqueSets, NEW d \in Deliveries, LookForDuplicate(d)
  PROVE  UniqueSets'
<1>1. /\ d \notin DOMAIN hooks
      /\ DOMAIN hooks' = DOMAIN hooks \cup {d}
      /\ \A e \in DOMAIN hooks : hooks'[e] = hooks[e]
      /\ hooks'[d].pc = "create" => ~ Duplicate(d)
      /\ Created' = Created
      /\ raced \subseteq raced'
      /\ ~ Duplicate(d) /\ Creating(CodeOf[d]) => CodeOf[d] \in raced'
  BY DEF LookForDuplicate, Put, Created
<1>2. CASE hooks'[d].pc # "create"
  BY <1>1, <1>2, UniqueKept
<1>3. CASE hooks'[d].pc = "create"
  <2>1. Whole'
    BY <1>1 DEF UniqueSets, Whole
  <2>2. \A r \in Created : CodeOfReward(r) # CodeOf[d]
    <3>1. SUFFICES ASSUME NEW r \in Created, CodeOfReward(r) = CodeOf[d]  PROVE FALSE
      OBVIOUS
    <3>2. <<r[1], "extension">> \in Created
      BY DEF UniqueSets, Whole
    <3>3. QED
      BY <1>1, <1>3, <3>1, <3>2 DEF Duplicate, IsExtension, CodeOfReward
  <2>3. ASSUME NEW c \in Codes \ raced'  PROVE UniqueFor(c)'
    <3>1. UniqueFor(c)
      BY <1>1, <2>3 DEF UniqueSets
    <3>2. CodeOf[d] = c =>
            \A e \in DOMAIN hooks : ~ (hooks[e].pc = "create" /\ CodeOf[e] = c)
      BY <1>1, <1>3, <2>3 DEF Creating
    <3>3. \A q, r \in Created' :
             CodeOfReward(q)' = c /\ CodeOfReward(r)' = c => q[1] = r[1]
      BY <1>1, <3>1 DEF UniqueFor, CodeOfReward
    <3>4. ASSUME NEW e \in DOMAIN hooks', NEW f \in DOMAIN hooks',
                 hooks'[e].pc = "create", hooks'[f].pc = "create",
                 CodeOf[e] = c, CodeOf[f] = c
          PROVE  e = f
      <4>1. CASE e = d \/ f = d
        BY <1>1, <3>2, <3>4, <4>1
      <4>2. CASE e # d /\ f # d
        BY <1>1, <3>1, <3>4, <4>2 DEF UniqueFor, HookAt
      <4>3. QED
        BY <4>1, <4>2
    <3>5. ASSUME NEW e \in DOMAIN hooks', NEW r \in Created',
                 hooks'[e].pc = "create", CodeOf[e] = c
          PROVE  CodeOfReward(r) # c
      <4>1. CASE e = d
        BY <1>1, <2>2, <3>5, <4>1
      <4>2. CASE e # d
        BY <1>1, <3>1, <3>5, <4>2 DEF UniqueFor, HookAt
      <4>3. QED
        BY <4>1, <4>2
    <3>6. QED
      BY <3>3, <3>4, <3>5 DEF UniqueFor, HookAt, CodeOfReward
  <2>4. QED
    BY <2>1, <2>3 DEF UniqueSets
<1>4. QED
  BY <1>2, <1>3

LEMMA UniqueCreated ==
  ASSUME Base, UniqueSets, NEW d \in Deliveries, CreateRewards(d)
  PROVE  UniqueSets'
<1>1. /\ d \in DOMAIN hooks /\ hooks[d].pc = "create" /\ hooks[d] \in Hook
      /\ Created' = Created \cup RewardsOf(d)
      /\ hooks' = [hooks EXCEPT ![d].pc = "enqueue", ![d].todo = RewardsOf(d)]
      /\ raced' = raced
  BY DEF CreateRewards, HookAt, Created, Base, TypeOK
<1>2. /\ DOMAIN hooks' = DOMAIN hooks
      /\ hooks'[d].pc = "enqueue"
      /\ \A e \in DOMAIN hooks : e # d => hooks'[e] = hooks[e]
  BY <1>1 DEF Base, TypeOK, Hook
<1>3. \A r \in RewardsOf(d) : r[1] = d /\ CodeOfReward(r) = CodeOf[d]
  BY DEF RewardsOf, CodeOfReward
<1>4. Whole'
  <2>1. <<d, "extension">> \in RewardsOf(d)
    BY ReferralAssumption DEF RewardsOf
  <2>2. ASSUME NEW r \in Created'
        PROVE  /\ <<r[1], "extension">> \in Created'
               /\ r[1] \in DOMAIN hooks' /\ hooks'[r[1]].pc # "create"
    <3>1. CASE r \in Created
      BY <1>1, <1>2, <3>1 DEF UniqueSets, Whole
    <3>2. CASE r \in RewardsOf(d)
      BY <1>1, <1>2, <1>3, <2>1, <3>2
    <3>3. QED
      BY <1>1, <2>2, <3>1, <3>2
  <2>3. QED
    BY <2>2 DEF Whole
<1>5. ASSUME NEW c \in Codes \ raced'  PROVE UniqueFor(c)'
  <2>1. UniqueFor(c)
    BY <1>1, <1>5 DEF UniqueSets
  <2>2. CodeOf[d] = c => \A r \in Created : CodeOfReward(r) # c
    BY <1>1, <2>1 DEF UniqueFor, HookAt
  <2>3. ASSUME NEW q \in Created', NEW r \in Created',
               CodeOfReward(q) = c, CodeOfReward(r) = c
        PROVE  q[1] = r[1]
    <3>1. CASE q \in Created /\ r \in Created
      BY <2>1, <2>3, <3>1 DEF UniqueFor
    <3>2. CASE q \in RewardsOf(d) /\ r \in RewardsOf(d)
      BY <1>3, <3>2
    <3>3. CASE (q \in RewardsOf(d) /\ r \in Created) \/ (r \in RewardsOf(d) /\ q \in Created)
      BY <1>3, <2>2, <2>3, <3>3
    <3>4. QED
      BY <1>1, <2>3, <3>1, <3>2, <3>3
  <2>4. \A e, f \in DOMAIN hooks' :
           hooks'[e].pc = "create" /\ hooks'[f].pc = "create" /\ CodeOf[e] = c
             /\ CodeOf[f] = c => e = f
    BY <1>2, <2>1 DEF UniqueFor, HookAt
  <2>5. ASSUME NEW e \in DOMAIN hooks', NEW r \in Created',
               hooks'[e].pc = "create", CodeOf[e] = c
        PROVE  CodeOfReward(r) # c
    <3>1. e # d /\ hooks[e].pc = "create" /\ e \in DOMAIN hooks
      BY <1>2, <2>5
    <3>2. CodeOf[d] # c
      BY <1>1, <2>1, <2>5, <3>1 DEF UniqueFor, HookAt
    <3>3. CASE r \in Created
      BY <2>1, <2>5, <3>1, <3>3 DEF UniqueFor, HookAt
    <3>4. CASE r \in RewardsOf(d)
      BY <1>3, <3>2, <3>4
    <3>5. QED
      BY <1>1, <2>5, <3>3, <3>4
  <2>6. QED
    BY <2>3, <2>4, <2>5 DEF UniqueFor, HookAt, CodeOfReward
<1>6. QED
  BY <1>4, <1>5 DEF UniqueSets

LEMMA UniqueStep == Base /\ Base' /\ UniqueSets /\ [Next]_vars => UniqueSets'
<1> SUFFICES ASSUME Base, Base', UniqueSets, [Next]_vars  PROVE UniqueSets'
  OBVIOUS
<1>1. ASSUME NEW a \in Appliers,
             ApplyStep(a) \/ ApplierDies(a) \/ \E r \in Rewards : ApplyFails(a, r)
      PROVE  UniqueSets'
  <2>1. UNCHANGED <<hooks, raced>>
    BY <1>1 DEF ApplyStep, CheckReward, GiveCredit, ReadExpiry, PassOver, WriteExpiry,
                MarkApplied, ApplyFails, ApplierDies, giveVars
  <2>2. Created' = Created
    BY <1>1 DEF ApplyStep, CheckReward, GiveCredit, ReadExpiry, PassOver, WriteExpiry,
                MarkApplied, ApplyFails, ApplierDies, giveVars, Created
  <2>3. QED
    BY <2>1, <2>2, UniqueKept
<1>2. ASSUME \/ \E w \in Workers, r \in Rewards : TakeJob(w, r)
             \/ \E s \in Sweeps : Sweep(s)
      PROVE  UniqueSets'
  <2>1. UNCHANGED <<hooks, raced, rewards>>
    BY <1>2 DEF TakeJob, Sweep, callVars
  <2>2. QED
    BY <2>1, UniqueKept DEF Created
<1>3. ASSUME NEW d \in Deliveries, NEW r \in Rewards,
             Enqueue(d, r) \/ EnqueueFails(d, r)
      PROVE  UniqueSets'
  <2>1. /\ UNCHANGED <<raced, rewards>> /\ d \in DOMAIN hooks
        /\ hooks[d] \in Hook
        /\ hooks[d].pc = "enqueue"
    BY <1>3 DEF Enqueue, EnqueueFails, EnqueueNext, HookAt, Base, TypeOK
  <2>2. /\ DOMAIN hooks' = DOMAIN hooks
        /\ \A e \in DOMAIN hooks : e # d => hooks'[e] = hooks[e]
        /\ hooks'[d].pc # "create"
    BY <1>3, <2>1 DEF Enqueue, EnqueueFails, EnqueueNext, Base, TypeOK, Hook
  <2>3. QED
    BY <2>1, <2>2, UniqueKept DEF Created
<1>4. ASSUME NEW d \in Deliveries, HookFails(d)  PROVE UniqueSets'
  <2>1. /\ UNCHANGED <<raced, rewards>> /\ d \in DOMAIN hooks
        /\ hooks[d] \in Hook
        /\ hooks' = [hooks EXCEPT ![d].pc = "done"]
    BY <1>4 DEF HookFails, HookGoes, Base, TypeOK
  <2>2. /\ DOMAIN hooks' = DOMAIN hooks
        /\ \A e \in DOMAIN hooks : e # d => hooks'[e] = hooks[e]
        /\ hooks'[d].pc # "create"
    BY <2>1 DEF Base, TypeOK, Hook
  <2>3. QED
    BY <2>1, <2>2, UniqueKept DEF Created
<1>5. CASE UNCHANGED vars
  BY <1>5, UniqueKept DEF vars, Created
<1>6. QED
  BY <1>1, <1>2, <1>3, <1>4, <1>5, UniqueLooked, UniqueCreated
     DEF Next, SomeFault, HookStep

(* In every run a conversion is rewarded by two deliveries of its webhook  *)
(* only if both looked for a duplicate before either created its rewards.  *)
THEOREM RewardedTwiceOnlyIfRacedHolds == Spec => []RewardedTwiceOnlyIfRaced
<1>1. Base /\ UniqueSets => RewardedTwiceOnlyIfRaced
  <2>1. SUFFICES ASSUME Base, UniqueSets, NEW q \in Created, NEW r \in Created,
                        CodeOfReward(q) = CodeOfReward(r), q[1] # r[1],
                        CodeOfReward(r) \notin raced
                 PROVE  FALSE
    BY DEF RewardedTwiceOnlyIfRaced
  <2>2. CodeOfReward(r) \in Codes
    <3>1. r \in Deliveries \X Specs
      BY <2>1 DEF Base, TypeOK, Rewards
    <3>2. r[1] \in Deliveries
      BY <3>1
    <3>3. QED
      BY <3>2, ReferralAssumption DEF CodeOfReward
  <2>3. QED
    BY <2>1, <2>2 DEF UniqueSets, UniqueFor
<1>2. QED
  BY <1>1, BaseInit, BaseStep, UniqueInit, UniqueStep, PTL DEF Spec
=============================================================================
