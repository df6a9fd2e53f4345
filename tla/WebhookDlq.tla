------------------------------ MODULE WebhookDlq ------------------------------
(***************************************************************************)
(* The dead-letter queue of outbound webhooks: WebhookDlqService,          *)
(* WebhookDlqRetryJob and DlqController (apps/api/src/modules/billing)     *)
(* over the table webhook_delivery_failures.                               *)
(*                                                                         *)
(* The cron job runs in every replica of the API, and a tick may outlive   *)
(* the five minutes to the next one, so any number of ticks and manual     *)
(* replays overlap.  Each keeps, between its awaits, the attempt number it *)
(* computed from the row it read.  No update is conditional.               *)
(*                                                                         *)
(* A row stands for one failed delivery: one envelope for one consumer.    *)
(***************************************************************************)
EXTENDS Integers, FiniteSets

CONSTANTS
  Rows,        \* ids of failed deliveries
  NoRow,       \* not the id of a failed delivery
  Jobs,        \* ticks and manual replays that may be in flight at once
  MaxAttempts, \* WEBHOOK_DLQ_MAX_ATTEMPTS
  BatchSize,   \* WEBHOOK_DLQ_BATCH_SIZE
  MaxForces,   \* bound on manual replays
  MaxDlqFaults \* bound on failed database calls and replica restarts

ASSUME DlqAssumption ==
  /\ NoRow \notin Rows
  /\ MaxAttempts \in Nat /\ MaxAttempts > 1
  /\ BatchSize \in Nat /\ BatchSize > 0
  /\ MaxForces \in Nat
  /\ MaxDlqFaults \in Nat

VARIABLES
  dlq,       \* webhook_delivery_failures: id -> row, over the rows that exist
  replays,   \* ticks and manual replays in flight: job -> what it has read
  accepted,  \* (external) deliveries the consumer has processed
  forces,    \* manual replays so far
  dlqFaults, \* failed database calls and restarts so far
  \* History variables, read by the properties only.
  tries,     \* per delivery, POSTs sent, the one that failed first included
  byHand     \* deliveries an operator has marked resolved

dlqVars == <<dlq, replays, accepted, forces, dlqFaults, tries, byHand>>

-----------------------------------------------------------------------------

(* nextRetryAt: null, ahead of the clock, or passed by it. *)
Retry == {"never", "later", "due"}

DlqRow == [attempts : Nat \ {0}, retry : Retry, resolved : BOOLEAN]

(* What a job awaits next: the read of the next row of its batch, the       *)
(* answer to a POST, or the update after a 2xx or after anything else.      *)
ReplayPc == {"read", "post", "succeed", "fail"}

Replay == [pc : ReplayPc, batch : SUBSET Rows, row : Rows \cup {NoRow},
           attempt : Nat, force : BOOLEAN]

Recorded == DOMAIN dlq
Idle(j) == j \notin DOMAIN replays
ReplayAt(j, pc) == j \in DOMAIN replays /\ replays[j].pc = pc

DlqTypeOK ==
  /\ Recorded \subseteq Rows
  /\ dlq \in [Recorded -> DlqRow]
  /\ DOMAIN replays \subseteq Jobs
  /\ replays \in [DOMAIN replays -> Replay]
  /\ accepted \subseteq Rows
  /\ forces \in 0..MaxForces
  /\ dlqFaults \in 0..MaxDlqFaults
  /\ tries \in [Rows -> Nat]
  /\ byHand \subseteq Rows

DlqInit ==
  /\ dlq = [r \in {} |-> 0]
  /\ replays = [j \in {} |-> 0]
  /\ accepted = {}
  /\ forces = 0
  /\ dlqFaults = 0
  /\ tries = [r \in Rows |-> 0]
  /\ byHand = {}

-----------------------------------------------------------------------------
(* Definitions named ...Mutant are plausible mistakes in the definition     *)
(* after them. No specification uses one: each shows that a property can    *)
(* fail, when it stands in for that definition.                             *)

(* recordFailure: a dispatcher's POST failed.  The consumer may have        *)
(* processed it all the same, when only the answer was lost.                *)

RecordFailure(r) ==
  /\ r \in Rows \ Recorded
  /\ dlq' = [s \in Recorded \cup {r} |->
               IF s = r THEN [attempts |-> 1, retry |-> "later",
                              resolved |-> FALSE]
                        ELSE dlq[s]]

Dispatched(r, arrived) ==
  /\ RecordFailure(r)
  /\ tries' = [tries EXCEPT ![r] = 1]
  /\ accepted' = IF arrived THEN accepted \cup {r} ELSE accepted
  /\ UNCHANGED <<replays, forces, dlqFaults, byHand>>

(* The clock passes nextRetryAt. *)
BecomeDue(r) ==
  /\ r \in Recorded
  /\ dlq[r].retry = "later"
  /\ dlq' = [dlq EXCEPT ![r].retry = "due"]
  /\ UNCHANGED <<replays, accepted, forces, dlqFaults, tries, byHand>>

-----------------------------------------------------------------------------
(* The cron job and the manual replay *)

DueMutant == {r \in Recorded : /\ ~ dlq[r].resolved
                               /\ dlq[r].retry = "due"
                               /\ dlq[r].attempts < MaxAttempts - 1}

Due == {r \in Recorded : /\ ~ dlq[r].resolved
                         /\ dlq[r].retry = "due"
                         /\ dlq[r].attempts < MaxAttempts}

(* findDueForRetry: at most BatchSize of the rows that are due. *)
FindDueForRetry ==
  {batch \in SUBSET Due :
     /\ batch # {}
     /\ Cardinality(batch) <= BatchSize
     /\ batch = Due \/ Cardinality(batch) = BatchSize}

Start(j, batch, force) ==
  /\ Idle(j)
  /\ replays' = [i \in DOMAIN replays \cup {j} |->
                   IF i = j THEN [pc |-> "read", batch |-> batch, row |-> NoRow,
                                  attempt |-> 0, force |-> force]
                            ELSE replays[i]]

Tick(j) ==
  /\ \E batch \in FindDueForRetry : Start(j, batch, FALSE)
  /\ UNCHANGED <<dlq, accepted, forces, dlqFaults, tries, byHand>>

(* POST billing/dlq/:id/replay *)
ReplayByHand(j, r) ==
  /\ forces < MaxForces
  /\ forces' = forces + 1
  /\ r \in Recorded
  /\ Start(j, {r}, TRUE)
  /\ UNCHANGED <<dlq, accepted, dlqFaults, tries, byHand>>

(* POST billing/dlq/:id/resolve *)
MarkResolved(r) ==
  /\ r \in Recorded
  /\ dlq' = [dlq EXCEPT ![r].resolved = TRUE, ![r].retry = "never"]
  /\ byHand' = byHand \cup {r}
  /\ UNCHANGED <<replays, accepted, forces, dlqFaults, tries>>

(* replayDelivery of one row is over: the tick goes on to its next row. *)
NextRow(j, r) ==
  LET rest == replays[j].batch \ {r}
  IN  replays' = IF rest = {}
                 THEN [i \in DOMAIN replays \ {j} |-> replays[i]]
                 ELSE [replays EXCEPT ![j].pc = "read", ![j].batch = rest,
                                      ![j].row = NoRow]

(* The row may have been retried, exhausted or resolved since the tick     *)
(* found it: only resolvedAt is looked at again.                           *)
ReadRow(j, r) ==
  /\ ReplayAt(j, "read")
  /\ r \in replays[j].batch
  /\ IF dlq[r].resolved /\ ~ replays[j].force
     THEN NextRow(j, r)
     ELSE replays' = [replays EXCEPT
            ![j].pc = "post", ![j].row = r,
            ![j].attempt = IF replays[j].force THEN 1 ELSE dlq[r].attempts + 1]
  /\ UNCHANGED <<dlq, accepted, forces, dlqFaults, tries, byHand>>

(* A 2xx answer means that the consumer has processed the delivery; a       *)
(* refusal, a time-out and a lost answer are failures.                      *)
Post(j, arrived, answered) ==
  /\ ReplayAt(j, "post")
  /\ LET r == replays[j].row
     IN  /\ tries' = [tries EXCEPT ![r] = @ + 1]
         /\ accepted' = IF arrived THEN accepted \cup {r} ELSE accepted
         /\ replays' = [replays EXCEPT ![j].pc =
                          IF arrived /\ answered THEN "succeed" ELSE "fail"]
  /\ UNCHANGED <<dlq, forces, dlqFaults, byHand>>

Succeed(j) ==
  /\ ReplayAt(j, "succeed")
  /\ LET r == replays[j].row
     IN  /\ dlq' = [dlq EXCEPT ![r] = [attempts |-> replays[j].attempt,
                                       retry |-> "never", resolved |-> TRUE]]
         /\ NextRow(j, r)
  /\ UNCHANGED <<accepted, forces, dlqFaults, tries, byHand>>

ExhaustedMutant(attempt) == attempt > MaxAttempts
ExhaustedEarlyMutant(attempt) == attempt >= MaxAttempts - 1
Exhausted(attempt) == attempt >= MaxAttempts

FailMutant(j) ==
  /\ ReplayAt(j, "fail")
  /\ LET r == replays[j].row
         attempt == replays[j].attempt
     IN  /\ dlq' = [dlq EXCEPT ![r] =
               [attempts |-> attempt, resolved |-> FALSE,
                retry |-> IF Exhausted(attempt) THEN "never" ELSE "later"]]
         /\ NextRow(j, r)
  /\ UNCHANGED <<accepted, forces, dlqFaults, tries, byHand>>

(* resolvedAt is left as it is. *)
Fail(j) ==
  /\ ReplayAt(j, "fail")
  /\ LET r == replays[j].row
         attempt == replays[j].attempt
     IN  /\ dlq' = [dlq EXCEPT
               ![r].attempts = attempt,
               ![r].retry = IF Exhausted(attempt) THEN "never" ELSE "later"]
         /\ NextRow(j, r)
  /\ UNCHANGED <<accepted, forces, dlqFaults, tries, byHand>>

-----------------------------------------------------------------------------
(* Failures *)

(* A database call of replayDelivery throws: the job drops the row and goes *)
(* on to the next one.                                                      *)
ReplayThrows(j, r) ==
  /\ dlqFaults < MaxDlqFaults
  /\ dlqFaults' = dlqFaults + 1
  /\ \/ ReplayAt(j, "read") /\ r \in replays[j].batch
     \/ j \in DOMAIN replays /\ replays[j].pc \in {"succeed", "fail"}
                             /\ r = replays[j].row
  /\ NextRow(j, r)
  /\ UNCHANGED <<dlq, accepted, forces, tries, byHand>>

(* The replica that runs the job restarts. *)
ReplayDies(j) ==
  /\ dlqFaults < MaxDlqFaults
  /\ dlqFaults' = dlqFaults + 1
  /\ j \in DOMAIN replays
  /\ replays' = [i \in DOMAIN replays \ {j} |-> replays[i]]
  /\ UNCHANGED <<dlq, accepted, forces, tries, byHand>>

-----------------------------------------------------------------------------

ReplayStep(j) ==
  \/ \E r \in Rows : ReadRow(j, r)
  \/ \E arrived, answered \in BOOLEAN : Post(j, arrived, answered)
  \/ Succeed(j)
  \/ Fail(j)

(* All that happens after a failure was recorded. *)
DlqStep ==
  \/ \E j \in Jobs :
       \/ Tick(j)
       \/ ReplayStep(j)
       \/ ReplayDies(j)
       \/ \E r \in Rows : ReplayByHand(j, r) \/ ReplayThrows(j, r)
  \/ \E r \in Rows : BecomeDue(r) \/ MarkResolved(r)

DlqNext == DlqStep \/ \E r \in Rows, arrived \in BOOLEAN : Dispatched(r, arrived)

(* The clock moves on, the cron job ticks in every replica, and the calls  *)
(* of a job in flight answer, fail or time out.                            *)
DlqFairness ==
  /\ \A r \in Rows : WF_dlqVars(BecomeDue(r))
  /\ \A j \in Jobs : WF_dlqVars(Tick(j)) /\ WF_dlqVars(ReplayStep(j))

DlqSpec == DlqInit /\ [][DlqNext]_dlqVars

FairDlqSpec == DlqSpec /\ DlqFairness

-----------------------------------------------------------------------------
(* Properties *)

(* The auto-retry job never loses a row: one that is not resolved either   *)
(* has a retry ahead that findDueForRetry (304-314) will pick up, or has   *)
(* used up its attempts, whatever ticks and manual replays overlap on it.  *)
NoRowIsStuck ==
  \A r \in Recorded : ~ dlq[r].resolved =>
    (dlq[r].retry = "never" <=> dlq[r].attempts >= MaxAttempts)

(* A resolved row was processed by the consumer, or an operator said so    *)
(* (replayDelivery 226-236, markResolved 320-331).                         *)
ResolvedWasDelivered ==
  \A r \in Recorded : dlq[r].resolved => r \in accepted \cup byHand

(* No delivery is given up before MaxAttempts POSTs of it were sent: the    *)
(* count in the row never runs ahead of the POSTs, although overlapping     *)
(* replays write it from stale reads (replayDelivery 187, 252-264).         *)
NotGivenUpEarly ==
  \A r \in Recorded :
    ~ dlq[r].resolved /\ dlq[r].retry = "never" => tries[r] >= MaxAttempts

(* A late failure of an overlapping replay never reopens a row that another *)
(* replay or an operator has resolved (the failure branch 255-264).         *)
ResolvedIsFinal ==
  [][\A r \in Recorded : dlq[r].resolved => dlq'[r].resolved]_dlqVars

PhaseOf(r) ==
  IF r \notin Recorded THEN "none"
  ELSE IF dlq[r].resolved THEN "closed"
  ELSE IF dlq[r].retry = "never" THEN "givenUp"
  ELSE "pending"

Letter == INSTANCE DeadLetter WITH phase <- [r \in Rows |-> PhaseOf(r)]

(* The table, the jobs and the operators together keep what DeadLetter      *)
(* promises of each delivery: however replays overlap, a row is closed for  *)
(* good, only once its consumer has processed it or by hand, and given up   *)
(* only after MaxAttempts POSTs (replayDelivery 167-297).                   *)
LetterSpec == Letter!LetterSpec

(* Every failed delivery is in the end resolved, or given up and left to    *)
(* an operator: overlapping replays may set the attempt count back, but     *)
(* not for ever.                                                            *)
FailureSettles ==
  \A r \in Rows :
    r \in Recorded ~>
      (r \in Recorded /\ (dlq[r].resolved \/ dlq[r].retry = "never"))
=============================================================================
