-------------------------- MODULE PaymentRelayProofs --------------------------
(***************************************************************************)
(* Proofs about WebhookDlq, for any number of rows, jobs and attempts, and  *)
(* about PaymentRelay, for any number of events, consumers, handlers and    *)
(* envelopes.                                                               *)
(*                                                                         *)
(* First the queue on its own.  Base (types, and every job works on rows    *)
(* that exist) is preserved by every step; the invariants after it use it  *)
(* and what a job remembers between its read, its POST and its update.     *)
(*                                                                         *)
(* Then the relay.  What the queue contributes to it is taken from the     *)
(* first part: its steps keep Base, and never lose a row or forget a        *)
(* delivery (Grows).                                                        *)
(***************************************************************************)
EXTENDS PaymentRelay, TLAPS

-----------------------------------------------------------------------------
(* The dead-letter queue *)

JobsHoldRows ==
  \A j \in DOMAIN replays :
    /\ replays[j].batch \subseteq Recorded
    /\ replays[j].pc # "read" => /\ replays[j].row \in replays[j].batch
                                 /\ replays[j].attempt > 0

Base == DlqTypeOK /\ JobsHoldRows

-----------------------------------------------------------------------------
(* What the helpers do to the jobs in flight. *)

LEMMA StartFacts ==
  ASSUME Base, NEW j \in Jobs, NEW batch \in SUBSET Recorded,
         NEW force \in BOOLEAN, Start(j, batch, force)
  PROVE  /\ DOMAIN replays' \subseteq Jobs
         /\ replays' \in [DOMAIN replays' -> Replay]
         /\ \A i \in DOMAIN replays' :
              \/ i \in DOMAIN replays /\ replays'[i] = replays[i]
              \/ replays'[i].pc = "read" /\ replays'[i].batch = batch
<1> DEFINE new == [pc |-> "read", batch |-> batch, row |-> NoRow,
                   attempt |-> 0, force |-> force]
<1>1. batch \in SUBSET Rows
  BY DEF Base, DlqTypeOK
<1>2. new \in Replay
  BY <1>1 DEF Replay, ReplayPc
<1>3. /\ DOMAIN replays' = DOMAIN replays \cup {j}
      /\ \A i \in DOMAIN replays' :
           replays'[i] = IF i = j THEN new ELSE replays[i]
      /\ replays' = [i \in DOMAIN replays' |-> replays'[i]]
  BY DEF Start
<1>4. QED
  BY <1>2, <1>3 DEF Base, DlqTypeOK

LEMMA NextRowFacts ==
  ASSUME Base, NEW j \in DOMAIN replays, NEW r, NextRow(j, r)
  PROVE  /\ DOMAIN replays' \subseteq DOMAIN replays
         /\ replays' \in [DOMAIN replays' -> Replay]
         /\ \A i \in DOMAIN replays' :
              \/ replays'[i] = replays[i]
              \/ /\ replays'[i].pc = "read"
                 /\ replays'[i].batch \subseteq replays[i].batch
<1> DEFINE rest == replays[j].batch \ {r}
<1>1. replays \in [DOMAIN replays -> Replay] /\ replays[j] \in Replay
  BY DEF Base, DlqTypeOK
<1>2. CASE rest = {}
  <2>1. replays' = [i \in DOMAIN replays \ {j} |-> replays[i]]
    BY <1>2 DEF NextRow
  <2>2. QED
    BY <1>1, <2>1
<1>3. CASE rest # {}
  <2>1. replays' = [replays EXCEPT ![j].pc = "read", ![j].batch = rest,
                                   ![j].row = NoRow]
    BY <1>3 DEF NextRow
  <2> DEFINE new == [replays[j] EXCEPT !.pc = "read", !.batch = rest,
                                       !.row = NoRow]
  <2>2. new \in Replay /\ new.pc = "read" /\ new.batch = rest
    BY <1>1 DEF Replay, ReplayPc
  <2>3. DOMAIN replays' = DOMAIN replays /\ replays'[j] = new
        /\ \A i \in DOMAIN replays : i # j => replays'[i] = replays[i]
    BY <1>1, <2>1
  <2>4. replays' \in [DOMAIN replays' -> Replay]
    BY <1>1, <2>1, <2>2, <2>3
  <2>5. QED
    BY <2>2, <2>3, <2>4
<1>4. QED
  BY <1>2, <1>3

-----------------------------------------------------------------------------
(* Base is preserved by each action.  The lemmas also say what the later    *)
(* invariants and the module of the payment relay need: no row disappears   *)
(* and no delivery is forgotten.                                            *)

Grows == Recorded \subseteq Recorded' /\ accepted \subseteq accepted'

(* Actions that leave the table alone, or change rows in place. *)
LEMMA RowsStay ==
  ASSUME Base, DOMAIN dlq' = Recorded, dlq' \in [Recorded -> DlqRow],
         DOMAIN replays' \subseteq Jobs,
         replays' \in [DOMAIN replays' -> Replay],
         \A j \in DOMAIN replays' :
           /\ replays'[j].batch \subseteq Recorded
           /\ replays'[j].pc # "read" => /\ replays'[j].row \in replays'[j].batch
                                         /\ replays'[j].attempt > 0,
         accepted' \in SUBSET Rows, accepted \subseteq accepted',
         forces' \in 0..MaxForces, dlqFaults' \in 0..MaxDlqFaults,
         tries' \in [Rows -> Nat], byHand' \in SUBSET Rows
  PROVE  Base' /\ Grows
BY DEF Base, DlqTypeOK, JobsHoldRows, Grows, Recorded

LEMMA BecomeDueBase ==
  ASSUME Base, NEW r \in Rows, BecomeDue(r)
  PROVE  Base' /\ Grows
<1>1. dlq[r] \in DlqRow /\ r \in Recorded
  BY DEF Base, DlqTypeOK, BecomeDue
<1>2. [dlq[r] EXCEPT !.retry = "due"] \in DlqRow
  BY <1>1 DEF DlqRow, Retry
<1>3. DOMAIN dlq' = Recorded /\ dlq' \in [Recorded -> DlqRow]
  BY <1>1, <1>2 DEF BecomeDue, Base, DlqTypeOK, Recorded
<1>4. QED
  BY <1>3, RowsStay DEF BecomeDue, Base, DlqTypeOK, JobsHoldRows

LEMMA MarkResolvedBase ==
  ASSUME Base, NEW r \in Rows, MarkResolved(r)
  PROVE  Base' /\ Grows
<1>1. dlq[r] \in DlqRow /\ r \in Recorded
  BY DEF Base, DlqTypeOK, MarkResolved
<1>2. [dlq[r] EXCEPT !.resolved = TRUE, !.retry = "never"] \in DlqRow
  BY <1>1 DEF DlqRow, Retry
<1>3. DOMAIN dlq' = Recorded /\ dlq' \in [Recorded -> DlqRow]
  BY <1>1, <1>2 DEF MarkResolved, Base, DlqTypeOK, Recorded
<1>4. QED
  BY <1>3, RowsStay DEF MarkResolved, Base, DlqTypeOK, JobsHoldRows

LEMMA TickBase ==
  ASSUME Base, NEW j \in Jobs, Tick(j)
  PROVE  /\ Base' /\ Grows
         /\ \A i \in DOMAIN replays' :
              \/ i \in DOMAIN replays /\ replays'[i] = replays[i]
              \/ replays'[i].pc = "read"
<1>1. PICK batch \in FindDueForRetry : Start(j, batch, FALSE)
  BY DEF Tick
<1>2. batch \in SUBSET Recorded
  BY DEF FindDueForRetry, Due
<1>3. /\ DOMAIN replays' \subseteq Jobs
      /\ replays' \in [DOMAIN replays' -> Replay]
      /\ \A i \in DOMAIN replays' :
           \/ i \in DOMAIN replays /\ replays'[i] = replays[i]
           \/ replays'[i].pc = "read" /\ replays'[i].batch = batch
  BY <1>1, <1>2, StartFacts
<1>4. Base' /\ Grows
  BY <1>2, <1>3, RowsStay DEF Tick, Base, DlqTypeOK, JobsHoldRows, Recorded
<1>5. QED
  BY <1>3, <1>4

LEMMA ReplayByHandBase ==
  ASSUME DlqAssumption, Base, NEW j \in Jobs, NEW r \in Rows, ReplayByHand(j, r)
  PROVE  /\ Base' /\ Grows
         /\ \A i \in DOMAIN replays' :
              \/ i \in DOMAIN replays /\ replays'[i] = replays[i]
              \/ replays'[i].pc = "read"
<1>1. Start(j, {r}, TRUE) /\ {r} \in SUBSET Recorded
  BY DEF ReplayByHand
<1>2. /\ DOMAIN replays' \subseteq Jobs
      /\ replays' \in [DOMAIN replays' -> Replay]
      /\ \A i \in DOMAIN replays' :
           \/ i \in DOMAIN replays /\ replays'[i] = replays[i]
           \/ replays'[i].pc = "read" /\ replays'[i].batch = {r}
  BY <1>1, StartFacts
<1>3. forces' \in 0..MaxForces
  BY DEF ReplayByHand, Base, DlqTypeOK, DlqAssumption
<1>4. Base' /\ Grows
  BY <1>1, <1>2, <1>3, RowsStay
     DEF ReplayByHand, Base, DlqTypeOK, JobsHoldRows, Recorded
<1>5. QED
  BY <1>2, <1>4

LEMMA ReplayDiesBase ==
  ASSUME DlqAssumption, Base, NEW j \in Jobs, ReplayDies(j)
  PROVE  /\ Base' /\ Grows
         /\ DOMAIN replays' \subseteq DOMAIN replays
         /\ \A i \in DOMAIN replays' : replays'[i] = replays[i]
<1>1. /\ DOMAIN replays' \subseteq DOMAIN replays
      /\ replays' \in [DOMAIN replays' -> Replay]
      /\ \A i \in DOMAIN replays' : replays'[i] = replays[i]
  BY DEF ReplayDies, Base, DlqTypeOK
<1>2. dlqFaults' \in 0..MaxDlqFaults
  BY DEF ReplayDies, Base, DlqTypeOK, DlqAssumption
<1>3. Base' /\ Grows
  BY <1>1, <1>2, RowsStay
     DEF ReplayDies, Base, DlqTypeOK, JobsHoldRows, Recorded
<1>4. QED
  BY <1>1, <1>3

(* NextRow leaves every other job as it is, and this one, if it goes on,   *)
(* with fewer rows ahead.                                                  *)
LEMMA NextRowBase ==
  ASSUME Base, NEW j \in DOMAIN replays, NEW r, NextRow(j, r),
         DOMAIN dlq' = Recorded, dlq' \in [Recorded -> DlqRow],
         accepted' \in SUBSET Rows, accepted \subseteq accepted',
         forces' \in 0..MaxForces, dlqFaults' \in 0..MaxDlqFaults,
         tries' \in [Rows -> Nat], byHand' \in SUBSET Rows
  PROVE  /\ Base' /\ Grows
         /\ \A i \in DOMAIN replays' :
              \/ i \in DOMAIN replays /\ replays'[i] = replays[i]
              \/ replays'[i].pc = "read"
<1>1. /\ DOMAIN replays' \subseteq DOMAIN replays
      /\ replays' \in [DOMAIN replays' -> Replay]
      /\ \A i \in DOMAIN replays' :
           \/ replays'[i] = replays[i]
           \/ /\ replays'[i].pc = "read"
              /\ replays'[i].batch \subseteq replays[i].batch
  BY NextRowFacts
<1>2. \A i \in DOMAIN replays' :
        /\ replays'[i].batch \subseteq Recorded
        /\ replays'[i].pc # "read" => /\ replays'[i].row \in replays'[i].batch
                                      /\ replays'[i].attempt > 0
  BY <1>1 DEF Base, JobsHoldRows
<1>3. DOMAIN replays' \subseteq Jobs
  BY <1>1 DEF Base, DlqTypeOK
<1>4. Base' /\ Grows
  BY <1>1, <1>2, <1>3, RowsStay
<1>5. QED
  BY <1>1, <1>4

LEMMA ReplayThrowsBase ==
  ASSUME DlqAssumption, Base, NEW j \in Jobs, NEW r \in Rows, ReplayThrows(j, r)
  PROVE  /\ Base' /\ Grows
         /\ \A i \in DOMAIN replays' :
              \/ i \in DOMAIN replays /\ replays'[i] = replays[i]
              \/ replays'[i].pc = "read"
<1>1. j \in DOMAIN replays /\ NextRow(j, r)
  BY DEF ReplayThrows, ReplayAt
<1>2. dlqFaults' \in 0..MaxDlqFaults
  BY DEF ReplayThrows, Base, DlqTypeOK, DlqAssumption
<1>3. QED
  BY <1>1, <1>2, NextRowBase DEF ReplayThrows, Base, DlqTypeOK, Recorded

LEMMA ReadRowBase ==
  ASSUME Base, NEW j \in Jobs, NEW r \in Rows, ReadRow(j, r)
  PROVE  /\ Base' /\ Grows
         /\ \A i \in DOMAIN replays' :
              \/ i \in DOMAIN replays /\ replays'[i] = replays[i]
              \/ replays'[i].pc = "read"
              \/ /\ replays'[i].pc = "post"
                 /\ replays'[i].row = r
                 /\ replays'[i].attempt <= dlq[r].attempts + 1
<1>1. /\ j \in DOMAIN replays /\ replays[j] \in Replay
      /\ r \in replays[j].batch /\ r \in Recorded /\ dlq[r] \in DlqRow
  BY DEF ReadRow, ReplayAt, Base, DlqTypeOK, JobsHoldRows
<1>2. CASE dlq[r].resolved /\ ~ replays[j].force
  BY <1>1, <1>2, NextRowBase DEF ReadRow, Base, DlqTypeOK, Recorded
<1>3. CASE ~ (dlq[r].resolved /\ ~ replays[j].force)
  <2> DEFINE attempt == IF replays[j].force THEN 1 ELSE dlq[r].attempts + 1
             new == [replays[j] EXCEPT !.pc = "post", !.row = r,
                                       !.attempt = attempt]
  <2>1. attempt \in Nat \ {0} /\ attempt <= dlq[r].attempts + 1
    BY <1>1 DEF DlqRow
  <2>2. /\ new \in Replay /\ new.pc = "post" /\ new.row = r
        /\ new.attempt = attempt /\ new.batch = replays[j].batch
    BY <1>1, <2>1 DEF Replay, ReplayPc
  <2>3. replays' = [replays EXCEPT ![j] = new]
    BY <1>3 DEF ReadRow
  <2>4. /\ DOMAIN replays' = DOMAIN replays /\ replays'[j] = new
        /\ \A i \in DOMAIN replays : i # j => replays'[i] = replays[i]
        /\ replays' \in [DOMAIN replays' -> Replay]
    BY <1>1, <2>2, <2>3 DEF Base, DlqTypeOK
  <2>5. \A i \in DOMAIN replays' :
          /\ replays'[i].batch \subseteq Recorded
          /\ replays'[i].pc # "read" => /\ replays'[i].row \in replays'[i].batch
                                        /\ replays'[i].attempt > 0
    <3>1. /\ new.batch \subseteq Recorded /\ new.row \in new.batch
          /\ new.attempt > 0
      BY <1>1, <2>1, <2>2 DEF Base, JobsHoldRows
    <3>2. QED
      BY <3>1, <2>4 DEF Base, JobsHoldRows
  <2>6. Base' /\ Grows
    <3>1. /\ UNCHANGED <<dlq, accepted, forces, dlqFaults, tries, byHand>>
          /\ DOMAIN dlq' = Recorded /\ dlq' \in [Recorded -> DlqRow]
          /\ DOMAIN replays' \subseteq Jobs
      BY <2>4 DEF ReadRow, Base, DlqTypeOK, Recorded
    <3>2. /\ accepted' \in SUBSET Rows /\ accepted \subseteq accepted'
          /\ forces' \in 0..MaxForces /\ dlqFaults' \in 0..MaxDlqFaults
          /\ tries' \in [Rows -> Nat] /\ byHand' \in SUBSET Rows
      BY <3>1 DEF Base, DlqTypeOK
    <3>3. QED
      BY <2>4, <2>5, <3>1, <3>2, RowsStay
  <2>7. /\ replays'[j].pc = "post" /\ replays'[j].row = r
        /\ replays'[j].attempt <= dlq[r].attempts + 1
    BY <2>1, <2>2, <2>4
  <2>8. \A i \in DOMAIN replays' : i \in DOMAIN replays /\ (i # j => replays'[i] = replays[i])
    BY <2>4
  <2>9. QED
    BY <2>6, <2>7, <2>8
<1>4. QED
  BY <1>2, <1>3

LEMMA PostBase ==
  ASSUME Base, NEW j \in Jobs, NEW arrived \in BOOLEAN, NEW answered \in BOOLEAN,
         Post(j, arrived, answered)
  PROVE  /\ Base' /\ Grows
         /\ j \in DOMAIN replays /\ replays[j].row \in Recorded
         /\ replays[j].pc = "post"
         /\ tries' = [tries EXCEPT ![replays[j].row] = @ + 1]
         /\ DOMAIN replays' = DOMAIN replays
         /\ replays'[j].row = replays[j].row
         /\ replays'[j].attempt = replays[j].attempt
         /\ replays'[j].pc \in {"succeed", "fail"}
         /\ replays'[j].pc = "succeed" => replays[j].row \in accepted'
         /\ \A i \in DOMAIN replays : i # j => replays'[i] = replays[i]
<1> DEFINE r == replays[j].row
           pc == IF arrived /\ answered THEN "succeed" ELSE "fail"
           new == [replays[j] EXCEPT !.pc = pc]
<1>1. /\ j \in DOMAIN replays /\ replays[j] \in Replay /\ replays[j].pc = "post"
      /\ r \in replays[j].batch /\ r \in Recorded /\ r \in Rows
  BY DEF Post, ReplayAt, Base, DlqTypeOK, JobsHoldRows
<1>2. /\ new \in Replay /\ new.pc = pc /\ new.row = r
      /\ new.attempt = replays[j].attempt /\ new.batch = replays[j].batch
  BY <1>1 DEF Replay, ReplayPc
<1>3. replays' = [replays EXCEPT ![j] = new]
  BY DEF Post
<1>4. /\ DOMAIN replays' = DOMAIN replays /\ replays'[j] = new
      /\ \A i \in DOMAIN replays : i # j => replays'[i] = replays[i]
      /\ replays' \in [DOMAIN replays' -> Replay]
  BY <1>1, <1>2, <1>3 DEF Base, DlqTypeOK
<1>5. \A i \in DOMAIN replays' :
        /\ replays'[i].batch \subseteq Recorded
        /\ replays'[i].pc # "read" => /\ replays'[i].row \in replays'[i].batch
                                      /\ replays'[i].attempt > 0
  BY <1>1, <1>2, <1>4 DEF Base, JobsHoldRows
<1>6. tries' = [tries EXCEPT ![r] = @ + 1] /\ tries' \in [Rows -> Nat]
  BY <1>1 DEF Post, Base, DlqTypeOK
<1>7. /\ accepted' \in SUBSET Rows /\ accepted \subseteq accepted'
      /\ pc = "succeed" => r \in accepted'
  BY <1>1 DEF Post, Base, DlqTypeOK
<1>8. Base' /\ Grows
  BY <1>4, <1>5, <1>6, <1>7, RowsStay DEF Post, Base, DlqTypeOK, Recorded
<1>9. QED
  BY <1>1, <1>2, <1>4, <1>6, <1>7, <1>8

LEMMA SucceedBase ==
  ASSUME Base, NEW j \in Jobs, Succeed(j)
  PROVE  /\ Base' /\ Grows
         /\ j \in DOMAIN replays /\ replays[j].row \in Recorded
         /\ DOMAIN dlq' = Recorded
         /\ dlq'[replays[j].row] = [attempts |-> replays[j].attempt,
                                    retry |-> "never", resolved |-> TRUE]
         /\ \A s \in Recorded : s # replays[j].row => dlq'[s] = dlq[s]
         /\ \A i \in DOMAIN replays' :
              \/ i \in DOMAIN replays /\ replays'[i] = replays[i]
              \/ replays'[i].pc = "read"
<1> DEFINE r == replays[j].row
           row == [attempts |-> replays[j].attempt, retry |-> "never",
                   resolved |-> TRUE]
<1>1. /\ j \in DOMAIN replays /\ replays[j] \in Replay /\ r \in Recorded
      /\ replays[j].attempt \in Nat \ {0}
  BY DEF Succeed, ReplayAt, Base, DlqTypeOK, JobsHoldRows, Replay
<1>2. row \in DlqRow
  BY <1>1 DEF DlqRow, Retry
<1>3. dlq' = [dlq EXCEPT ![r] = row] /\ NextRow(j, r)
  BY DEF Succeed
<1>4. /\ DOMAIN dlq' = Recorded /\ dlq' \in [Recorded -> DlqRow] /\ dlq'[r] = row
      /\ \A s \in Recorded : s # r => dlq'[s] = dlq[s]
  BY <1>1, <1>2, <1>3 DEF Base, DlqTypeOK, Recorded
<1>5. QED
  BY <1>1, <1>3, <1>4, NextRowBase DEF Succeed, Base, DlqTypeOK

LEMMA FailBase ==
  ASSUME Base, NEW j \in Jobs, Fail(j)
  PROVE  /\ Base' /\ Grows
         /\ j \in DOMAIN replays /\ replays[j].row \in Recorded
         /\ replays[j].pc = "fail" /\ replays[j].attempt \in Nat
         /\ DOMAIN dlq' = Recorded
         /\ dlq'[replays[j].row].attempts = replays[j].attempt
         /\ dlq'[replays[j].row].retry =
              IF Exhausted(replays[j].attempt) THEN "never" ELSE "later"
         /\ dlq'[replays[j].row].resolved = dlq[replays[j].row].resolved
         /\ \A s \in Recorded : s # replays[j].row => dlq'[s] = dlq[s]
         /\ \A i \in DOMAIN replays' :
              \/ i \in DOMAIN replays /\ replays'[i] = replays[i]
              \/ replays'[i].pc = "read"
<1> DEFINE r == replays[j].row
           attempt == replays[j].attempt
           retry == IF Exhausted(attempt) THEN "never" ELSE "later"
           row == [dlq[r] EXCEPT !.attempts = attempt, !.retry = retry]
<1>1. /\ j \in DOMAIN replays /\ replays[j] \in Replay /\ r \in Recorded
      /\ replays[j].pc = "fail"
      /\ attempt \in Nat \ {0} /\ dlq[r] \in DlqRow
  BY DEF Fail, ReplayAt, Base, DlqTypeOK, JobsHoldRows, Replay
<1>2. /\ row \in DlqRow /\ row.attempts = attempt /\ row.retry = retry
      /\ row.resolved = dlq[r].resolved
  BY <1>1 DEF DlqRow, Retry
<1>3. dlq' = [dlq EXCEPT ![r] = row] /\ NextRow(j, r)
  BY DEF Fail
<1>4. /\ DOMAIN dlq' = Recorded /\ dlq' \in [Recorded -> DlqRow] /\ dlq'[r] = row
      /\ \A s \in Recorded : s # r => dlq'[s] = dlq[s]
  BY <1>1, <1>2, <1>3 DEF Base, DlqTypeOK, Recorded
<1>5. QED
  BY <1>1, <1>2, <1>3, <1>4, NextRowBase DEF Fail, Base, DlqTypeOK

LEMMA DispatchedBase ==
  ASSUME Base, NEW r \in Rows, NEW arrived \in BOOLEAN, Dispatched(r, arrived)
  PROVE  /\ Base' /\ Grows
         /\ DOMAIN dlq' = Recorded \cup {r} /\ r \notin Recorded
         /\ dlq'[r] = [attempts |-> 1, retry |-> "later", resolved |-> FALSE]
         /\ \A s \in Recorded : dlq'[s] = dlq[s]
         /\ tries' = [tries EXCEPT ![r] = 1]
         /\ replays' = replays
<1> DEFINE row == [attempts |-> 1, retry |-> "later", resolved |-> FALSE]
<1>1. row \in DlqRow
  BY DEF DlqRow, Retry
<1>2. dlq' = [s \in Recorded \cup {r} |-> IF s = r THEN row ELSE dlq[s]]
      /\ r \notin Recorded
  BY DEF Dispatched, RecordFailure
<1>3. /\ DOMAIN dlq' = Recorded \cup {r} /\ dlq' \in [DOMAIN dlq' -> DlqRow]
      /\ dlq'[r] = row /\ \A s \in Recorded : dlq'[s] = dlq[s]
  BY <1>1, <1>2 DEF Base, DlqTypeOK
<1>4. tries' = [tries EXCEPT ![r] = 1] /\ tries' \in [Rows -> Nat]
  BY DEF Dispatched, Base, DlqTypeOK
<1>5. accepted' \in SUBSET Rows /\ accepted \subseteq accepted'
  BY DEF Dispatched, Base, DlqTypeOK
<1>6. Base' /\ Grows
  BY <1>3, <1>4, <1>5
     DEF Dispatched, Base, DlqTypeOK, JobsHoldRows, Grows, Recorded
<1>7. QED
  BY <1>2, <1>3, <1>4, <1>6 DEF Dispatched

(* Every step of the queue keeps the base invariant, and loses neither a row *)
(* nor the fact that its consumer has accepted it.                           *)
LEMMA BaseInductive ==
  ASSUME DlqAssumption, Base, [DlqNext]_dlqVars
  PROVE  Base' /\ Grows
<1>1. ASSUME NEW j \in Jobs, Tick(j) PROVE Base' /\ Grows
  BY <1>1, TickBase
<1>2. ASSUME NEW j \in Jobs, NEW r \in Rows, ReadRow(j, r) PROVE Base' /\ Grows
  BY <1>2, ReadRowBase
<1>3. ASSUME NEW j \in Jobs, NEW arrived \in BOOLEAN, NEW answered \in BOOLEAN,
             Post(j, arrived, answered)
      PROVE  Base' /\ Grows
  BY <1>3, PostBase
<1>4. ASSUME NEW j \in Jobs, Succeed(j) PROVE Base' /\ Grows
  BY <1>4, SucceedBase
<1>5. ASSUME NEW j \in Jobs, Fail(j) PROVE Base' /\ Grows
  BY <1>5, FailBase
<1>6. ASSUME NEW j \in Jobs, ReplayDies(j) PROVE Base' /\ Grows
  BY <1>6, ReplayDiesBase
<1>7. ASSUME NEW j \in Jobs, NEW r \in Rows, ReplayByHand(j, r)
      PROVE  Base' /\ Grows
  BY <1>7, ReplayByHandBase
<1>8. ASSUME NEW j \in Jobs, NEW r \in Rows, ReplayThrows(j, r)
      PROVE  Base' /\ Grows
  BY <1>8, ReplayThrowsBase
<1>9. ASSUME NEW r \in Rows, BecomeDue(r) PROVE Base' /\ Grows
  BY <1>9, BecomeDueBase
<1>10. ASSUME NEW r \in Rows, MarkResolved(r) PROVE Base' /\ Grows
  BY <1>10, MarkResolvedBase
<1>11. ASSUME NEW r \in Rows, NEW arrived \in BOOLEAN, Dispatched(r, arrived)
       PROVE  Base' /\ Grows
  BY <1>11, DispatchedBase
<1>12. CASE UNCHANGED dlqVars
  BY <1>12 DEF dlqVars, Base, DlqTypeOK, JobsHoldRows, Grows, Recorded
<1>13. QED
  BY <1>1, <1>2, <1>3, <1>4, <1>5, <1>6, <1>7, <1>8, <1>9, <1>10, <1>11, <1>12
     DEF DlqNext, DlqStep, ReplayStep

LEMMA BaseInit ==
  ASSUME DlqAssumption, DlqInit
  PROVE  Base
BY DEF DlqAssumption, DlqInit, Base, DlqTypeOK, JobsHoldRows, Recorded

(* Every table, job and counter keeps its type, for any number of rows,    *)
(* jobs and attempts: in particular the attempt count of a row stays        *)
(* positive, and a job only ever works on rows that exist.                  *)
THEOREM DlqTypeCorrect == DlqSpec => []DlqTypeOK
<1>1. DlqInit => Base
  BY BaseInit, DlqAssumption
<1>2. Base /\ [DlqNext]_dlqVars => Base'
  BY BaseInductive, DlqAssumption
<1>3. Base => DlqTypeOK
  BY DEF Base
<1>4. QED
  BY <1>1, <1>2, <1>3, PTL DEF DlqSpec

(* The base invariant holds in every behaviour of the queue. *)
LEMMA BaseHolds == DlqSpec => []Base
<1>1. DlqInit => Base
  BY BaseInit, DlqAssumption
<1>2. Base /\ [DlqNext]_dlqVars => Base'
  BY BaseInductive, DlqAssumption
<1>3. QED
  BY <1>1, <1>2, PTL DEF DlqSpec

-----------------------------------------------------------------------------
(* What a step can make of a row. *)

Kept(r) == r \in Recorded /\ dlq'[r] = dlq[r]
Waited(r) == /\ r \in Recorded
             /\ dlq[r].retry = "later"
             /\ dlq'[r] = [dlq[r] EXCEPT !.retry = "due"]
Resolved(r) == r \in Recorded /\ dlq'[r].resolved /\ dlq'[r].retry = "never"
Failed(r) == /\ r \in Recorded
             /\ dlq'[r].attempts \in Nat
             /\ dlq'[r].retry = IF Exhausted(dlq'[r].attempts) THEN "never"
                                                              ELSE "later"
             /\ dlq'[r].resolved = dlq[r].resolved
New(r) == /\ r \notin Recorded
          /\ dlq'[r] = [attempts |-> 1, retry |-> "later", resolved |-> FALSE]

LEMMA RowSteps ==
  ASSUME DlqAssumption, Base, [DlqNext]_dlqVars
  PROVE  \A r \in Recorded' : Kept(r) \/ Waited(r) \/ Resolved(r) \/ Failed(r)
                              \/ New(r)
<1>1. ASSUME dlq' = dlq PROVE \A r \in Recorded' : Kept(r)
  BY <1>1 DEF Kept, Recorded
<1>2. ASSUME NEW s \in Rows, BecomeDue(s)
      PROVE  \A r \in Recorded' : Kept(r) \/ Waited(r)
  BY <1>2 DEF BecomeDue, Kept, Waited, Base, DlqTypeOK, Recorded, DlqRow
<1>3. ASSUME NEW s \in Rows, MarkResolved(s)
      PROVE  \A r \in Recorded' : Kept(r) \/ Resolved(r)
  BY <1>3 DEF MarkResolved, Kept, Resolved, Base, DlqTypeOK, Recorded, DlqRow
<1>4. ASSUME NEW j \in Jobs, Succeed(j)
      PROVE  \A r \in Recorded' : Kept(r) \/ Resolved(r)
  <2> TAKE r \in Recorded'
  <2>1. /\ DOMAIN dlq' = Recorded
        /\ dlq'[replays[j].row] = [attempts |-> replays[j].attempt,
                                   retry |-> "never", resolved |-> TRUE]
        /\ \A s \in Recorded : s # replays[j].row => dlq'[s] = dlq[s]
    BY <1>4, SucceedBase
  <2>2. r \in Recorded
    BY <2>1 DEF Recorded
  <2>3. CASE r = replays[j].row
    BY <2>1, <2>2, <2>3 DEF Resolved
  <2>4. QED
    BY <2>1, <2>2, <2>3 DEF Kept
<1>5. ASSUME NEW j \in Jobs, Fail(j)
      PROVE  \A r \in Recorded' : Kept(r) \/ Failed(r)
  BY <1>5, FailBase DEF Kept, Failed, Recorded
<1>6. ASSUME NEW s \in Rows, NEW arrived \in BOOLEAN, Dispatched(s, arrived)
      PROVE  \A r \in Recorded' : Kept(r) \/ New(r)
  BY <1>6, DispatchedBase DEF Kept, New, Recorded
<1>7. QED
  BY <1>1, <1>2, <1>3, <1>4, <1>5, <1>6
     DEF DlqNext, DlqStep, ReplayStep, Tick, ReadRow, Post, ReplayDies,
         ReplayByHand, ReplayThrows, dlqVars

(* The auto-retry job never loses a row: an unresolved one has a retry      *)
(* ahead exactly as long as it has attempts left.                           *)
THEOREM NoRowIsStuckHolds == DlqSpec => []NoRowIsStuck
<1>1. DlqInit => NoRowIsStuck
  BY DEF DlqInit, NoRowIsStuck, Recorded
<1>2. ASSUME Base, NoRowIsStuck, [DlqNext]_dlqVars
      PROVE  NoRowIsStuck'
  <2> SUFFICES ASSUME NEW r \in Recorded', ~ dlq'[r].resolved
               PROVE  dlq'[r].retry = "never" <=> dlq'[r].attempts >= MaxAttempts
    BY DEF NoRowIsStuck
  <2>1. r \in Recorded => dlq[r] \in DlqRow
    BY <1>2 DEF Base, DlqTypeOK
  <2>2. CASE Kept(r)
    BY <1>2, <2>2 DEF Kept, NoRowIsStuck
  <2>3. CASE Waited(r)
    <3>1. /\ dlq'[r].retry = "due" /\ dlq'[r].attempts = dlq[r].attempts
          /\ dlq'[r].resolved = dlq[r].resolved
      BY <2>1, <2>3 DEF Waited, DlqRow
    <3>2. QED
      BY <1>2, <2>3, <3>1 DEF Waited, NoRowIsStuck
  <2>4. CASE Resolved(r)
    BY <2>4 DEF Resolved
  <2>5. CASE Failed(r)
    BY <2>5 DEF Failed, Exhausted
  <2>6. CASE New(r)
    BY <2>6, DlqAssumption DEF New, DlqAssumption
  <2>7. QED
    BY <1>2, <2>2, <2>3, <2>4, <2>5, <2>6, RowSteps, DlqAssumption
<1>3. QED
  BY <1>1, <1>2, BaseHolds, PTL DEF DlqSpec

(* No overlapping replay reopens a row that was resolved. *)
THEOREM ResolvedIsFinalHolds == DlqSpec => ResolvedIsFinal
<1>1. ASSUME Base, [DlqNext]_dlqVars
      PROVE  [\A r \in Recorded : dlq[r].resolved => dlq'[r].resolved]_dlqVars
  <2> SUFFICES ASSUME NEW r \in Recorded, dlq[r].resolved
               PROVE  dlq'[r].resolved
    OBVIOUS
  <2>1. dlq[r] \in DlqRow /\ r \in Recorded'
    BY <1>1, BaseInductive, DlqAssumption DEF Base, DlqTypeOK, Grows
  <2>2. Kept(r) \/ Waited(r) \/ Resolved(r) \/ Failed(r)
    BY <1>1, <2>1, RowSteps, DlqAssumption DEF New
  <2>3. QED
    BY <2>1, <2>2 DEF Kept, Waited, Resolved, Failed, DlqRow
<1>2. QED
  BY <1>1, BaseHolds, PTL DEF DlqSpec, ResolvedIsFinal

-----------------------------------------------------------------------------
(* What the jobs in flight remember of their POST. *)

(* A job about to write a success has been accepted by the consumer. *)
SuccessWasAccepted ==
  \A j \in DOMAIN replays :
    replays[j].pc = "succeed" => replays[j].row \in accepted

Delivered == SuccessWasAccepted /\ ResolvedWasDelivered

LEMMA DeliveredStep ==
  ASSUME DlqAssumption, Base, Delivered, [DlqNext]_dlqVars
  PROVE  Delivered'
<1>1. Grows /\ byHand \subseteq byHand'
  <2>1. byHand \subseteq byHand'
    BY DEF DlqNext, DlqStep, ReplayStep, Tick, ReadRow, Post, Succeed, Fail,
           ReplayDies, ReplayByHand, ReplayThrows, BecomeDue, MarkResolved,
           Dispatched, dlqVars
  <2>2. QED
    BY <2>1, BaseInductive
<1>2. ASSUME \A i \in DOMAIN replays' :
               \/ i \in DOMAIN replays /\ replays'[i] = replays[i]
               \/ replays'[i].pc # "succeed"
               \/ replays'[i].row \in accepted'
      PROVE  SuccessWasAccepted'
  BY <1>1, <1>2 DEF Delivered, SuccessWasAccepted, Grows
<1>3. SuccessWasAccepted'
  <2>1. ASSUME NEW j \in Jobs, Tick(j) PROVE SuccessWasAccepted'
    BY <2>1, <1>2, TickBase
  <2>2. ASSUME NEW j \in Jobs, NEW r \in Rows, ReadRow(j, r)
        PROVE  SuccessWasAccepted'
    BY <2>2, <1>2, ReadRowBase
  <2>3. ASSUME NEW j \in Jobs, NEW arrived \in BOOLEAN,
               NEW answered \in BOOLEAN, Post(j, arrived, answered)
        PROVE  SuccessWasAccepted'
    <3>1. \A i \in DOMAIN replays' :
            \/ i \in DOMAIN replays /\ replays'[i] = replays[i]
            \/ replays'[i].pc # "succeed"
            \/ replays'[i].row \in accepted'
      BY <2>3, PostBase
    <3>2. QED
      BY <3>1, <1>2
  <2>4. ASSUME NEW j \in Jobs, Succeed(j) PROVE SuccessWasAccepted'
    BY <2>4, <1>2, SucceedBase
  <2>5. ASSUME NEW j \in Jobs, Fail(j) PROVE SuccessWasAccepted'
    BY <2>5, <1>2, FailBase
  <2>6. ASSUME NEW j \in Jobs, ReplayDies(j) PROVE SuccessWasAccepted'
    BY <2>6, <1>2, ReplayDiesBase
  <2>7. ASSUME NEW j \in Jobs, NEW r \in Rows, ReplayByHand(j, r)
        PROVE  SuccessWasAccepted'
    BY <2>7, <1>2, ReplayByHandBase
  <2>8. ASSUME NEW j \in Jobs, NEW r \in Rows, ReplayThrows(j, r)
        PROVE  SuccessWasAccepted'
    BY <2>8, <1>2, ReplayThrowsBase
  <2>9. ASSUME replays' = replays PROVE SuccessWasAccepted'
    BY <2>9, <1>2
  <2>10. QED
    BY <2>1, <2>2, <2>3, <2>4, <2>5, <2>6, <2>7, <2>8, <2>9
       DEF DlqNext, DlqStep, ReplayStep, BecomeDue, MarkResolved, Dispatched,
           dlqVars
<1>4. ResolvedWasDelivered'
  <2> SUFFICES ASSUME NEW r \in Recorded', dlq'[r].resolved
               PROVE  r \in accepted' \cup byHand'
    BY DEF ResolvedWasDelivered
  <2>1. CASE r \in Recorded /\ dlq[r].resolved
    BY <2>1, <1>1 DEF Delivered, ResolvedWasDelivered, Grows
  <2>2. CASE ~ (r \in Recorded /\ dlq[r].resolved)
    <3>1. ASSUME dlq' = dlq PROVE FALSE
      BY <3>1, <2>2 DEF Recorded
    <3>2. ASSUME NEW s \in Rows, BecomeDue(s) PROVE FALSE
      BY <3>2, <2>2 DEF BecomeDue, Base, DlqTypeOK, DlqRow, Recorded
    <3>3. ASSUME NEW s \in Rows, MarkResolved(s) PROVE r \in byHand'
      BY <3>3, <2>2 DEF MarkResolved, Base, DlqTypeOK, DlqRow, Recorded
    <3>4. ASSUME NEW j \in Jobs, Succeed(j) PROVE r \in accepted'
      <4>1. r = replays[j].row /\ j \in DOMAIN replays
        BY <3>4, <2>2, SucceedBase DEF Recorded
      <4>2. QED
        BY <3>4, <4>1, <1>1
           DEF Succeed, ReplayAt, Delivered, SuccessWasAccepted, Grows
    <3>5. ASSUME NEW j \in Jobs, Fail(j) PROVE FALSE
      BY <3>5, <2>2, FailBase DEF Recorded
    <3>6. ASSUME NEW s \in Rows, NEW arrived \in BOOLEAN, Dispatched(s, arrived)
          PROVE  FALSE
      <4>1. /\ DOMAIN dlq' = Recorded \cup {s}
            /\ dlq'[s].resolved = FALSE
            /\ \A q \in Recorded : dlq'[q] = dlq[q]
        BY <3>6, DispatchedBase
      <4>2. r \in Recorded \/ r = s
        BY <4>1 DEF Recorded
      <4>3. QED
        BY <4>1, <4>2, <2>2
    <3>7. QED
      BY <3>1, <3>2, <3>3, <3>4, <3>5, <3>6
         DEF DlqNext, DlqStep, ReplayStep, Tick, ReadRow, Post, ReplayDies,
             ReplayByHand, ReplayThrows, dlqVars
  <2>3. QED
    BY <2>1, <2>2
<1>5. QED
  BY <1>3, <1>4 DEF Delivered

(* A resolved row was processed by its consumer, or resolved by hand. *)
THEOREM ResolvedWasDeliveredHolds == DlqSpec => []ResolvedWasDelivered
<1>1. DlqInit => Delivered
  BY DEF DlqInit, Delivered, SuccessWasAccepted, ResolvedWasDelivered, Recorded
<1>2. Base /\ Delivered /\ [DlqNext]_dlqVars => Delivered'
  BY DeliveredStep, DlqAssumption
<1>3. Delivered => ResolvedWasDelivered
  BY DEF Delivered
<1>4. QED
  BY <1>1, <1>2, <1>3, BaseHolds, PTL DEF DlqSpec

-----------------------------------------------------------------------------
(* The attempt count against the POSTs really sent. *)

RowsAreCounted == \A r \in Recorded : dlq[r].attempts <= tries[r]

JobsAreCounted ==
  \A j \in DOMAIN replays :
    LET r == replays[j].row
    IN  /\ replays[j].pc = "post" => replays[j].attempt <= tries[r] + 1
        /\ replays[j].pc \in {"succeed", "fail"}
             => replays[j].attempt <= tries[r]

Counted == RowsAreCounted /\ JobsAreCounted

(* A job that goes on as it was, or starts to read, is counted as long as   *)
(* no count of POSTs goes down.                                             *)
LEMMA JobsStayCounted ==
  ASSUME Base, JobsAreCounted, Base',
         \A r \in Recorded : tries[r] <= tries'[r],
         \A i \in DOMAIN replays' :
           \/ i \in DOMAIN replays /\ replays'[i] = replays[i]
           \/ replays'[i].pc = "read"
  PROVE  JobsAreCounted'
<1> SUFFICES ASSUME NEW i \in DOMAIN replays', replays'[i].pc # "read"
             PROVE  LET r == replays'[i].row
                    IN  /\ replays'[i].pc = "post"
                             => replays'[i].attempt <= tries'[r] + 1
                        /\ replays'[i].pc \in {"succeed", "fail"}
                             => replays'[i].attempt <= tries'[r]
  BY DEF JobsAreCounted
<1>1. i \in DOMAIN replays /\ replays'[i] = replays[i]
  OBVIOUS
<1>2. /\ replays[i].row \in Recorded /\ replays[i].attempt \in Nat
      /\ tries[replays[i].row] \in Nat /\ tries'[replays[i].row] \in Nat
  BY <1>1 DEF Base, DlqTypeOK, JobsHoldRows, Replay
<1>3. tries[replays[i].row] <= tries'[replays[i].row]
  BY <1>2
<1>4. QED
  BY <1>1, <1>2, <1>3 DEF JobsAreCounted

LEMMA CountedStep ==
  ASSUME DlqAssumption, Base, Counted, [DlqNext]_dlqVars
  PROVE  Counted'
<1>1. Base' /\ Grows
  BY BaseInductive
<1>2. \A r \in Recorded : tries[r] \in Nat /\ dlq[r].attempts \in Nat
                          /\ dlq[r].attempts <= tries[r]
  BY DEF Base, DlqTypeOK, Counted, RowsAreCounted, DlqRow
(* Steps that change neither table nor counts. *)
<1>3. ASSUME dlq' = dlq, tries' = tries PROVE RowsAreCounted'
  BY <1>3 DEF Counted, RowsAreCounted, Recorded
<1>4. ASSUME tries' = tries, \A i \in DOMAIN replays' :
                               \/ i \in DOMAIN replays /\ replays'[i] = replays[i]
                               \/ replays'[i].pc = "read"
      PROVE  JobsAreCounted'
  BY <1>1, <1>2, <1>4, JobsStayCounted DEF Counted
<1>5. ASSUME NEW j \in Jobs, Tick(j) PROVE Counted'
  BY <1>3, <1>4, <1>5, TickBase DEF Tick, Counted
<1>6. ASSUME NEW j \in Jobs, NEW s \in Rows, ReplayByHand(j, s) PROVE Counted'
  BY <1>3, <1>4, <1>6, ReplayByHandBase DEF ReplayByHand, Counted
<1>7. ASSUME NEW j \in Jobs, NEW s \in Rows, ReplayThrows(j, s) PROVE Counted'
  BY <1>3, <1>4, <1>7, ReplayThrowsBase DEF ReplayThrows, Counted
<1>8. ASSUME NEW j \in Jobs, ReplayDies(j) PROVE Counted'
  BY <1>3, <1>4, <1>8, ReplayDiesBase DEF ReplayDies, Counted
<1>9. ASSUME NEW s \in Rows, BecomeDue(s) PROVE Counted'
  <2>1. RowsAreCounted'
    BY <1>2, <1>9 DEF BecomeDue, RowsAreCounted, Base, DlqTypeOK, DlqRow, Recorded
  <2>2. QED
    BY <1>4, <1>9, <2>1 DEF BecomeDue, Counted
<1>10. ASSUME NEW s \in Rows, MarkResolved(s) PROVE Counted'
  <2>1. RowsAreCounted'
    BY <1>2, <1>10
       DEF MarkResolved, RowsAreCounted, Base, DlqTypeOK, DlqRow, Recorded
  <2>2. QED
    BY <1>4, <1>10, <2>1 DEF MarkResolved, Counted
<1>11. ASSUME NEW j \in Jobs, NEW s \in Rows, ReadRow(j, s) PROVE Counted'
  <2>1. tries' = tries /\ s \in Recorded /\ j \in DOMAIN replays
    BY <1>11 DEF ReadRow, ReplayAt, Base, JobsHoldRows
  <2>2. \A i \in DOMAIN replays' :
          \/ i \in DOMAIN replays /\ replays'[i] = replays[i]
          \/ replays'[i].pc = "read"
          \/ /\ replays'[i].pc = "post"
             /\ replays'[i].row = s
             /\ replays'[i].attempt <= dlq[s].attempts + 1
    BY <1>11, ReadRowBase
  <2>3. JobsAreCounted'
    <3> SUFFICES ASSUME NEW i \in DOMAIN replays', replays'[i].pc # "read"
                 PROVE  LET r == replays'[i].row
                        IN  /\ replays'[i].pc = "post"
                                 => replays'[i].attempt <= tries[r] + 1
                            /\ replays'[i].pc \in {"succeed", "fail"}
                                 => replays'[i].attempt <= tries[r]
      BY <2>1 DEF JobsAreCounted
    <3>1. CASE i \in DOMAIN replays /\ replays'[i] = replays[i]
      BY <3>1 DEF Counted, JobsAreCounted
    <3>2. CASE /\ replays'[i].pc = "post"
               /\ replays'[i].row = s
               /\ replays'[i].attempt <= dlq[s].attempts + 1
      <4>1. replays'[i].attempt \in Nat
        BY <1>1 DEF Base, DlqTypeOK, Replay
      <4>2. QED
        BY <1>2, <2>1, <3>2, <4>1
    <3>3. QED
      BY <2>2, <3>1, <3>2
  <2>4. QED
    BY <1>3, <1>11, <2>1, <2>3 DEF ReadRow, Counted
<1>12. ASSUME NEW j \in Jobs, NEW arrived \in BOOLEAN, NEW answered \in BOOLEAN,
              Post(j, arrived, answered)
       PROVE  Counted'
  <2> DEFINE s == replays[j].row
  <2>1. /\ s \in Recorded /\ s \in Rows /\ tries[s] \in Nat
        /\ j \in DOMAIN replays /\ replays[j].pc = "post"
        /\ replays[j].attempt \in Nat
        /\ tries' = [tries EXCEPT ![s] = @ + 1] /\ dlq' = dlq
    BY <1>12, <1>2, PostBase DEF Base, DlqTypeOK, Replay, Post
  <2>2. /\ tries'[s] = tries[s] + 1
        /\ \A r \in Rows : tries[r] \in Nat /\ tries[r] <= tries'[r]
                           /\ tries'[r] \in Nat
    BY <2>1 DEF Base, DlqTypeOK
  <2>3. RowsAreCounted'
    <3> SUFFICES ASSUME NEW r \in Recorded PROVE dlq[r].attempts <= tries'[r]
      BY <2>1 DEF RowsAreCounted, Recorded
    <3>1. r \in Rows
      BY DEF Base, DlqTypeOK
    <3>2. QED
      BY <1>2, <2>2, <3>1
  <2>4. /\ DOMAIN replays' = DOMAIN replays
        /\ replays'[j].row = s
        /\ replays'[j].attempt = replays[j].attempt
        /\ replays'[j].pc \in {"succeed", "fail"}
        /\ \A i \in DOMAIN replays : i # j => replays'[i] = replays[i]
    BY <1>12, PostBase
  <2>5. JobsAreCounted'
    <3> SUFFICES ASSUME NEW i \in DOMAIN replays, replays'[i].pc # "read"
                 PROVE  LET r == replays'[i].row
                        IN  /\ replays'[i].pc = "post"
                                 => replays'[i].attempt <= tries'[r] + 1
                            /\ replays'[i].pc \in {"succeed", "fail"}
                                 => replays'[i].attempt <= tries'[r]
      BY <2>4 DEF JobsAreCounted
    <3>1. CASE i = j
      <4>1. replays[j].attempt <= tries[s] + 1
        BY <2>1 DEF Counted, JobsAreCounted
      <4>2. QED
        BY <2>1, <2>2, <2>4, <3>1, <4>1
    <3>2. CASE i # j
      <4>1. replays'[i] = replays[i]
        BY <2>4, <3>2
      <4>2. replays[i].row \in Rows /\ replays[i].attempt \in Nat
        BY <4>1 DEF Base, DlqTypeOK, JobsHoldRows, Replay
      <4>3. QED
        BY <2>2, <4>1, <4>2 DEF Counted, JobsAreCounted
    <3>3. QED
      BY <3>1, <3>2
  <2>6. QED
    BY <2>3, <2>5 DEF Counted
<1>13. ASSUME NEW j \in Jobs, NEW pc \in {"succeed", "fail"}, ReplayAt(j, pc),
              Succeed(j) \/ Fail(j)
       PROVE  Counted'
  <2> DEFINE s == replays[j].row
  <2>1. /\ j \in DOMAIN replays /\ s \in Recorded /\ tries' = tries
        /\ DOMAIN dlq' = Recorded
        /\ dlq'[s].attempts = replays[j].attempt
        /\ \A r \in Recorded : r # s => dlq'[r] = dlq[r]
        /\ \A i \in DOMAIN replays' :
             \/ i \in DOMAIN replays /\ replays'[i] = replays[i]
             \/ replays'[i].pc = "read"
    <3>1. CASE Succeed(j)
      BY <3>1, SucceedBase DEF Succeed
    <3>2. CASE Fail(j)
      BY <3>2, FailBase DEF Fail
    <3>3. QED
      BY <1>13, <3>1, <3>2
  <2>2. replays[j].attempt <= tries[s]
    BY <1>13, <2>1 DEF ReplayAt, Counted, JobsAreCounted
  <2>3. RowsAreCounted'
    BY <1>2, <2>1, <2>2 DEF RowsAreCounted, Recorded
  <2>4. QED
    BY <1>4, <2>1, <2>3 DEF Counted
<1>14. ASSUME NEW s \in Rows, NEW arrived \in BOOLEAN, Dispatched(s, arrived)
       PROVE  Counted'
  <2>1. /\ DOMAIN dlq' = Recorded \cup {s} /\ s \notin Recorded
        /\ dlq'[s].attempts = 1 /\ \A r \in Recorded : dlq'[r] = dlq[r]
        /\ tries' = [tries EXCEPT ![s] = 1] /\ replays' = replays
    BY <1>14, DispatchedBase
  <2>2. tries'[s] = 1 /\ \A r \in Recorded : tries'[r] = tries[r]
    BY <2>1 DEF Base, DlqTypeOK
  <2>3. RowsAreCounted'
    BY <1>2, <2>1, <2>2 DEF RowsAreCounted, Recorded
  <2>4. \A r \in Recorded : tries[r] <= tries'[r]
    BY <1>2, <2>2
  <2>5. JobsAreCounted'
    BY <1>1, <2>1, <2>4, JobsStayCounted DEF Counted
  <2>6. QED
    BY <2>3, <2>5 DEF Counted
<1>15. CASE UNCHANGED dlqVars
  BY <1>3, <1>4, <1>15 DEF dlqVars, Counted
<1>16. QED
  BY <1>5, <1>6, <1>7, <1>8, <1>9, <1>10, <1>11, <1>12, <1>13, <1>14, <1>15
     DEF DlqNext, DlqStep, ReplayStep, Succeed, Fail

(* No delivery is given up before MaxAttempts POSTs of it were sent. *)
THEOREM NotGivenUpEarlyHolds == DlqSpec => []NotGivenUpEarly
<1>1. DlqInit => Counted
  BY DEF DlqInit, Counted, RowsAreCounted, JobsAreCounted, Recorded
<1>2. Base /\ Counted /\ [DlqNext]_dlqVars => Counted'
  BY CountedStep, DlqAssumption
<1>3. ASSUME Base, Counted, NoRowIsStuck PROVE NotGivenUpEarly
  <2> SUFFICES ASSUME NEW r \in Recorded, ~ dlq[r].resolved,
                      dlq[r].retry = "never"
               PROVE  tries[r] >= MaxAttempts
    BY DEF NotGivenUpEarly
  <2>1. dlq[r].attempts >= MaxAttempts
    BY <1>3 DEF NoRowIsStuck
  <2>2. /\ dlq[r].attempts <= tries[r] /\ tries[r] \in Nat
        /\ dlq[r].attempts \in Nat
    BY <1>3 DEF Base, DlqTypeOK, DlqRow, Counted, RowsAreCounted
  <2>3. QED
    BY <2>1, <2>2, DlqAssumption DEF DlqAssumption
<1>4. QED
  BY <1>1, <1>2, <1>3, BaseHolds, NoRowIsStuckHolds, PTL DEF DlqSpec

-----------------------------------------------------------------------------
(* The queue keeps what DeadLetter promises of each delivery                *)

(* A delivery that is not in the table has not been POSTed. *)
Unsent == \A r \in Rows \ Recorded : tries[r] = 0

LetterStep == [Letter!LetterNext]_(Letter!letterVars)

(* A step that writes one row at the most changes no other phase. *)
LEMMA OnePhaseMoves ==
  ASSUME NEW r \in Rows, Recorded' \ {r} = Recorded \ {r},
         \A s \in Recorded \ {r} : dlq'[s] = dlq[s]
  PROVE  [s \in Rows |-> PhaseOf(s)'] = [[s \in Rows |-> PhaseOf(s)]
                                           EXCEPT ![r] = PhaseOf(r)']
<1>1. ASSUME NEW s \in Rows, s # r PROVE PhaseOf(s)' = PhaseOf(s)
  BY <1>1 DEF PhaseOf
<1>2. QED
  BY <1>1

LEMMA PhaseMoves ==
  ASSUME NEW r \in Rows, Recorded' \ {r} = Recorded \ {r},
         \A s \in Recorded \ {r} : dlq'[s] = dlq[s],
         NEW from, PhaseOf(r) \in from
  PROVE  Letter!Becomes(r, from, PhaseOf(r)')
<1>1. [s \in Rows |-> PhaseOf(s)'] = [[s \in Rows |-> PhaseOf(s)]
                                        EXCEPT ![r] = PhaseOf(r)']
  BY OnePhaseMoves
<1>2. QED
  BY <1>1 DEF Letter!Becomes

LEMMA PhasesStay ==
  ASSUME NEW r \in Rows, Recorded' \ {r} = Recorded \ {r},
         \A s \in Recorded \ {r} : dlq'[s] = dlq[s],
         PhaseOf(r)' = PhaseOf(r), UNCHANGED <<tries, accepted, byHand>>
  PROVE  LetterStep
<1>1. [s \in Rows |-> PhaseOf(s)'] = [s \in Rows |-> PhaseOf(s)]
  BY OnePhaseMoves
<1>2. QED
  BY <1>1 DEF LetterStep, Letter!letterVars

LEMMA RowsUnread ==
  ASSUME UNCHANGED <<dlq, tries, accepted, byHand>>
  PROVE  LetterStep /\ (Unsent => Unsent')
<1>1. \A s \in Rows : PhaseOf(s)' = PhaseOf(s)
  BY DEF PhaseOf, Recorded
<1>2. QED
  BY <1>1 DEF LetterStep, Letter!letterVars, Unsent, Recorded

LEMMA BecomeDueLetter ==
  ASSUME Base, Unsent, NEW r \in Rows, BecomeDue(r)
  PROVE  LetterStep /\ Unsent'
<1>1. /\ r \in Recorded /\ dlq[r] \in DlqRow
      /\ dlq' = [dlq EXCEPT ![r] = [dlq[r] EXCEPT !.retry = "due"]]
      /\ dlq[r].retry = "later"
      /\ UNCHANGED <<tries, accepted, byHand>>
  BY DEF BecomeDue, Base, DlqTypeOK
<1>2. /\ Recorded' = Recorded
      /\ \A s \in Recorded \ {r} : dlq'[s] = dlq[s]
      /\ dlq'[r].resolved = dlq[r].resolved /\ dlq'[r].retry = "due"
  BY <1>1 DEF Recorded, DlqRow
<1>3. PhaseOf(r)' = PhaseOf(r)
  BY <1>1, <1>2 DEF PhaseOf
<1>4. QED
  BY <1>1, <1>2, <1>3, PhasesStay DEF Unsent

LEMMA MarkResolvedLetter ==
  ASSUME Base, Unsent, NEW r \in Rows, MarkResolved(r)
  PROVE  LetterStep /\ Unsent'
<1>1. /\ r \in Recorded /\ dlq[r] \in DlqRow
      /\ dlq' = [dlq EXCEPT ![r].resolved = TRUE, ![r].retry = "never"]
      /\ UNCHANGED <<tries, accepted>> /\ byHand' = byHand \cup {r}
  BY DEF MarkResolved, Base, DlqTypeOK
<1>2. /\ Recorded' = Recorded
      /\ \A s \in Recorded \ {r} : dlq'[s] = dlq[s]
      /\ dlq'[r].resolved
  BY <1>1 DEF Recorded, DlqRow
<1>3. PhaseOf(r) \in {"pending", "givenUp", "closed"} /\ PhaseOf(r)' = "closed"
  BY <1>1, <1>2 DEF PhaseOf
<1>4. Letter!Becomes(r, {"pending", "givenUp", "closed"}, "closed")
  BY <1>2, <1>3, PhaseMoves
<1>5. Letter!CloseByHand(r)
  BY <1>1, <1>4 DEF Letter!CloseByHand
<1>6. QED
  BY <1>1, <1>2, <1>5 DEF LetterStep, Letter!LetterNext, Unsent

LEMMA PostLetter ==
  ASSUME Base, Unsent, NEW j \in Jobs, NEW arrived \in BOOLEAN,
         NEW answered \in BOOLEAN, Post(j, arrived, answered)
  PROVE  LetterStep /\ Unsent'
<1> DEFINE r == replays[j].row
<1>1. /\ r \in Recorded /\ r \in Rows
      /\ tries' = [tries EXCEPT ![r] = @ + 1]
  BY PostBase DEF Base, DlqTypeOK
<1>2. /\ dlq' = dlq /\ Recorded' = Recorded /\ byHand' = byHand
      /\ accepted' = IF arrived THEN accepted \cup {r} ELSE accepted
  BY DEF Post, Recorded
<1>3. \A s \in Rows : PhaseOf(s)' = PhaseOf(s)
  BY <1>2 DEF PhaseOf, Recorded
<1>4. PhaseOf(r) # "none"
  BY <1>1 DEF PhaseOf
<1>5. Letter!SendAgain(r, arrived)
  BY <1>1, <1>2, <1>3, <1>4 DEF Letter!SendAgain, Letter!Send
<1>6. Unsent'
  BY <1>1, <1>2 DEF Unsent, Base, DlqTypeOK
<1>7. QED
  BY <1>1, <1>5, <1>6 DEF LetterStep, Letter!LetterNext

LEMMA SucceedLetter ==
  ASSUME Base, Delivered, Unsent, NEW j \in Jobs, Succeed(j)
  PROVE  LetterStep /\ Unsent'
<1> PICK r : r = replays[j].row
  OBVIOUS
<1>1. /\ r \in Recorded /\ r \in Rows /\ Recorded' = Recorded
      /\ dlq'[r].resolved
      /\ \A s \in Recorded \ {r} : dlq'[s] = dlq[s]
  <2>1. /\ Recorded' = Recorded
        /\ dlq'[r] = [attempts |-> replays[j].attempt, retry |-> "never",
                      resolved |-> TRUE]
        /\ \A s \in Recorded \ {r} : dlq'[s] = dlq[s]
    BY SucceedBase DEF Recorded
  <2>2. r \in Recorded /\ r \in Rows
    BY SucceedBase DEF Base, DlqTypeOK
  <2>3. QED
    BY <2>1, <2>2
<1>2. UNCHANGED <<tries, accepted, byHand>> /\ r \in accepted
  BY DEF Succeed, ReplayAt, Delivered, SuccessWasAccepted
<1>3. PhaseOf(r)' = "closed"
  BY <1>1 DEF PhaseOf
<1>4. CASE dlq[r].resolved
  <2>1. PhaseOf(r) = "closed"
    BY <1>1, <1>4 DEF PhaseOf
  <2>2. QED
    BY <1>1, <1>2, <1>3, <2>1, PhasesStay DEF Unsent
<1>5. CASE ~ dlq[r].resolved
  <2>1. PhaseOf(r) \in {"pending", "givenUp"}
    BY <1>1, <1>5 DEF PhaseOf
  <2>2. Letter!Becomes(r, {"pending", "givenUp"}, "closed")
    BY <1>1, <1>3, <2>1, PhaseMoves
  <2>3. Letter!Close(r)
    BY <1>2, <2>2 DEF Letter!Close
  <2>4. QED
    BY <1>1, <1>2, <2>3 DEF LetterStep, Letter!LetterNext, Unsent
<1>6. QED
  BY <1>4, <1>5

(* A replay that fails may give the row up, or take up one that another     *)
(* replay has given up: then its count was stale.                           *)
LEMMA FailLetter ==
  ASSUME DlqAssumption, Base, Counted, Unsent, NEW j \in Jobs, Fail(j)
  PROVE  LetterStep /\ Unsent'
<1> PICK r, attempt : r = replays[j].row /\ attempt = replays[j].attempt
  OBVIOUS
<1>1. /\ r \in Recorded /\ r \in Rows /\ Recorded' = Recorded
      /\ \A s \in Recorded \ {r} : dlq'[s] = dlq[s]
      /\ dlq'[r].resolved = dlq[r].resolved
      /\ dlq'[r].retry = IF Exhausted(attempt) THEN "never" ELSE "later"
      /\ attempt \in Nat /\ j \in DOMAIN replays /\ replays[j].pc = "fail"
  BY FailBase DEF Base, DlqTypeOK, Recorded
<1>2. UNCHANGED <<tries, accepted, byHand>>
  BY DEF Fail
<1>3. Unsent'
  BY <1>1, <1>2 DEF Unsent
<1>4. attempt <= tries[r] /\ tries[r] \in Nat
  BY <1>1 DEF Counted, JobsAreCounted, Base, DlqTypeOK
<1>5. CASE PhaseOf(r)' = PhaseOf(r)
  BY <1>1, <1>2, <1>3, <1>5, PhasesStay
<1>6. CASE PhaseOf(r)' # PhaseOf(r)
  <2>1. ~ dlq[r].resolved
    BY <1>1, <1>6 DEF PhaseOf
  <2>2. CASE Exhausted(attempt)
    <3>1. PhaseOf(r)' = "givenUp" /\ PhaseOf(r) \in {"pending"}
      BY <1>1, <1>6, <2>1, <2>2 DEF PhaseOf
    <3>2. tries[r] >= MaxAttempts
      <4>1. attempt >= MaxAttempts /\ MaxAttempts \in Nat
        BY <2>2, DlqAssumption DEF Exhausted, DlqAssumption
      <4>2. attempt \in Nat
        BY <1>1
      <4>3. QED
        BY <1>4, <4>1, <4>2
    <3>3. Letter!Becomes(r, {"pending"}, "givenUp")
      BY <1>1, <3>1, PhaseMoves
    <3>4. Letter!GiveUp(r)
      BY <1>2, <3>2, <3>3 DEF Letter!GiveUp
    <3>5. QED
      BY <1>1, <1>3, <3>4 DEF LetterStep, Letter!LetterNext
  <2>3. CASE ~ Exhausted(attempt)
    <3>1. PhaseOf(r)' = "pending" /\ PhaseOf(r) \in {"givenUp"}
      BY <1>1, <1>6, <2>1, <2>3 DEF PhaseOf
    <3>2. Letter!Becomes(r, {"givenUp"}, "pending")
      BY <1>1, <3>1, PhaseMoves
    <3>3. Letter!TakeUpAgain(r)
      BY <1>2, <3>2 DEF Letter!TakeUpAgain
    <3>4. QED
      BY <1>1, <1>3, <3>3 DEF LetterStep, Letter!LetterNext
  <2>4. QED
    BY <2>2, <2>3
<1>7. QED
  BY <1>5, <1>6

LEMMA DispatchedLetter ==
  ASSUME Base, Unsent, NEW r \in Rows, NEW arrived \in BOOLEAN,
         Dispatched(r, arrived)
  PROVE  LetterStep /\ Unsent'
<1>1. /\ Recorded' = Recorded \cup {r} /\ r \notin Recorded
      /\ dlq'[r] = [attempts |-> 1, retry |-> "later", resolved |-> FALSE]
      /\ \A s \in Recorded : dlq'[s] = dlq[s]
      /\ tries' = [tries EXCEPT ![r] = 1]
  BY DispatchedBase DEF Recorded
<1>2. /\ byHand' = byHand
      /\ accepted' = IF arrived THEN accepted \cup {r} ELSE accepted
  BY DEF Dispatched
<1>3. tries' = [tries EXCEPT ![r] = @ + 1]
  <2>1. tries[r] + 1 = 1
    BY <1>1 DEF Unsent
  <2>2. QED
    BY <1>1, <2>1
<1>4. PhaseOf(r) \in {"none"} /\ PhaseOf(r)' = "pending"
  BY <1>1 DEF PhaseOf
<1>5. Letter!Becomes(r, {"none"}, "pending")
  BY <1>1, <1>4, PhaseMoves
<1>6. Letter!Enter(r, arrived)
  BY <1>2, <1>3, <1>5 DEF Letter!Enter, Letter!Send
<1>7. Unsent'
  BY <1>1 DEF Unsent, Base, DlqTypeOK
<1>8. QED
  BY <1>6, <1>7 DEF LetterStep, Letter!LetterNext

LEMMA LetterSteps ==
  ASSUME DlqAssumption, Base, Delivered, Counted, Unsent, [DlqNext]_dlqVars
  PROVE  LetterStep /\ Unsent'
<1>1. ASSUME UNCHANGED <<dlq, tries, accepted, byHand>>
      PROVE  LetterStep /\ Unsent'
  BY <1>1, RowsUnread
<1>2. ASSUME NEW j \in Jobs, NEW arrived \in BOOLEAN, NEW answered \in BOOLEAN,
             Post(j, arrived, answered)
      PROVE  LetterStep /\ Unsent'
  BY <1>2, PostLetter
<1>3. ASSUME NEW j \in Jobs, Succeed(j) PROVE LetterStep /\ Unsent'
  BY <1>3, SucceedLetter
<1>4. ASSUME NEW j \in Jobs, Fail(j) PROVE LetterStep /\ Unsent'
  BY <1>4, FailLetter
<1>5. ASSUME NEW r \in Rows, BecomeDue(r) PROVE LetterStep /\ Unsent'
  BY <1>5, BecomeDueLetter
<1>6. ASSUME NEW r \in Rows, MarkResolved(r) PROVE LetterStep /\ Unsent'
  BY <1>6, MarkResolvedLetter
<1>7. ASSUME NEW r \in Rows, NEW arrived \in BOOLEAN, Dispatched(r, arrived)
      PROVE  LetterStep /\ Unsent'
  BY <1>7, DispatchedLetter
<1>8. ASSUME NEW j \in Jobs,
             \/ Tick(j) \/ ReplayDies(j)
             \/ \E r \in Rows : \/ ReadRow(j, r) \/ ReplayByHand(j, r)
                              \/ ReplayThrows(j, r)
      PROVE  LetterStep /\ Unsent'
  <2>1. UNCHANGED <<dlq, tries, accepted, byHand>>
    <3>1. CASE Tick(j) \/ ReplayDies(j)
      BY <3>1 DEF Tick, ReplayDies
    <3>2. ASSUME NEW r \in Rows,
                 ReadRow(j, r) \/ ReplayByHand(j, r) \/ ReplayThrows(j, r)
          PROVE  UNCHANGED <<dlq, tries, accepted, byHand>>
      BY <3>2 DEF ReadRow, ReplayByHand, ReplayThrows
    <3>3. QED
      BY <1>8, <3>1, <3>2
  <2>2. QED
    BY <1>1, <2>1
<1>9. CASE UNCHANGED dlqVars
  BY <1>1, <1>9 DEF dlqVars
<1>10. QED
  BY <1>2, <1>3, <1>4, <1>5, <1>6, <1>7, <1>8, <1>9 DEF DlqNext, DlqStep, ReplayStep

(* The dead-letter queue keeps its promise about each delivery, for any     *)
(* number of deliveries, jobs and attempts.                                 *)
THEOREM ImplementsDeadLetter == DlqSpec => LetterSpec
<1>1. DlqInit => Delivered /\ Counted /\ Unsent
  BY DEF DlqInit, Delivered, SuccessWasAccepted, ResolvedWasDelivered, Counted,
         RowsAreCounted, JobsAreCounted, Unsent, Recorded
<1>2. Base /\ Delivered /\ Counted /\ Unsent /\ [DlqNext]_dlqVars
        => Delivered' /\ Counted' /\ Unsent' /\ LetterStep
  BY DeliveredStep, CountedStep, LetterSteps, DlqAssumption
<1>3. DlqInit => Letter!LetterInit
  BY DEF DlqInit, Letter!LetterInit, PhaseOf, Recorded
<1>4. QED
  BY <1>1, <1>2, <1>3, BaseHolds, PTL
     DEF DlqSpec, LetterStep, LetterSpec, Letter!LetterSpec

-----------------------------------------------------------------------------
(* The relay *)

(* A relay past buildEnvelope holds an envelope of its own event. *)
HoldsEnvelope ==
  \A h \in DOMAIN relaying : relaying[h].pc # "build" =>
    /\ relaying[h].envelope \in DOMAIN eventOf
    /\ eventOf[relaying[h].envelope] = relaying[h].event

RelayBase == Base /\ RelayTypeOK /\ HoldsEnvelope

(* Every envelope keeps its event, and no loss is forgotten. *)
RelayGrows ==
  /\ Grows
  /\ lost \subseteq lost'
  /\ DOMAIN eventOf \subseteq DOMAIN eventOf'
  /\ \A v \in DOMAIN eventOf : eventOf'[v] = eventOf[v]

(* Handler h is still to deliver the envelope of e to c. *)
Sends(h, e, c) ==
  /\ RelayAt(h, "dispatch")
  /\ relaying[h].event = e
  /\ c \in relaying[h].todo \cup relaying[h].failed

Owed(e, c) ==
  \/ \E v \in Built(e) : <<v, c>> \in accepted \cup Recorded
  \/ \E h \in DOMAIN relaying : Sends(h, e, c)
  \/ <<e, c>> \in lost

-----------------------------------------------------------------------------
(* What the helpers do to the requests in flight. *)

LEMMA DropFacts ==
  ASSUME RelayBase, NEW h \in DOMAIN relaying, Drop(h)
  PROVE  /\ DOMAIN relaying' = DOMAIN relaying \ {h}
         /\ relaying' \in [DOMAIN relaying' -> Relay]
         /\ \A g \in DOMAIN relaying' : relaying'[g] = relaying[g]
BY DEF Drop, RelayBase, RelayTypeOK

LEMMA SetFacts ==
  ASSUME RelayBase, NEW h \in DOMAIN relaying, NEW new \in Relay,
         relaying' = [relaying EXCEPT ![h] = new]
  PROVE  /\ DOMAIN relaying' = DOMAIN relaying
         /\ relaying' \in [DOMAIN relaying' -> Relay]
         /\ relaying'[h] = new
         /\ \A g \in DOMAIN relaying : g # h => relaying'[g] = relaying[g]
BY DEF RelayBase, RelayTypeOK

LEMMA StartDispatchFacts ==
  ASSUME RelayBase, NEW h, RelayAt(h, "persist"), StartDispatch(h)
  PROVE  /\ DOMAIN relaying' = DOMAIN relaying
         /\ relaying' \in [DOMAIN relaying' -> Relay]
         /\ h \in DOMAIN relaying
         /\ RelayAt(h, "dispatch")'
         /\ relaying'[h].event = relaying[h].event
         /\ relaying'[h].envelope = relaying[h].envelope
         /\ relaying'[h].todo = Consumers
         /\ \A g \in DOMAIN relaying : g # h => relaying'[g] = relaying[g]
<1> DEFINE new == [relaying[h] EXCEPT !.pc = "dispatch", !.todo = Consumers]
<1>1. h \in DOMAIN relaying /\ relaying[h] \in Relay
  BY DEF RelayAt, RelayBase, RelayTypeOK
<1>2. /\ new \in Relay /\ new.pc = "dispatch" /\ new.event = relaying[h].event
      /\ new.envelope = relaying[h].envelope /\ new.todo = Consumers
  BY <1>1 DEF Relay, RelayPc
<1>3. relaying' = [relaying EXCEPT ![h] = new]
  BY DEF StartDispatch
<1>4. QED
  BY <1>1, <1>2, <1>3, SetFacts DEF RelayAt

LEMMA LeaveFacts ==
  ASSUME RelayBase, NEW h \in DOMAIN relaying,
         NEW todo \in SUBSET Consumers, NEW failed \in SUBSET Consumers,
         Leave(h, todo, failed)
  PROVE  /\ DOMAIN relaying' \subseteq DOMAIN relaying
         /\ relaying' \in [DOMAIN relaying' -> Relay]
         /\ \A g \in DOMAIN relaying : g # h =>
              g \in DOMAIN relaying' /\ relaying'[g] = relaying[g]
         /\ h \in DOMAIN relaying' =>
              /\ relaying'[h].pc = relaying[h].pc
              /\ relaying'[h].event = relaying[h].event
              /\ relaying'[h].envelope = relaying[h].envelope
              /\ relaying'[h].todo = todo
              /\ relaying'[h].failed = failed
         /\ todo \cup failed # {} => h \in DOMAIN relaying'
<1>1. CASE todo = {} /\ failed = {}
  <2>1. Drop(h)
    BY <1>1 DEF Leave
  <2>2. QED
    BY <1>1, <2>1, DropFacts
<1>2. CASE ~ (todo = {} /\ failed = {})
  <2> DEFINE new == [relaying[h] EXCEPT !.todo = todo, !.failed = failed]
  <2>1. relaying[h] \in Relay
    BY DEF RelayBase, RelayTypeOK
  <2>2. /\ new \in Relay /\ new.pc = relaying[h].pc
        /\ new.event = relaying[h].event /\ new.envelope = relaying[h].envelope
        /\ new.todo = todo /\ new.failed = failed
    BY <2>1 DEF Relay
  <2>3. relaying' = [relaying EXCEPT ![h] = new]
    BY <1>2 DEF Leave
  <2>4. QED
    BY <2>2, <2>3, SetFacts
<1>3. QED
  BY <1>1, <1>2

-----------------------------------------------------------------------------
(* Each step keeps RelayBase, and what is owed stays owed: Effect is what    *)
(* the proof of BilledIsOwed needs of an action.                             *)

Effect ==
  /\ RelayBase' /\ RelayGrows
  /\ \A e \in Events, c \in Consumers :
       (\E h \in DOMAIN relaying : Sends(h, e, c)) => Owed(e, c)'
  /\ \A e \in billed' \ billed, c \in Consumers : Owed(e, c)'

(* A request that stays in flight as it was still sends what it did. *)
LEMMA SendsStays ==
  ASSUME NEW h \in DOMAIN relaying, NEW e, NEW c, Sends(h, e, c),
         h \in DOMAIN relaying', relaying'[h] = relaying[h]
  PROVE  Owed(e, c)'
BY DEF Sends, RelayAt, Owed

LEMMA BaseKept ==
  ASSUME Base, UNCHANGED dlqVars
  PROVE  Base' /\ Grows
BY DEF dlqVars, Base, DlqTypeOK, JobsHoldRows, Grows, Recorded

LEMMA WebhookEffect ==
  ASSUME RelayBase, NEW h \in Handlers, NEW e \in Events, Webhook(h, e)
  PROVE  Effect
<1> DEFINE new == [pc |-> "build", event |-> e, envelope |-> NoEnvelope,
                   todo |-> {}, failed |-> {}]
<1>1. new \in Relay
  BY DEF Relay, RelayPc
<1>2. /\ DOMAIN relaying' = DOMAIN relaying \cup {h}
      /\ h \notin DOMAIN relaying
      /\ relaying'[h] = new
      /\ \A g \in DOMAIN relaying : relaying'[g] = relaying[g]
      /\ relaying' \in [DOMAIN relaying' -> Relay]
  BY <1>1 DEF Webhook, RelayBase, RelayTypeOK
<1>3. RelayTypeOK'
  BY <1>2 DEF Webhook, RelayBase, RelayTypeOK
<1>4. HoldsEnvelope'
  BY <1>2 DEF Webhook, RelayBase, HoldsEnvelope
<1>5. Base' /\ RelayGrows
  BY BaseKept DEF Webhook, RelayBase, RelayGrows
<1>6. \A d \in Events, c \in Consumers :
        (\E g \in DOMAIN relaying : Sends(g, d, c)) => Owed(d, c)'
  BY <1>2, SendsStays
<1>7. QED
  BY <1>3, <1>4, <1>5, <1>6 DEF Effect, RelayBase, Webhook

LEMMA BuildEnvelopeEffect ==
  ASSUME RelayBase, NEW h \in Handlers, NEW v \in Envelopes, BuildEnvelope(h, v)
  PROVE  Effect
<1> DEFINE new == [relaying[h] EXCEPT !.pc = "persist", !.envelope = v]
<1>1. h \in DOMAIN relaying /\ relaying[h] \in Relay /\ relaying[h].pc = "build"
      /\ v \notin DOMAIN eventOf
  BY DEF BuildEnvelope, RelayAt, RelayBase, RelayTypeOK
<1>2. /\ new \in Relay /\ new.pc = "persist" /\ new.envelope = v
      /\ new.event = relaying[h].event
  BY <1>1 DEF Relay, RelayPc
<1>3. relaying' = [relaying EXCEPT ![h] = new]
  BY DEF BuildEnvelope
<1>4. /\ DOMAIN relaying' = DOMAIN relaying /\ relaying'[h] = new
      /\ \A g \in DOMAIN relaying : g # h => relaying'[g] = relaying[g]
      /\ relaying' \in [DOMAIN relaying' -> Relay]
  BY <1>1, <1>2, <1>3, SetFacts
<1>5. /\ DOMAIN eventOf' = DOMAIN eventOf \cup {v}
      /\ eventOf'[v] = relaying[h].event
      /\ \A w \in DOMAIN eventOf : eventOf'[w] = eventOf[w]
      /\ eventOf' \in [DOMAIN eventOf' -> Events]
  BY <1>1 DEF BuildEnvelope, RelayBase, RelayTypeOK, Relay
<1>6. RelayTypeOK'
  BY <1>4, <1>5 DEF BuildEnvelope, RelayBase, RelayTypeOK
<1>7. HoldsEnvelope'
  <2> SUFFICES ASSUME NEW g \in DOMAIN relaying, relaying'[g].pc # "build"
               PROVE  /\ relaying'[g].envelope \in DOMAIN eventOf'
                      /\ eventOf'[relaying'[g].envelope] = relaying'[g].event
    BY <1>4 DEF HoldsEnvelope
  <2>1. CASE g = h
    BY <2>1, <1>2, <1>4, <1>5
  <2>2. CASE g # h
    BY <2>2, <1>4, <1>5 DEF RelayBase, HoldsEnvelope
  <2>3. QED
    BY <2>1, <2>2
<1>8. Base' /\ RelayGrows
  BY <1>5, BaseKept DEF BuildEnvelope, RelayBase, RelayGrows
<1>9. ASSUME NEW d \in Events, NEW c \in Consumers, NEW g \in DOMAIN relaying,
             Sends(g, d, c)
      PROVE  Owed(d, c)'
  <2>1. g # h
    BY <1>1, <1>9 DEF Sends, RelayAt
  <2>2. QED
    BY <1>4, <1>9, <2>1, SendsStays
<1>10. QED
  BY <1>6, <1>7, <1>8, <1>9 DEF Effect, RelayBase, BuildEnvelope

LEMMA SkipEventEffect ==
  ASSUME RelayBase, NEW h \in Handlers, SkipEvent(h)
  PROVE  Effect
<1>1. h \in DOMAIN relaying /\ relaying[h].pc = "build"
  BY DEF SkipEvent, RelayAt
<1>2. /\ DOMAIN relaying' = DOMAIN relaying \ {h}
      /\ relaying' \in [DOMAIN relaying' -> Relay]
      /\ \A g \in DOMAIN relaying' : relaying'[g] = relaying[g]
  BY <1>1, DropFacts DEF SkipEvent
<1>3. RelayTypeOK' /\ HoldsEnvelope'
  BY <1>2 DEF SkipEvent, RelayBase, RelayTypeOK, HoldsEnvelope
<1>4. Base' /\ RelayGrows
  BY BaseKept DEF SkipEvent, RelayBase, RelayGrows
<1>5. ASSUME NEW d \in Events, NEW c \in Consumers, NEW g \in DOMAIN relaying,
             Sends(g, d, c)
      PROVE  Owed(d, c)'
  <2>1. g # h
    BY <1>1, <1>5 DEF Sends, RelayAt
  <2>2. QED
    BY <1>2, <1>5, <2>1, SendsStays
<1>6. QED
  BY <1>3, <1>4, <1>5 DEF Effect, RelayBase, SkipEvent

(* PersistBillingEvent and PersistThrows: the handler goes on to dispatch.  *)
LEMMA StartDispatchEffect ==
  ASSUME RelayBase, NEW h \in Handlers, RelayAt(h, "persist"), StartDispatch(h),
         UNCHANGED <<eventOf, lost, dlqVars>>,
         relayFaults' \in 0..MaxRelayFaults,
         billed' \subseteq Linked, billed' \subseteq billed \cup {relaying[h].event}
  PROVE  Effect
<1>1. /\ DOMAIN relaying' = DOMAIN relaying
      /\ relaying' \in [DOMAIN relaying' -> Relay]
      /\ h \in DOMAIN relaying
      /\ RelayAt(h, "dispatch")'
      /\ relaying'[h].event = relaying[h].event
      /\ relaying'[h].envelope = relaying[h].envelope
      /\ relaying'[h].todo = Consumers
      /\ \A g \in DOMAIN relaying : g # h => relaying'[g] = relaying[g]
  BY StartDispatchFacts
<1>2. RelayTypeOK'
  BY <1>1 DEF RelayBase, RelayTypeOK
<1>3. HoldsEnvelope'
  <2> SUFFICES ASSUME NEW g \in DOMAIN relaying, relaying'[g].pc # "build"
               PROVE  /\ relaying'[g].envelope \in DOMAIN eventOf
                      /\ eventOf[relaying'[g].envelope] = relaying'[g].event
    BY <1>1 DEF HoldsEnvelope
  <2>1. CASE g = h
    BY <2>1, <1>1 DEF RelayBase, HoldsEnvelope, RelayAt
  <2>2. CASE g # h
    BY <2>2, <1>1 DEF RelayBase, HoldsEnvelope
  <2>3. QED
    BY <2>1, <2>2
<1>4. Base' /\ RelayGrows
  BY BaseKept DEF RelayBase, RelayGrows
<1>5. ASSUME NEW d \in Events, NEW c \in Consumers, NEW g \in DOMAIN relaying,
             Sends(g, d, c)
      PROVE  Owed(d, c)'
  <2>1. g # h
    BY <1>5 DEF Sends, RelayAt
  <2>2. QED
    BY <1>1, <1>5, <2>1, SendsStays
<1>6. ASSUME NEW d \in billed' \ billed, NEW c \in Consumers
      PROVE  Owed(d, c)'
  <2>1. d = relaying[h].event
    BY <1>6
  <2>2. Sends(h, d, c)'
    BY <1>1, <2>1 DEF Sends
  <2>3. QED
    BY <1>1, <2>2 DEF Owed
<1>7. QED
  BY <1>2, <1>3, <1>4, <1>5, <1>6 DEF Effect, RelayBase

LEMMA PersistEffect ==
  ASSUME RelayBase, NEW h \in Handlers, PersistBillingEvent(h)
  PROVE  Effect
<1>1. /\ billed' \subseteq Linked
      /\ billed' \subseteq billed \cup {relaying[h].event}
  BY DEF PersistBillingEvent, RelayBase, RelayTypeOK
<1>2. QED
  BY <1>1, StartDispatchEffect
     DEF PersistBillingEvent, RelayBase, RelayTypeOK

LEMMA PersistThrowsEffect ==
  ASSUME RelayAssumption, RelayBase, NEW h \in Handlers, PersistThrows(h)
  PROVE  Effect
<1>1. relayFaults' \in 0..MaxRelayFaults
  BY DEF PersistThrows, RelayFault, RelayBase, RelayTypeOK, RelayAssumption
<1>2. billed' \subseteq Linked /\ billed' \subseteq billed \cup {relaying[h].event}
  BY DEF PersistThrows, RelayFault, RelayBase, RelayTypeOK
<1>3. QED
  BY <1>1, <1>2, StartDispatchEffect DEF PersistThrows, RelayFault

-----------------------------------------------------------------------------
(* The requests of one dispatch *)

(* Handler h strikes c off: everything it still sends stays owed as long as *)
(* c has become so in another way.                                          *)
LEMMA LeaveEffect ==
  ASSUME RelayBase, NEW h \in DOMAIN relaying, relaying[h].pc = "dispatch",
         NEW c \in Consumers,
         NEW todo \in SUBSET Consumers, NEW failed \in SUBSET Consumers,
         Leave(h, todo, failed),
         \A d \in relaying[h].todo \cup relaying[h].failed :
           d # c => d \in todo \cup failed,
         \/ c \in todo \cup failed
         \/ <<relaying[h].envelope, c>> \in accepted' \cup Recorded'
         \/ <<relaying[h].event, c>> \in lost',
         Base', Grows, UNCHANGED <<billed, eventOf>>,
         relayFaults' \in 0..MaxRelayFaults,
         lost \subseteq lost', lost' \subseteq Events \X Consumers
  PROVE  Effect
<1>1. /\ DOMAIN relaying' \subseteq DOMAIN relaying
      /\ relaying' \in [DOMAIN relaying' -> Relay]
      /\ \A g \in DOMAIN relaying : g # h =>
           g \in DOMAIN relaying' /\ relaying'[g] = relaying[g]
      /\ h \in DOMAIN relaying' =>
           /\ relaying'[h].pc = relaying[h].pc
           /\ relaying'[h].event = relaying[h].event
           /\ relaying'[h].envelope = relaying[h].envelope
           /\ relaying'[h].todo = todo
           /\ relaying'[h].failed = failed
      /\ todo \cup failed # {} => h \in DOMAIN relaying'
  BY LeaveFacts
<1>2. RelayTypeOK'
  BY <1>1 DEF RelayBase, RelayTypeOK
<1>3. HoldsEnvelope'
  <2> SUFFICES ASSUME NEW g \in DOMAIN relaying', relaying'[g].pc # "build"
               PROVE  /\ relaying'[g].envelope \in DOMAIN eventOf
                      /\ eventOf[relaying'[g].envelope] = relaying'[g].event
    BY DEF HoldsEnvelope
  <2>1. /\ relaying'[g].pc = relaying[g].pc
        /\ relaying'[g].event = relaying[g].event
        /\ relaying'[g].envelope = relaying[g].envelope
        /\ g \in DOMAIN relaying
    BY <1>1
  <2>2. QED
    BY <2>1 DEF RelayBase, HoldsEnvelope
<1>4. RelayGrows
  BY DEF RelayGrows
<1>5. ASSUME NEW e \in Events, NEW d \in Consumers, NEW g \in DOMAIN relaying,
             Sends(g, e, d)
      PROVE  Owed(e, d)'
  <2>1. CASE g # h
    BY <1>1, <1>5, <2>1, SendsStays
  <2>2. CASE g = h /\ d \in todo \cup failed
    <3>1. Sends(h, e, d)' /\ h \in DOMAIN relaying'
      BY <1>1, <1>5, <2>2 DEF Sends, RelayAt
    <3>2. QED
      BY <3>1 DEF Owed
  <2>3. CASE g = h /\ d \notin todo \cup failed
    <3>1. d = c /\ e = relaying[h].event
      BY <1>5, <2>3 DEF Sends
    <3>2. relaying[h].envelope \in Built(e)'
      BY <3>1 DEF RelayBase, HoldsEnvelope, Built
    <3>3. QED
      BY <2>3, <3>1, <3>2 DEF Owed
  <2>4. QED
    BY <2>1, <2>2, <2>3
<1>6. QED
  BY <1>2, <1>3, <1>4, <1>5 DEF Effect, RelayBase

LEMMA PostToConsumerEffect ==
  ASSUME RelayAssumption, RelayBase, NEW h \in Handlers, NEW c \in Consumers,
         NEW arrived \in BOOLEAN, NEW answered \in BOOLEAN,
         PostToConsumer(h, c, arrived, answered)
  PROVE  Effect
<1> DEFINE r == <<relaying[h].envelope, c>>
           todo == relaying[h].todo \ {c}
           failed == IF arrived /\ answered THEN relaying[h].failed
                                            ELSE relaying[h].failed \cup {c}
<1>1. /\ h \in DOMAIN relaying /\ relaying[h] \in Relay
      /\ relaying[h].pc = "dispatch"
  BY DEF PostToConsumer, RelayAt, RelayBase, RelayTypeOK
<1>2. relaying[h].envelope \in Envelopes
  BY <1>1 DEF RelayBase, RelayTypeOK, HoldsEnvelope
<1>3. r \in Rows
  BY <1>2 DEF RelayAssumption
<1>4. /\ todo \in SUBSET Consumers /\ failed \in SUBSET Consumers
      /\ \A d \in relaying[h].todo \cup relaying[h].failed :
           d # c => d \in todo \cup failed
  BY <1>1 DEF Relay
<1>5. Leave(h, todo, failed)
  BY DEF PostToConsumer
<1>6. c \in failed \/ r \in accepted'
  BY DEF PostToConsumer
<1>7. /\ tries' \in [Rows -> Nat]
      /\ accepted' \in SUBSET Rows /\ accepted \subseteq accepted'
  BY <1>3 DEF PostToConsumer, RelayBase, Base, DlqTypeOK
<1>8. Base' /\ Grows
  BY <1>7 DEF PostToConsumer, RelayBase, Base, DlqTypeOK, JobsHoldRows, Grows,
              Recorded
<1>9. /\ UNCHANGED <<billed, eventOf>> /\ relayFaults' \in 0..MaxRelayFaults
      /\ lost \subseteq lost' /\ lost' \subseteq Events \X Consumers
  BY DEF PostToConsumer, RelayBase, RelayTypeOK
<1> HIDE DEF todo, failed
<1>10. QED
  BY <1>1, <1>4, <1>5, <1>6, <1>8, <1>9, LeaveEffect

LEMMA RecordForEffect ==
  ASSUME RelayAssumption, RelayBase, NEW h \in Handlers, NEW c \in Consumers,
         RecordFor(h, c)
  PROVE  Effect
<1> DEFINE r == <<relaying[h].envelope, c>>
           row == [attempts |-> 1, retry |-> "later", resolved |-> FALSE]
           failed == relaying[h].failed \ {c}
           todo == relaying[h].todo
<1>1. /\ h \in DOMAIN relaying /\ relaying[h] \in Relay
      /\ relaying[h].pc = "dispatch"
  BY DEF RecordFor, RelayAt, RelayBase, RelayTypeOK
<1>2. /\ todo \in SUBSET Consumers /\ failed \in SUBSET Consumers
      /\ \A d \in relaying[h].todo \cup relaying[h].failed :
           d # c => d \in todo \cup failed
  BY <1>1 DEF Relay
<1>3. row \in DlqRow
  BY DEF DlqRow, Retry
<1>4. /\ r \in Rows /\ r \notin Recorded
      /\ dlq' = [s \in Recorded \cup {r} |-> IF s = r THEN row ELSE dlq[s]]
  BY DEF RecordFor, RecordFailure
<1>5. DOMAIN dlq' = Recorded \cup {r} /\ dlq' \in [DOMAIN dlq' -> DlqRow]
  BY <1>3, <1>4 DEF RelayBase, Base, DlqTypeOK
<1>6. Base' /\ Grows
  BY <1>4, <1>5 DEF RecordFor, RelayBase, Base, DlqTypeOK, JobsHoldRows, Grows,
                    Recorded
<1>7. r \in Recorded'
  BY <1>5 DEF Recorded
<1>8. /\ UNCHANGED <<billed, eventOf>> /\ relayFaults' \in 0..MaxRelayFaults
      /\ lost \subseteq lost' /\ lost' \subseteq Events \X Consumers
      /\ Leave(h, todo, failed)
  BY DEF RecordFor, RelayBase, RelayTypeOK
<1> HIDE DEF todo, failed
<1>9. QED
  BY <1>1, <1>2, <1>6, <1>7, <1>8, LeaveEffect

LEMMA RecordThrowsEffect ==
  ASSUME RelayAssumption, RelayBase, NEW h \in Handlers, NEW c \in Consumers,
         RecordThrows(h, c)
  PROVE  Effect
<1> DEFINE failed == relaying[h].failed \ {c}
           todo == relaying[h].todo
<1>1. /\ h \in DOMAIN relaying /\ relaying[h] \in Relay
      /\ relaying[h].pc = "dispatch"
  BY DEF RecordThrows, RelayAt, RelayBase, RelayTypeOK
<1>2. /\ todo \in SUBSET Consumers /\ failed \in SUBSET Consumers
      /\ \A d \in relaying[h].todo \cup relaying[h].failed :
           d # c => d \in todo \cup failed
  BY <1>1 DEF Relay
<1>3. Base' /\ Grows
  BY BaseKept DEF RecordThrows, RelayFault, RelayBase
<1>4. /\ lost \subseteq lost' /\ lost' \subseteq Events \X Consumers
      /\ <<relaying[h].event, c>> \in lost'
  BY <1>1 DEF RecordThrows, RelayBase, RelayTypeOK, Relay
<1>5. /\ UNCHANGED <<billed, eventOf>> /\ relayFaults' \in 0..MaxRelayFaults
      /\ Leave(h, todo, failed)
  BY DEF RecordThrows, RelayFault, RelayBase, RelayTypeOK, RelayAssumption
<1> HIDE DEF todo, failed
<1>6. QED
  BY <1>1, <1>2, <1>3, <1>4, <1>5, LeaveEffect

LEMMA RelayDiesEffect ==
  ASSUME RelayAssumption, RelayBase, NEW h \in Handlers, RelayDies(h)
  PROVE  Effect
<1>1. h \in DOMAIN relaying /\ relaying[h] \in Relay
  BY DEF RelayDies, RelayBase, RelayTypeOK
<1>2. /\ DOMAIN relaying' = DOMAIN relaying \ {h}
      /\ relaying' \in [DOMAIN relaying' -> Relay]
      /\ \A g \in DOMAIN relaying' : relaying'[g] = relaying[g]
  BY <1>1, DropFacts DEF RelayDies
<1>3. lost \subseteq lost' /\ lost' \subseteq Events \X Consumers
  BY <1>1 DEF RelayDies, RelayBase, RelayTypeOK, Relay
<1>4. relayFaults' \in 0..MaxRelayFaults
  BY DEF RelayDies, RelayFault, RelayBase, RelayTypeOK, RelayAssumption
<1>5. RelayTypeOK' /\ HoldsEnvelope'
  BY <1>2, <1>3, <1>4
     DEF RelayDies, RelayFault, RelayBase, RelayTypeOK, HoldsEnvelope
<1>6. Base' /\ RelayGrows
  BY <1>3, BaseKept DEF RelayDies, RelayFault, RelayBase, RelayGrows
<1>7. ASSUME NEW e \in Events, NEW d \in Consumers, NEW g \in DOMAIN relaying,
             Sends(g, e, d)
      PROVE  Owed(e, d)'
  <2>1. CASE g = h
    <3>1. <<e, d>> \in lost'
      BY <1>7, <2>1 DEF RelayDies, Sends
    <3>2. QED
      BY <3>1 DEF Owed
  <2>2. CASE g # h
    BY <1>2, <1>7, <2>2, SendsStays
  <2>3. QED
    BY <2>1, <2>2
<1>8. QED
  BY <1>5, <1>6, <1>7 DEF Effect, RelayBase, RelayDies, RelayFault

(* A step of the dead-letter queue. *)
LEMMA DlqStepEffect ==
  ASSUME DlqAssumption, RelayBase, DlqStep, UNCHANGED relayVars
  PROVE  Effect
<1>1. Base' /\ Grows
  BY BaseInductive DEF DlqNext, RelayBase
<1>2. RelayTypeOK' /\ HoldsEnvelope' /\ RelayGrows
  BY <1>1 DEF relayVars, RelayBase, RelayTypeOK, HoldsEnvelope, RelayGrows
<1>3. ASSUME NEW e \in Events, NEW d \in Consumers, NEW g \in DOMAIN relaying,
             Sends(g, e, d)
      PROVE  Owed(e, d)'
  BY <1>3, SendsStays DEF relayVars
<1>4. QED
  BY <1>1, <1>2, <1>3 DEF Effect, RelayBase, relayVars

-----------------------------------------------------------------------------

LEMMA StepEffect ==
  ASSUME DlqAssumption, RelayAssumption, RelayBase, [Next]_vars
  PROVE  Effect
<1>1. ASSUME NEW h \in Handlers, NEW e \in Events, Webhook(h, e) PROVE Effect
  BY <1>1, WebhookEffect
<1>2. ASSUME NEW h \in Handlers, NEW v \in Envelopes, BuildEnvelope(h, v)
      PROVE  Effect
  BY <1>2, BuildEnvelopeEffect
<1>3. ASSUME NEW h \in Handlers, SkipEvent(h) PROVE Effect
  BY <1>3, SkipEventEffect
<1>4. ASSUME NEW h \in Handlers, PersistBillingEvent(h) PROVE Effect
  BY <1>4, PersistEffect
<1>5. ASSUME NEW h \in Handlers, NEW c \in Consumers, NEW arrived \in BOOLEAN,
             NEW answered \in BOOLEAN, PostToConsumer(h, c, arrived, answered)
      PROVE  Effect
  BY <1>5, PostToConsumerEffect
<1>6. ASSUME NEW h \in Handlers, NEW c \in Consumers, RecordFor(h, c)
      PROVE  Effect
  BY <1>6, RecordForEffect
<1>7. ASSUME NEW h \in Handlers, PersistThrows(h) PROVE Effect
  BY <1>7, PersistThrowsEffect
<1>8. ASSUME NEW h \in Handlers, NEW c \in Consumers, RecordThrows(h, c)
      PROVE  Effect
  BY <1>8, RecordThrowsEffect
<1>9. ASSUME NEW h \in Handlers, RelayDies(h) PROVE Effect
  BY <1>9, RelayDiesEffect
<1>10. ASSUME DlqStep, UNCHANGED relayVars PROVE Effect
  BY <1>10, DlqStepEffect
<1>11. CASE UNCHANGED vars
  <2>1. Base' /\ Grows
    BY <1>11, BaseKept DEF vars, RelayBase
  <2>2. RelayTypeOK' /\ HoldsEnvelope' /\ RelayGrows
    BY <1>11, <2>1
       DEF vars, relayVars, RelayBase, RelayTypeOK, HoldsEnvelope, RelayGrows
  <2>3. QED
    BY <1>11, <2>1, <2>2, SendsStays DEF vars, relayVars, Effect, RelayBase
<1>12. QED
  BY <1>1, <1>2, <1>3, <1>4, <1>5, <1>6, <1>7, <1>8, <1>9, <1>10, <1>11
     DEF Next, RelayStep

LEMMA RelayBaseInit ==
  ASSUME DlqAssumption, RelayAssumption, Init
  PROVE  RelayBase
BY BaseInit DEF Init, RelayBase, RelayTypeOK, HoldsEnvelope, RelayAssumption

LEMMA RelayBaseHolds == Spec => []RelayBase
<1>1. Init => RelayBase
  BY RelayBaseInit, DlqAssumption, RelayAssumption
<1>2. RelayBase /\ [Next]_vars => RelayBase'
  BY StepEffect, DlqAssumption, RelayAssumption DEF Effect
<1>3. QED
  BY <1>1, <1>2, PTL DEF Spec

(* Only events of local users get a billing_events row, and every request   *)
(* in flight and every envelope keeps its type.                             *)
THEOREM RelayTypeCorrect == Spec => []RelayTypeOK
<1>1. RelayBase => RelayTypeOK
  BY DEF RelayBase
<1>2. QED
  BY <1>1, RelayBaseHolds, PTL

(* A stored payment is accepted by each consumer, waits in the dead-letter *)
(* queue for it or is still being sent, unless a fault cut it off.         *)
THEOREM BilledIsOwedHolds == Spec => []BilledIsOwed
<1>1. Init => BilledIsOwed
  BY DEF Init, BilledIsOwed
<1>2. BilledIsOwed <=> \A e \in billed, c \in Consumers : Owed(e, c)
  BY DEF BilledIsOwed, Owed, Sends
<1>3. ASSUME RelayBase, BilledIsOwed, [Next]_vars
      PROVE  BilledIsOwed'
  <2>1. Effect
    BY <1>3, StepEffect, DlqAssumption, RelayAssumption
  <2> SUFFICES ASSUME NEW e \in billed', NEW c \in Consumers
               PROVE  Owed(e, c)'
    BY DEF BilledIsOwed, Owed, Sends
  <2>2. e \in Events
    BY <2>1, RelayAssumption DEF Effect, RelayBase, RelayTypeOK, RelayAssumption
  <2>3. CASE e \notin billed
    BY <2>1, <2>3 DEF Effect
  <2>4. CASE e \in billed
    <3>1. CASE \E v \in Built(e) : <<v, c>> \in accepted \cup Recorded
      BY <3>1, <2>1 DEF Effect, RelayGrows, Grows, Built, Owed
    <3>2. CASE \E h \in DOMAIN relaying : Sends(h, e, c)
      BY <3>2, <2>1, <2>2 DEF Effect
    <3>3. CASE <<e, c>> \in lost
      BY <3>3, <2>1 DEF Effect, RelayGrows, Owed
    <3>4. QED
      BY <1>2, <1>3, <2>4, <3>1, <3>2, <3>3 DEF Owed
  <2>5. QED
    BY <2>3, <2>4
<1>4. QED
  BY <1>1, <1>3, RelayBaseHolds, PTL DEF Spec

(* After the first relay of a stored event is over, no redelivery of it     *)
(* builds another envelope.                                                 *)
THEOREM QuietEventStaysQuietHolds == Spec => QuietEventStaysQuiet
<1>1. ASSUME RelayBase, [Next]_vars
      PROVE  [\A e \in Events : Quiet(e) => Quiet(e)' /\ Built(e)' = Built(e)]_vars
  <2> SUFFICES ASSUME NEW e \in Events, Quiet(e)
               PROVE  Quiet(e)' /\ Built(e)' = Built(e)
    OBVIOUS
  <2>1. CASE UNCHANGED vars
    BY <2>1 DEF vars, relayVars, Quiet, Built
  <2>2. CASE DlqStep /\ UNCHANGED relayVars
    BY <2>2 DEF relayVars, Quiet, Built
  <2>3. ASSUME NEW h \in Handlers, NEW f \in Events, Webhook(h, f)
        PROVE  Quiet(e)' /\ Built(e)' = Built(e)
    <3>1. f # e
      BY <2>3 DEF Webhook, Quiet
    <3>2. /\ DOMAIN relaying' = DOMAIN relaying \cup {h}
          /\ relaying'[h].event = f
          /\ \A g \in DOMAIN relaying : g # h => relaying'[g] = relaying[g]
      BY <2>3 DEF Webhook
    <3>3. UNCHANGED <<billed, eventOf>>
      BY <2>3 DEF Webhook
    <3>4. QED
      BY <3>1, <3>2, <3>3 DEF Quiet, Built
  <2>4. ASSUME NEW h \in Handlers,
               \/ RelayStep(h) \/ PersistThrows(h) \/ RelayDies(h)
               \/ \E c \in Consumers : RecordThrows(h, c)
        PROVE  Quiet(e)' /\ Built(e)' = Built(e)
    <3>1. h \in DOMAIN relaying /\ relaying[h].event # e
      BY <2>4 DEF RelayStep, BuildEnvelope, SkipEvent, PersistBillingEvent,
         PostToConsumer, RecordFor, PersistThrows, RecordThrows, RelayDies,
         RelayAt, Quiet
    <3>2. \A g \in DOMAIN relaying' :
            g \in DOMAIN relaying /\ relaying'[g].event = relaying[g].event
      <4>1. relaying[h] \in Relay
        BY <1>1, <3>1 DEF RelayBase, RelayTypeOK
      <4>2. CASE DOMAIN relaying' = DOMAIN relaying \ {h}
                 /\ \A g \in DOMAIN relaying' : relaying'[g] = relaying[g]
        BY <4>2
      <4>3. ASSUME NEW r, relaying' = [relaying EXCEPT ![h] = r],
                   r.event = relaying[h].event
            PROVE  \A g \in DOMAIN relaying' :
                     g \in DOMAIN relaying /\ relaying'[g].event = relaying[g].event
        BY <3>1, <4>3
      <4>4. CASE Drop(h)
        BY <4>2, <4>4 DEF Drop
      <4>5. ASSUME NEW todo, NEW failed, Leave(h, todo, failed)
            PROVE  \A g \in DOMAIN relaying' :
                     g \in DOMAIN relaying /\ relaying'[g].event = relaying[g].event
        BY <3>1, <4>1, <4>3, <4>4, <4>5 DEF Leave, Relay, Drop
      <4>6. ASSUME NEW v \in Envelopes, BuildEnvelope(h, v)
            PROVE  \A g \in DOMAIN relaying' :
                     g \in DOMAIN relaying /\ relaying'[g].event = relaying[g].event
        BY <3>1, <4>1, <4>6 DEF BuildEnvelope, Relay
      <4>7. CASE StartDispatch(h)
        BY <3>1, <4>1, <4>7 DEF StartDispatch, Relay
      <4>8. QED
        BY <2>4, <4>4, <4>5, <4>6, <4>7
           DEF RelayStep, SkipEvent, PersistBillingEvent, PostToConsumer, RecordFor,
               PersistThrows, RecordThrows, RelayDies
    <3>3. billed \subseteq billed'
      BY <2>4 DEF RelayStep, BuildEnvelope, SkipEvent, PersistBillingEvent,
         PostToConsumer, RecordFor, PersistThrows, RecordThrows, RelayDies, RelayFault
    <3>4. Built(e)' = Built(e)
      <4>1. CASE eventOf' = eventOf
        BY <4>1 DEF Built
      <4>2. ASSUME NEW v \in Envelopes, BuildEnvelope(h, v)
            PROVE  Built(e)' = Built(e)
        <5>1. /\ DOMAIN eventOf' = DOMAIN eventOf \cup {v}
              /\ v \notin DOMAIN eventOf
              /\ eventOf'[v] # e
              /\ \A w \in DOMAIN eventOf : eventOf'[w] = eventOf[w]
          BY <3>1, <4>2 DEF BuildEnvelope
        <5>2. QED
          BY <5>1 DEF Built
      <4>3. QED
        BY <2>4, <4>1, <4>2
           DEF RelayStep, SkipEvent, PersistBillingEvent, PostToConsumer, RecordFor,
               PersistThrows, RecordThrows, RelayDies, RelayFault
    <3>5. QED
      BY <3>2, <3>3, <3>4 DEF Quiet
  <2>5. QED
    BY <1>1, <2>1, <2>2, <2>3, <2>4 DEF Next
<1>2. QED
  BY <1>1, RelayBaseHolds, PTL DEF Spec, QuietEventStaysQuiet

-----------------------------------------------------------------------------
(* The relay uses the queue as the queue's specification allows             *)

(* A delivery of handler h that the queue may be given: it is not recorded  *)
(* yet, and was POSTed once if its POST has failed.                         *)
HandsOver(h) ==
  LET v == relaying[h].envelope
  IN  /\ relaying[h].pc # "dispatch" => relaying[h].failed = {}
      /\ relaying[h].pc = "persist" => \A c \in Consumers : <<v, c>> \notin Recorded
      /\ relaying[h].pc = "dispatch" =>
           /\ relaying[h].todo \cap relaying[h].failed = {}
           /\ \A c \in relaying[h].todo \cup relaying[h].failed :
                <<v, c>> \notin Recorded
           /\ \A c \in relaying[h].failed : tries[<<v, c>>] = 1

(* No two requests deliver one envelope. *)
EnvelopesApart ==
  \A g, h \in DOMAIN relaying :
    g # h /\ relaying[g].pc # "build" /\ relaying[h].pc # "build" =>
      relaying[g].envelope # relaying[h].envelope

RecordedWasBuilt ==
  \A v \in Envelopes, c \in Consumers :
    <<v, c>> \in Recorded => v \in DOMAIN eventOf

HandInv ==
  /\ EnvelopesApart
  /\ RecordedWasBuilt
  /\ \A h \in DOMAIN relaying : HandsOver(h)

(* Steps that leave the rows of unrecorded deliveries and every request in  *)
(* flight as they are, or end some requests.                                *)
LEMMA HandsStay ==
  ASSUME RelayAssumption, RelayBase, HandInv,
         DOMAIN relaying' \subseteq DOMAIN relaying,
         \A g \in DOMAIN relaying' : relaying'[g] = relaying[g],
         eventOf' = eventOf, Recorded' = Recorded,
         \A r \in Rows \ Recorded : tries'[r] = tries[r]
  PROVE  HandInv'
<1>1. EnvelopesApart' /\ RecordedWasBuilt'
  BY DEF HandInv, EnvelopesApart, RecordedWasBuilt
<1>2. ASSUME NEW h \in DOMAIN relaying'
      PROVE  HandsOver(h)'
  <2>1. HandsOver(h) /\ relaying[h] \in Relay
    BY DEF HandInv, RelayBase, RelayTypeOK
  <2>2. ASSUME relaying[h].pc = "dispatch", NEW c \in relaying[h].failed
        PROVE  tries'[<<relaying[h].envelope, c>>] = 1
    <3> DEFINE r == <<relaying[h].envelope, c>>
    <3>1. relaying[h].envelope \in Envelopes /\ c \in Consumers
      BY <2>1, <2>2 DEF RelayBase, RelayTypeOK, HoldsEnvelope, Relay
    <3>2. r \in Rows
      BY <3>1 DEF RelayAssumption
    <3>3. r \notin Recorded /\ tries[r] = 1
      BY <2>1, <2>2 DEF HandsOver
    <3>4. QED
      BY <3>2, <3>3
  <2>3. QED
    BY <2>1, <2>2 DEF HandsOver
<1>3. QED
  BY <1>1, <1>2 DEF HandInv

(* Steps of a request that delivers its envelope: the others deliver other  *)
(* envelopes.                                                               *)
LEMMA HandMoves ==
  ASSUME RelayAssumption, RelayBase, HandInv, NEW h \in DOMAIN relaying,
         relaying[h].pc # "build",
         DOMAIN relaying' \subseteq DOMAIN relaying,
         \A g \in DOMAIN relaying' : g # h => relaying'[g] = relaying[g],
         h \in DOMAIN relaying' => /\ relaying'[h].envelope = relaying[h].envelope
                                   /\ HandsOver(h)',
         eventOf' = eventOf,
         \A v \in Envelopes, c \in Consumers : v # relaying[h].envelope =>
           /\ <<v, c>> \in Recorded' <=> <<v, c>> \in Recorded
           /\ tries'[<<v, c>>] = tries[<<v, c>>]
  PROVE  HandInv'
<1>1. EnvelopesApart'
  BY DEF HandInv, EnvelopesApart
<1>2. relaying[h].envelope \in DOMAIN eventOf
  BY DEF RelayBase, HoldsEnvelope
<1>3. RecordedWasBuilt'
  BY <1>2 DEF HandInv, RecordedWasBuilt
<1>4. ASSUME NEW g \in DOMAIN relaying', g # h
      PROVE  HandsOver(g)'
  <2>1. /\ relaying'[g] = relaying[g] /\ g \in DOMAIN relaying
        /\ HandsOver(g) /\ relaying[g] \in Relay
    BY <1>4 DEF HandInv, RelayBase, RelayTypeOK
  <2>2. CASE relaying[g].pc = "build"
    BY <2>1, <2>2 DEF HandsOver
  <2>3. CASE relaying[g].pc # "build"
    <3> DEFINE v == relaying[g].envelope
    <3>1. v # relaying[h].envelope
      BY <1>4, <2>1, <2>3 DEF HandInv, EnvelopesApart
    <3>2. v \in Envelopes
      BY <2>1, <2>3 DEF RelayBase, RelayTypeOK, HoldsEnvelope
    <3>3. \A c \in Consumers : /\ <<v, c>> \in Recorded' <=> <<v, c>> \in Recorded
                               /\ tries'[<<v, c>>] = tries[<<v, c>>]
      BY <3>1, <3>2
    <3>4. relaying[g].todo \subseteq Consumers /\ relaying[g].failed \subseteq Consumers
      BY <2>1 DEF Relay
    <3>5. QED
      BY <2>1, <3>3, <3>4 DEF HandsOver
  <2>4. QED
    BY <2>2, <2>3
<1>5. QED
  BY <1>1, <1>3, <1>4 DEF HandInv

-----------------------------------------------------------------------------
(* What a step of the relay is to the queue *)

QueueStep == [Queue!DlqNext]_(Queue!dlqVars)

(* A step that changes nothing the queue knows of. *)
LEMMA QueueUnmoved ==
  ASSUME UNCHANGED <<dlq, replays, forces, dlqFaults, byHand>>,
         \A r \in Recorded : tries'[r] = tries[r],
         accepted' \cap Recorded = accepted \cap Recorded
  PROVE  QueueStep
<1>1. Recorded' = Recorded
  BY DEF Recorded
<1>2. UNCHANGED Queue!dlqVars
  BY <1>1 DEF Queue!dlqVars
<1>3. QED
  BY <1>2 DEF QueueStep

LEMMA WebhookHands ==
  ASSUME RelayAssumption, RelayBase, HandInv,
         NEW h \in Handlers, NEW e \in Events, Webhook(h, e)
  PROVE  HandInv' /\ QueueStep
<1>1. UNCHANGED <<eventOf, dlqVars>> /\ Recorded' = Recorded
  BY DEF Webhook, dlqVars, Recorded
<1>2. /\ DOMAIN relaying' = DOMAIN relaying \cup {h}
      /\ h \notin DOMAIN relaying
      /\ relaying'[h].pc = "build" /\ relaying'[h].failed = {}
      /\ \A g \in DOMAIN relaying : relaying'[g] = relaying[g]
  BY DEF Webhook
<1>3. EnvelopesApart' /\ RecordedWasBuilt'
  BY <1>1, <1>2 DEF HandInv, EnvelopesApart, RecordedWasBuilt
<1>4. \A g \in DOMAIN relaying' : HandsOver(g)'
  BY <1>1, <1>2 DEF HandInv, HandsOver, dlqVars
<1>5. QED
  BY <1>1, <1>3, <1>4, QueueUnmoved DEF HandInv, dlqVars

LEMMA BuildEnvelopeHands ==
  ASSUME RelayAssumption, RelayBase, HandInv,
         NEW h \in Handlers, NEW v \in Envelopes, BuildEnvelope(h, v)
  PROVE  HandInv' /\ QueueStep
<1> DEFINE new == [relaying[h] EXCEPT !.pc = "persist", !.envelope = v]
<1>1. UNCHANGED dlqVars /\ Recorded' = Recorded
  BY DEF BuildEnvelope, dlqVars, Recorded
<1>2. /\ h \in DOMAIN relaying /\ relaying[h] \in Relay
      /\ relaying[h].pc = "build" /\ v \notin DOMAIN eventOf
      /\ DOMAIN eventOf' = DOMAIN eventOf \cup {v}
  BY DEF BuildEnvelope, RelayAt, RelayBase, RelayTypeOK
<1>3. /\ new \in Relay /\ new.pc = "persist" /\ new.envelope = v
      /\ new.failed = relaying[h].failed
  BY <1>2 DEF Relay, RelayPc
<1>4. relaying' = [relaying EXCEPT ![h] = new]
  BY DEF BuildEnvelope
<1>5. /\ DOMAIN relaying' = DOMAIN relaying /\ relaying'[h] = new
      /\ \A g \in DOMAIN relaying : g # h => relaying'[g] = relaying[g]
  BY <1>2, <1>3, <1>4, SetFacts
<1>6. \A g \in DOMAIN relaying : relaying[g].pc # "build" => relaying[g].envelope # v
  BY <1>2 DEF RelayBase, HoldsEnvelope
<1>7. EnvelopesApart' /\ RecordedWasBuilt'
  <2>1. RecordedWasBuilt'
    BY <1>1, <1>2 DEF HandInv, RecordedWasBuilt
  <2>2. ASSUME NEW f \in DOMAIN relaying, NEW g \in DOMAIN relaying, f # g,
               relaying'[f].pc # "build", relaying'[g].pc # "build"
        PROVE  relaying'[f].envelope # relaying'[g].envelope
    <3>1. CASE f = h
      BY <1>3, <1>5, <1>6, <2>2, <3>1
    <3>2. CASE g = h
      BY <1>3, <1>5, <1>6, <2>2, <3>2
    <3>3. CASE f # h /\ g # h
      BY <1>5, <2>2, <3>3 DEF HandInv, EnvelopesApart
    <3>4. QED
      BY <3>1, <3>2, <3>3
  <2>3. QED
    BY <1>5, <2>1, <2>2 DEF EnvelopesApart
<1>8. HandsOver(h)'
  BY <1>1, <1>2, <1>3, <1>5 DEF HandInv, HandsOver, RecordedWasBuilt
<1>9. \A g \in DOMAIN relaying : g # h => HandsOver(g)'
  BY <1>1, <1>5 DEF HandInv, HandsOver, dlqVars
<1>10. QED
  BY <1>1, <1>5, <1>7, <1>8, <1>9, QueueUnmoved DEF HandInv, dlqVars

(* SkipEvent and RelayDies end the request. *)
LEMMA DropHands ==
  ASSUME RelayAssumption, RelayBase, HandInv, NEW h \in DOMAIN relaying,
         Drop(h), UNCHANGED <<eventOf, dlqVars>>
  PROVE  HandInv' /\ QueueStep
<1>1. /\ DOMAIN relaying' \subseteq DOMAIN relaying
      /\ \A g \in DOMAIN relaying' : relaying'[g] = relaying[g]
  BY DropFacts
<1>2. Recorded' = Recorded /\ tries' = tries
  BY DEF dlqVars, Recorded
<1>3. QED
  BY <1>1, <1>2, HandsStay, QueueUnmoved DEF dlqVars

(* PersistBillingEvent and PersistThrows. *)
LEMMA StartDispatchHands ==
  ASSUME RelayAssumption, RelayBase, HandInv, NEW h,
         RelayAt(h, "persist"), StartDispatch(h), UNCHANGED <<eventOf, dlqVars>>
  PROVE  HandInv' /\ QueueStep
<1> DEFINE new == [relaying[h] EXCEPT !.pc = "dispatch", !.todo = Consumers]
<1>1. UNCHANGED dlqVars /\ Recorded' = Recorded
  BY DEF dlqVars, Recorded
<1>2. h \in DOMAIN relaying /\ relaying[h] \in Relay /\ relaying[h].pc = "persist"
  BY DEF RelayAt, RelayBase, RelayTypeOK
<1>3. /\ new \in Relay /\ new.pc = "dispatch" /\ new.failed = relaying[h].failed
      /\ new.envelope = relaying[h].envelope /\ new.todo = Consumers
  BY <1>2 DEF Relay, RelayPc
<1>4. /\ DOMAIN relaying' = DOMAIN relaying /\ relaying'[h] = new
      /\ \A g \in DOMAIN relaying : g # h => relaying'[g] = relaying[g]
  BY <1>2, <1>3, SetFacts DEF StartDispatch
<1>5. HandsOver(h)
  BY <1>2 DEF HandInv
<1>6. HandsOver(h)'
  BY <1>1, <1>2, <1>3, <1>4, <1>5 DEF HandsOver
<1>7. tries' = tries
  BY DEF dlqVars
<1>8. HandInv'
  BY <1>1, <1>2, <1>3, <1>4, <1>6, <1>7, HandMoves
<1>9. QED
  BY <1>1, <1>8, QueueUnmoved DEF dlqVars

(* The requests of a dispatch *)
OnlyLeaves(h, todo, failed) ==
  /\ DOMAIN relaying' \subseteq DOMAIN relaying
  /\ \A g \in DOMAIN relaying : g # h =>
       g \in DOMAIN relaying' /\ relaying'[g] = relaying[g]
  /\ h \in DOMAIN relaying' =>
       /\ relaying'[h].pc = relaying[h].pc
       /\ relaying'[h].event = relaying[h].event
       /\ relaying'[h].envelope = relaying[h].envelope
       /\ relaying'[h].todo = todo
       /\ relaying'[h].failed = failed

LEMMA LeavesOnly ==
  ASSUME RelayBase, NEW h \in DOMAIN relaying,
         NEW todo \in SUBSET Consumers, NEW failed \in SUBSET Consumers,
         Leave(h, todo, failed)
  PROVE  OnlyLeaves(h, todo, failed)
BY LeaveFacts DEF OnlyLeaves

LEMMA LeaveHands ==
  ASSUME RelayAssumption, RelayBase, HandInv, NEW h \in DOMAIN relaying,
         relaying[h].pc = "dispatch",
         NEW todo \in SUBSET Consumers, NEW failed \in SUBSET Consumers,
         Leave(h, todo, failed), eventOf' = eventOf, todo \cap failed = {},
         \A c \in todo \cup failed : <<relaying[h].envelope, c>> \notin Recorded',
         \A c \in failed : tries'[<<relaying[h].envelope, c>>] = 1,
         \A v \in Envelopes, c \in Consumers : v # relaying[h].envelope =>
           /\ <<v, c>> \in Recorded' <=> <<v, c>> \in Recorded
           /\ tries'[<<v, c>>] = tries[<<v, c>>]
  PROVE  HandInv'
<1>0. OnlyLeaves(h, todo, failed)
  BY LeavesOnly
<1>1. /\ DOMAIN relaying' \subseteq DOMAIN relaying
      /\ \A g \in DOMAIN relaying : g # h =>
           g \in DOMAIN relaying' /\ relaying'[g] = relaying[g]
      /\ h \in DOMAIN relaying' =>
           /\ relaying'[h].pc = relaying[h].pc
           /\ relaying'[h].event = relaying[h].event
           /\ relaying'[h].envelope = relaying[h].envelope
           /\ relaying'[h].todo = todo
           /\ relaying'[h].failed = failed
  BY <1>0 DEF OnlyLeaves
<1>2. h \in DOMAIN relaying' => HandsOver(h)'
  BY <1>1 DEF HandsOver
<1>3. QED
  BY <1>1, <1>2, HandMoves

(* What a handler in dispatch knows of the delivery it takes up. *)
LEMMA HandedRow ==
  ASSUME RelayAssumption, RelayBase, HandInv, NEW h, RelayAt(h, "dispatch"),
         NEW c \in relaying[h].todo \cup relaying[h].failed
  PROVE  /\ h \in DOMAIN relaying /\ relaying[h].pc = "dispatch"
         /\ relaying[h].todo \in SUBSET Consumers
         /\ relaying[h].failed \in SUBSET Consumers
         /\ relaying[h].envelope \in Envelopes
         /\ <<relaying[h].envelope, c>> \in Rows \ Recorded
         /\ HandsOver(h)
<1>1. h \in DOMAIN relaying /\ relaying[h] \in Relay /\ relaying[h].pc = "dispatch"
  BY DEF RelayAt, RelayBase, RelayTypeOK
<1>2. relaying[h].envelope \in Envelopes
  BY <1>1 DEF RelayBase, RelayTypeOK, HoldsEnvelope
<1>3. /\ relaying[h].todo \in SUBSET Consumers
      /\ relaying[h].failed \in SUBSET Consumers
  BY <1>1 DEF Relay
<1>4. HandsOver(h)
  BY <1>1 DEF HandInv
<1>5. <<relaying[h].envelope, c>> \in Rows
  BY <1>2, <1>3 DEF RelayAssumption
<1>6. QED
  BY <1>1, <1>2, <1>3, <1>4, <1>5 DEF HandsOver

LEMMA PostToConsumerHands ==
  ASSUME RelayAssumption, RelayBase, HandInv,
         NEW h \in Handlers, NEW c \in Consumers,
         NEW arrived \in BOOLEAN, NEW answered \in BOOLEAN,
         PostToConsumer(h, c, arrived, answered)
  PROVE  HandInv' /\ QueueStep
<1> DEFINE v == relaying[h].envelope
           todo == relaying[h].todo \ {c}
           failed == IF arrived /\ answered THEN relaying[h].failed
                                            ELSE relaying[h].failed \cup {c}
<1>1. RelayAt(h, "dispatch") /\ c \in relaying[h].todo \cup relaying[h].failed
  BY DEF PostToConsumer
<1>2. /\ h \in DOMAIN relaying /\ relaying[h].pc = "dispatch"
      /\ relaying[h].todo \in SUBSET Consumers
      /\ relaying[h].failed \in SUBSET Consumers
      /\ v \in Envelopes
      /\ <<v, c>> \in Rows \ Recorded
      /\ HandsOver(h)
  BY <1>1, HandedRow
<1>3. /\ eventOf' = eventOf /\ dlq' = dlq /\ Recorded' = Recorded
      /\ tries' = [tries EXCEPT ![<<v, c>>] = 1]
      /\ accepted' \subseteq accepted \cup {<<v, c>>} /\ accepted \subseteq accepted'
      /\ UNCHANGED <<replays, forces, dlqFaults, byHand>>
      /\ Leave(h, todo, failed)
      /\ c \in relaying[h].todo
  BY DEF PostToConsumer, Recorded
<1>4. tries \in [Rows -> Nat]
  BY DEF RelayBase, Base, DlqTypeOK
<1>5. /\ tries'[<<v, c>>] = 1
      /\ \A r \in Rows : r # <<v, c>> => tries'[r] = tries[r]
  BY <1>2, <1>3, <1>4
<1>6. Recorded \subseteq Rows
  BY DEF RelayBase, Base, DlqTypeOK
<1>7. QueueStep
  BY <1>2, <1>3, <1>5, <1>6, QueueUnmoved
<1>8. \A w \in Envelopes, d \in Consumers : <<w, d>> \in Rows
  BY DEF RelayAssumption
<1>9. \A w \in Envelopes, d \in Consumers : w # v =>
         /\ <<w, d>> \in Recorded' <=> <<w, d>> \in Recorded
         /\ tries'[<<w, d>>] = tries[<<w, d>>]
  BY <1>3, <1>5, <1>8
<1>10. /\ todo \in SUBSET Consumers /\ failed \in SUBSET Consumers
       /\ todo \cap failed = {}
       /\ todo \cup failed \subseteq relaying[h].todo \cup relaying[h].failed
  BY <1>2, <1>3 DEF HandsOver
<1>11. \A d \in todo \cup failed : <<v, d>> \notin Recorded'
  BY <1>2, <1>3, <1>10 DEF HandsOver
<1>12. \A d \in failed : tries'[<<v, d>>] = 1
  <2> SUFFICES ASSUME NEW d \in failed PROVE tries'[<<v, d>>] = 1
    OBVIOUS
  <2>1. CASE d = c
    BY <2>1, <1>5
  <2>2. CASE d # c
    <3>1. d \in relaying[h].failed /\ d \in Consumers
      BY <2>2, <1>10
    <3>2. <<v, d>> \in Rows /\ <<v, d>> # <<v, c>>
      BY <1>2, <1>8, <2>2, <3>1
    <3>3. tries[<<v, d>>] = 1
      BY <1>2, <3>1 DEF HandsOver
    <3>4. QED
      BY <1>5, <3>2, <3>3
  <2>3. QED
    BY <2>1, <2>2
<1> HIDE DEF todo, failed
<1>13. HandInv'
  BY <1>2, <1>3, <1>9, <1>10, <1>11, <1>12, LeaveHands
<1>14. QED
  BY <1>7, <1>13

LEMMA RecordThrowsHands ==
  ASSUME RelayAssumption, RelayBase, HandInv,
         NEW h \in Handlers, NEW c \in Consumers, RecordThrows(h, c)
  PROVE  HandInv' /\ QueueStep
<1> DEFINE todo == relaying[h].todo
           failed == relaying[h].failed \ {c}
<1>1. RelayAt(h, "dispatch") /\ c \in relaying[h].todo \cup relaying[h].failed
  BY DEF RecordThrows
<1>2. /\ h \in DOMAIN relaying /\ relaying[h].pc = "dispatch"
      /\ todo \in SUBSET Consumers
      /\ relaying[h].failed \in SUBSET Consumers
      /\ HandsOver(h)
  BY <1>1, HandedRow
<1>3. /\ eventOf' = eventOf /\ UNCHANGED dlqVars
      /\ Recorded' = Recorded /\ tries' = tries
      /\ Leave(h, todo, failed)
  BY DEF RecordThrows, RelayFault, dlqVars, Recorded
<1>4. /\ failed \in SUBSET Consumers /\ todo \cap failed = {}
      /\ \A d \in todo \cup failed : <<relaying[h].envelope, d>> \notin Recorded'
      /\ \A d \in failed : tries'[<<relaying[h].envelope, d>>] = 1
  BY <1>2, <1>3 DEF HandsOver
<1> HIDE DEF todo, failed
<1>5. HandInv'
  BY <1>2, <1>3, <1>4, LeaveHands
<1>6. QED
  BY <1>3, <1>5, QueueUnmoved DEF dlqVars

(* The failure of a POST reaches the queue. *)
LEMMA RecordForHands ==
  ASSUME RelayAssumption, RelayBase, HandInv,
         NEW h \in Handlers, NEW c \in Consumers, RecordFor(h, c)
  PROVE  HandInv' /\ QueueStep
<1> DEFINE v == relaying[h].envelope
           r == <<v, c>>
           todo == relaying[h].todo
           failed == relaying[h].failed \ {c}
<1>1. /\ RelayAt(h, "dispatch") /\ c \in relaying[h].todo \cup relaying[h].failed
      /\ c \in relaying[h].failed
  BY DEF RecordFor
<1>2. /\ h \in DOMAIN relaying /\ relaying[h].pc = "dispatch"
      /\ todo \in SUBSET Consumers
      /\ relaying[h].failed \in SUBSET Consumers
      /\ v \in Envelopes
      /\ r \in Rows \ Recorded
      /\ HandsOver(h)
  BY <1>1, HandedRow
<1>3. /\ eventOf' = eventOf
      /\ UNCHANGED <<replays, accepted, forces, dlqFaults, tries, byHand>>
      /\ RecordFailure(r)
      /\ Leave(h, todo, failed)
  BY DEF RecordFor
<1>4. Recorded' = Recorded \cup {r}
  BY <1>3 DEF RecordFailure, Recorded
<1>5. tries[r] = 1
  BY <1>1, <1>2 DEF HandsOver
<1>6. QueueStep
  <2>1. Queue!RecordFailure(r)
    BY <1>3 DEF RecordFailure, Queue!RecordFailure, Recorded, Queue!Recorded
  <2>2. [s \in Rows |-> IF s \in Recorded' THEN tries'[s] ELSE 0]
          = [[s \in Rows |-> IF s \in Recorded THEN tries[s] ELSE 0] EXCEPT ![r] = 1]
    BY <1>2, <1>3, <1>4, <1>5
  <2>3. CASE r \in accepted
    <3>1. accepted' \cap Recorded' = (accepted \cap Recorded) \cup {r}
      BY <1>3, <1>4, <2>3
    <3>2. Queue!Dispatched(r, TRUE)
      BY <1>3, <2>1, <2>2, <3>1 DEF Queue!Dispatched
    <3>3. QED
      BY <1>2, <3>2 DEF QueueStep, Queue!DlqNext
  <2>4. CASE r \notin accepted
    <3>1. accepted' \cap Recorded' = accepted \cap Recorded
      BY <1>3, <1>4, <2>4
    <3>2. Queue!Dispatched(r, FALSE)
      BY <1>3, <2>1, <2>2, <3>1 DEF Queue!Dispatched
    <3>3. QED
      BY <1>2, <3>2 DEF QueueStep, Queue!DlqNext
  <2>5. QED
    BY <2>3, <2>4
<1>7. \A w \in Envelopes, d \in Consumers : w # v =>
         /\ <<w, d>> \in Recorded' <=> <<w, d>> \in Recorded
         /\ tries'[<<w, d>>] = tries[<<w, d>>]
  BY <1>3, <1>4
<1>8. /\ failed \in SUBSET Consumers /\ todo \cap failed = {}
      /\ \A d \in todo \cup failed : <<v, d>> \notin Recorded'
      /\ \A d \in failed : tries'[<<v, d>>] = 1
  <2>1. c \notin todo \cup failed
    BY <1>1, <1>2 DEF HandsOver
  <2>2. \A d \in todo \cup failed : <<v, d>> # r
    BY <2>1
  <2>3. QED
    BY <1>2, <1>3, <1>4, <2>2 DEF HandsOver
<1> HIDE DEF v, todo, failed
<1>9. HandInv'
  BY <1>2, <1>3, <1>7, <1>8, LeaveHands DEF v
<1>10. QED
  BY <1>6, <1>9

-----------------------------------------------------------------------------
(* Steps of the queue map to themselves: tries and accepted of a recorded   *)
(* delivery are what they are, and no other row is touched.                 *)

LEMMA SameHelpers ==
  /\ Queue!Recorded = Recorded
  /\ Queue!FindDueForRetry = FindDueForRetry
  /\ \A j, batch, force : Queue!Start(j, batch, force) <=> Start(j, batch, force)
  /\ \A j, r : Queue!NextRow(j, r) <=> NextRow(j, r)
  /\ \A j, pc : Queue!ReplayAt(j, pc) <=> ReplayAt(j, pc)
  /\ \A n : Queue!Exhausted(n) <=> Exhausted(n)
<1>1. Queue!Recorded = Recorded
  BY DEF Queue!Recorded, Recorded
<1>2. Queue!Due = Due
  BY <1>1 DEF Queue!Due, Due
<1>3. Queue!FindDueForRetry = FindDueForRetry
  <2>1. ASSUME NEW S PROVE Queue!Cardinality(S) = Cardinality(S)
    BY DEF Queue!Cardinality, Cardinality
  <2>2. QED
    BY <1>2, <2>1 DEF Queue!FindDueForRetry, FindDueForRetry
<1>4. \A j, batch, force : Queue!Start(j, batch, force) <=> Start(j, batch, force)
  BY DEF Queue!Start, Start, Queue!Idle, Idle
<1>5. \A j, r : Queue!NextRow(j, r) <=> NextRow(j, r)
  BY DEF Queue!NextRow, NextRow
<1>6. \A j, pc : Queue!ReplayAt(j, pc) <=> ReplayAt(j, pc)
  BY DEF Queue!ReplayAt, ReplayAt
<1>7. \A n : Queue!Exhausted(n) <=> Exhausted(n)
  BY DEF Queue!Exhausted, Exhausted
<1>8. QED
  BY <1>1, <1>3, <1>4, <1>5, <1>6, <1>7

(* What a step of the queue on recorded rows is to HandInv and to Queue. *)
InQueue == /\ Recorded' = Recorded
           /\ \A r \in Rows \ Recorded : tries'[r] = tries[r]
           /\ Queue!DlqStep

LEMMA TickInQueue ==
  ASSUME NEW j \in Jobs, Tick(j)
  PROVE  InQueue
<1>1. Recorded' = Recorded /\ UNCHANGED <<dlq, accepted, tries>>
  BY DEF Tick, Recorded
<1>2. Queue!Tick(j)
  BY <1>1, SameHelpers DEF Tick, Queue!Tick
<1>3. QED
  BY <1>1, <1>2 DEF InQueue, Queue!DlqStep

LEMMA ReplayByHandInQueue ==
  ASSUME NEW j \in Jobs, NEW r \in Rows, ReplayByHand(j, r)
  PROVE  InQueue
<1>1. Recorded' = Recorded /\ UNCHANGED <<dlq, accepted, tries>>
  BY DEF ReplayByHand, Recorded
<1>2. Queue!ReplayByHand(j, r)
  BY <1>1, SameHelpers DEF ReplayByHand, Queue!ReplayByHand
<1>3. QED
  BY <1>1, <1>2 DEF InQueue, Queue!DlqStep

LEMMA ReplayThrowsInQueue ==
  ASSUME NEW j \in Jobs, NEW r \in Rows, ReplayThrows(j, r)
  PROVE  InQueue
<1>1. Recorded' = Recorded /\ UNCHANGED <<dlq, accepted, tries>>
  BY DEF ReplayThrows, Recorded
<1>2. Queue!ReplayThrows(j, r)
  BY <1>1, SameHelpers DEF ReplayThrows, Queue!ReplayThrows
<1>3. QED
  BY <1>1, <1>2 DEF InQueue, Queue!DlqStep

LEMMA ReplayDiesInQueue ==
  ASSUME NEW j \in Jobs, ReplayDies(j)
  PROVE  InQueue
<1>1. Recorded' = Recorded /\ UNCHANGED <<dlq, accepted, tries>>
  BY DEF ReplayDies, Recorded
<1>2. Queue!ReplayDies(j)
  BY <1>1 DEF ReplayDies, Queue!ReplayDies
<1>3. QED
  BY <1>1, <1>2 DEF InQueue, Queue!DlqStep

LEMMA BecomeDueInQueue ==
  ASSUME NEW r \in Rows, BecomeDue(r)
  PROVE  InQueue
<1>1. Recorded' = Recorded /\ UNCHANGED <<accepted, tries>>
  BY DEF BecomeDue, Recorded
<1>2. Queue!BecomeDue(r)
  BY <1>1, SameHelpers DEF BecomeDue, Queue!BecomeDue
<1>3. QED
  BY <1>1, <1>2 DEF InQueue, Queue!DlqStep

LEMMA MarkResolvedInQueue ==
  ASSUME NEW r \in Rows, MarkResolved(r)
  PROVE  InQueue
<1>1. Recorded' = Recorded /\ UNCHANGED <<accepted, tries>>
  BY DEF MarkResolved, Recorded
<1>2. Queue!MarkResolved(r)
  BY <1>1, SameHelpers DEF MarkResolved, Queue!MarkResolved
<1>3. QED
  BY <1>1, <1>2 DEF InQueue, Queue!DlqStep

LEMMA ReadRowInQueue ==
  ASSUME NEW j \in Jobs, NEW r \in Rows, ReadRow(j, r)
  PROVE  InQueue
<1>1. Recorded' = Recorded /\ UNCHANGED <<dlq, accepted, tries>>
  BY DEF ReadRow, Recorded
<1>2. Queue!ReadRow(j, r)
  BY <1>1, SameHelpers DEF ReadRow, Queue!ReadRow
<1>3. QED
  BY <1>1, <1>2 DEF InQueue, Queue!DlqStep, Queue!ReplayStep

LEMMA SucceedInQueue ==
  ASSUME NEW j \in Jobs, Succeed(j)
  PROVE  InQueue
<1>1. Recorded' = Recorded /\ UNCHANGED <<accepted, tries>>
  BY DEF Succeed, Recorded
<1>2. Queue!Succeed(j)
  BY <1>1, SameHelpers DEF Succeed, Queue!Succeed
<1>3. QED
  BY <1>1, <1>2 DEF InQueue, Queue!DlqStep, Queue!ReplayStep

LEMMA FailInQueue ==
  ASSUME NEW j \in Jobs, Fail(j)
  PROVE  InQueue
<1>1. Recorded' = Recorded /\ UNCHANGED <<accepted, tries>>
  BY DEF Fail, Recorded
<1>2. Queue!Fail(j)
  BY <1>1, SameHelpers DEF Fail, Queue!Fail
<1>3. QED
  BY <1>1, <1>2 DEF InQueue, Queue!DlqStep, Queue!ReplayStep

(* The queue POSTs only what is recorded. *)
LEMMA PostInQueue ==
  ASSUME Base, NEW j \in Jobs, NEW arrived \in BOOLEAN, NEW answered \in BOOLEAN,
         Post(j, arrived, answered)
  PROVE  InQueue
<1> DEFINE r == replays[j].row
<1>1. r \in Recorded /\ r \in Rows /\ tries \in [Rows -> Nat]
  BY PostBase DEF Base, DlqTypeOK
<1>2. /\ Recorded' = Recorded
      /\ UNCHANGED <<dlq, forces, dlqFaults, byHand>>
      /\ tries' = [tries EXCEPT ![r] = @ + 1]
      /\ accepted' = IF arrived THEN accepted \cup {r} ELSE accepted
      /\ ReplayAt(j, "post")
      /\ replays' = [replays EXCEPT ![j].pc =
                       IF arrived /\ answered THEN "succeed" ELSE "fail"]
  BY DEF Post, Recorded
<1>3. \A s \in Rows \ Recorded : tries'[s] = tries[s]
  BY <1>1, <1>2
<1>4. [s \in Rows |-> IF s \in Recorded' THEN tries'[s] ELSE 0]
        = [[s \in Rows |-> IF s \in Recorded THEN tries[s] ELSE 0]
             EXCEPT ![r] = @ + 1]
  BY <1>1, <1>2
<1>5. accepted' \cap Recorded' = IF arrived THEN (accepted \cap Recorded) \cup {r}
                                            ELSE accepted \cap Recorded
  BY <1>1, <1>2
<1>6. Queue!Post(j, arrived, answered)
  BY <1>2, <1>4, <1>5, SameHelpers DEF Queue!Post
<1>7. QED
  BY <1>2, <1>3, <1>6 DEF InQueue, Queue!DlqStep, Queue!ReplayStep

LEMMA DlqStepHands ==
  ASSUME RelayAssumption, RelayBase, HandInv, DlqStep, UNCHANGED relayVars
  PROVE  HandInv' /\ QueueStep
<1>1. InQueue
  BY TickInQueue, ReplayByHandInQueue, ReplayThrowsInQueue, ReplayDiesInQueue,
     BecomeDueInQueue, MarkResolvedInQueue, ReadRowInQueue, SucceedInQueue,
     FailInQueue, PostInQueue DEF DlqStep, ReplayStep, RelayBase
<1>2. HandInv'
  BY <1>1, HandsStay DEF InQueue, relayVars
<1>3. QED
  BY <1>1, <1>2 DEF InQueue, QueueStep, Queue!DlqNext

-----------------------------------------------------------------------------

LEMMA HandStep ==
  ASSUME RelayAssumption, RelayBase, HandInv, [Next]_vars
  PROVE  HandInv' /\ QueueStep
<1>1. ASSUME NEW h \in Handlers, NEW e \in Events, Webhook(h, e)
      PROVE  HandInv' /\ QueueStep
  BY <1>1, WebhookHands
<1>2. ASSUME NEW h \in Handlers, NEW v \in Envelopes, BuildEnvelope(h, v)
      PROVE  HandInv' /\ QueueStep
  BY <1>2, BuildEnvelopeHands
<1>3. ASSUME NEW h \in Handlers, SkipEvent(h) PROVE HandInv' /\ QueueStep
  BY <1>3, DropHands DEF SkipEvent, RelayAt
<1>4. ASSUME NEW h \in Handlers, PersistBillingEvent(h)
      PROVE  HandInv' /\ QueueStep
  BY <1>4, StartDispatchHands DEF PersistBillingEvent
<1>5. ASSUME NEW h \in Handlers, PersistThrows(h) PROVE HandInv' /\ QueueStep
  BY <1>5, StartDispatchHands DEF PersistThrows, RelayFault
<1>6. ASSUME NEW h \in Handlers, NEW c \in Consumers, NEW arrived \in BOOLEAN,
             NEW answered \in BOOLEAN, PostToConsumer(h, c, arrived, answered)
      PROVE  HandInv' /\ QueueStep
  BY <1>6, PostToConsumerHands
<1>7. ASSUME NEW h \in Handlers, NEW c \in Consumers, RecordFor(h, c)
      PROVE  HandInv' /\ QueueStep
  BY <1>7, RecordForHands
<1>8. ASSUME NEW h \in Handlers, NEW c \in Consumers, RecordThrows(h, c)
      PROVE  HandInv' /\ QueueStep
  BY <1>8, RecordThrowsHands
<1>9. ASSUME NEW h \in Handlers, RelayDies(h) PROVE HandInv' /\ QueueStep
  BY <1>9, DropHands DEF RelayDies, RelayFault
<1>10. ASSUME DlqStep, UNCHANGED relayVars PROVE HandInv' /\ QueueStep
  BY <1>10, DlqStepHands
<1>11. CASE UNCHANGED vars
  <2>1. UNCHANGED <<relayVars, dlqVars>> /\ Recorded' = Recorded
    BY <1>11 DEF vars, dlqVars, Recorded
  <2>2. HandInv'
    BY <2>1, HandsStay DEF relayVars, dlqVars
  <2>3. QED
    BY <2>1, <2>2, QueueUnmoved DEF dlqVars
<1>12. QED
  BY <1>1, <1>2, <1>3, <1>4, <1>5, <1>6, <1>7, <1>8, <1>9, <1>10, <1>11
     DEF Next, RelayStep

(* The relay implements the dead-letter queue of WebhookDlq, so what is     *)
(* proved of the queue, of any dispatcher's failures, is true of the queue  *)
(* behind the relay: an envelope is recorded at most once for a consumer,   *)
(* after exactly one POST of it, and no relay POSTs it after that.          *)
THEOREM ImplementsQueue == Spec => QueueSpec
<1>1. Init => HandInv
  BY DEF Init, HandInv, EnvelopesApart, RecordedWasBuilt, DlqInit, Recorded
<1>2. RelayBase /\ HandInv /\ [Next]_vars => HandInv' /\ QueueStep
  BY HandStep, RelayAssumption
<1>3. Init => Queue!DlqInit
  <2> SUFFICES ASSUME Init PROVE Queue!DlqInit
    OBVIOUS
  <2>1. /\ dlq = [r \in {} |-> 0] /\ replays = [j \in {} |-> 0]
        /\ accepted = {} /\ forces = 0 /\ dlqFaults = 0 /\ byHand = {}
    BY DEF Init, DlqInit
  <2>2. [r \in Rows |-> IF r \in Recorded THEN tries[r] ELSE 0] = [r \in Rows |-> 0]
    BY <2>1 DEF Recorded
  <2>3. accepted \cap Recorded = {}
    BY <2>1
  <2>4. QED
    BY <2>1, <2>2, <2>3 DEF Queue!DlqInit
<1>4. QED
  BY <1>1, <1>2, <1>3, RelayBaseHolds, PTL
     DEF Spec, QueueStep, QueueSpec, Queue!DlqSpec
=============================================================================
