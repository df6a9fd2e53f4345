------------------------ MODULE CircuitBreakerProofs ------------------------
(***************************************************************************)
(* Proofs that the invariants of CircuitBreaker hold for every number of   *)
(* replicas, calls, failures and faults, and every pair of thresholds.     *)
(***************************************************************************)
EXTENDS CircuitBreaker, TLAPS

USE BreakerAssumption

(***************************************************************************)
(* The steps that leave the row and what was recorded alone.               *)
(***************************************************************************)
Quiet(c) == Check(c) \/ Refuse(c) \/ CheckBlind(c) \/ Succeeds(c)

LEMMA Cases ==
    ASSUME Next
    PROVE  \/ \E c \in Call :
                 \/ Quiet(c) \/ SetHalfOpen(c) \/ Fails(c) \/ Judge(c) \/ RecordSuccess(c)
                 \/ RecordFailure(c) \/ ResetWindow(c) \/ OpenCircuit(c) \/ StatementFails(c)
           \/ \E r \in Replica : Restart(r)
           \/ Timeout
           \/ WindowEnds
BY DEF Next, Quiet, Records

-----------------------------------------------------------------------------
(* Types. *)

LEMMA InitType == Init => TypeOK
<1> SUFFICES ASSUME Init PROVE TypeOK
  OBVIOUS
<1>1. row \in Row
  BY DEF Init, Row
<1>2. call \in [Call -> [pc : Pc, close : BOOLEAN, fresh : BOOLEAN]]
  BY DEF Init, Idle, Pc
<1>3. probation \in [Replica -> 0 .. SuccessThreshold - 1]
  <2>1. 0 \in 0 .. SuccessThreshold - 1
    OBVIOUS
  <2>2. QED
    BY <2>1 DEF Init
<1>4. /\ memory \in [Replica -> {"none", "closed", "open", "stale"}]
      /\ last \in {"none", "success", "failure"}
      /\ carried \in BOOLEAN /\ strayed \in BOOLEAN /\ early \in BOOLEAN
  BY DEF Init
<1>5. failures \in 0 .. MaxFailures /\ faults \in 0 .. MaxFaults /\ wins \in 0 .. SuccessThreshold
  BY DEF Init
<1>6. QED
  BY <1>1, <1>2, <1>3, <1>4, <1>5 DEF TypeOK

LEMMA GoesToType ==
    ASSUME TypeOK, NEW c \in Call, NEW pc \in Pc, GoesTo(c, pc)
    PROVE  call' \in [Call -> [pc : Pc, close : BOOLEAN, fresh : BOOLEAN]]
BY DEF TypeOK, GoesTo

LEMMA EndsOverType ==
    ASSUME TypeOK, NEW c \in Call, NEW pc, EndsOver(c, pc)
    PROVE  call' \in [Call -> [pc : Pc, close : BOOLEAN, fresh : BOOLEAN]]
<1>1. Idle \in [pc : Pc, close : BOOLEAN, fresh : BOOLEAN]
  BY DEF Idle, Pc
<1>2. ASSUME NEW d \in Call
      PROVE  [call[d] EXCEPT !.fresh = call[d].fresh /\ ~At(d, pc)]
               \in [pc : Pc, close : BOOLEAN, fresh : BOOLEAN]
  <2>1. (call[d].fresh /\ ~At(d, pc)) \in BOOLEAN
    OBVIOUS
  <2>2. QED
    BY <2>1 DEF TypeOK
<1>3. QED
  BY <1>1, <1>2 DEF EndsOver

LEMMA QuietType ==
    ASSUME TypeOK, NEW c \in Call, Quiet(c)
    PROVE  TypeOK'
<1>1. CASE Check(c)
  <2>1. call' \in [Call -> [pc : Pc, close : BOOLEAN, fresh : BOOLEAN]]
    BY <1>1, GoesToType DEF Check, Pc
  <2>2. memory' \in [Replica -> {"none", "closed", "open", "stale"}]
    BY <1>1 DEF Check, TypeOK
  <2>3. QED
    BY <1>1, <2>1, <2>2 DEF Check, TypeOK, history
<1>2. CASE Refuse(c)
  BY <1>2 DEF Refuse, TypeOK, history
<1>3. CASE CheckBlind(c)
  <2>1. call' \in [Call -> [pc : Pc, close : BOOLEAN, fresh : BOOLEAN]]
    BY <1>3, GoesToType DEF CheckBlind, Pc
  <2>2. QED
    BY <1>3, <2>1 DEF CheckBlind, TypeOK, history
<1>4. CASE Succeeds(c)
  <2>1. call' \in [Call -> [pc : Pc, close : BOOLEAN, fresh : BOOLEAN]]
    BY <1>4, GoesToType DEF Succeeds, Pc
  <2>2. QED
    BY <1>4, <2>1 DEF Succeeds, TypeOK, history
<1>5. QED
  BY <1>1, <1>2, <1>3, <1>4 DEF Quiet

LEMMA JudgeType ==
    ASSUME TypeOK, NEW c \in Call, Judge(c)
    PROVE  TypeOK'
<1>1. row.open \in BOOLEAN /\ HalfOpen \in BOOLEAN
  BY DEF TypeOK, Row, HalfOpen
<1>2. ReplicaOf[c] \in Replica /\ probation[ReplicaOf[c]] \in 0 .. SuccessThreshold - 1
  BY DEF TypeOK
<1>3. call' \in [Call -> [pc : Pc, close : BOOLEAN, fresh : BOOLEAN]]
  <2>1. [pc |-> "judged",
         close |-> HalfOpen => probation[ReplicaOf[c]] + 1 >= SuccessThreshold,
         fresh |-> HalfOpen] \in [pc : Pc, close : BOOLEAN, fresh : BOOLEAN]
    BY <1>1 DEF Pc
  <2>2. QED
    BY <2>1 DEF Judge, TypeOK
<1>4. probation' \in [Replica -> 0 .. SuccessThreshold - 1]
  <2>1. \/ probation' = [probation EXCEPT ![ReplicaOf[c]] = 0]
        \/ /\ probation' = [probation EXCEPT ![ReplicaOf[c]] = probation[ReplicaOf[c]] + 1]
           /\ ~(probation[ReplicaOf[c]] + 1 >= SuccessThreshold)
    BY DEF Judge
  <2>2. QED
    BY <1>2, <2>1 DEF TypeOK
<1>5. wins' \in 0 .. SuccessThreshold
  BY DEF Judge, TypeOK
<1>6. QED
  BY <1>3, <1>4, <1>5 DEF Judge, TypeOK

LEMMA RecordSuccessType ==
    ASSUME TypeOK, NEW c \in Call, RecordSuccess(c)
    PROVE  TypeOK'
<1>1. call' \in [Call -> [pc : Pc, close : BOOLEAN, fresh : BOOLEAN]]
  BY GoesToType DEF RecordSuccess, Pc
<1>2. call[c].close \in BOOLEAN /\ call[c].fresh \in BOOLEAN
  BY DEF TypeOK
<1>3. row' \in Row
  <2>1. \/ row' = [row EXCEPT !.exists = TRUE, !.ok = 1]
        \/ \E n \in Nat, o \in BOOLEAN, s \in {"healthy", "degraded"} :
             row' = Updated([row EXCEPT !.ok = n, !.open = o, !.status = s])
    <3>1. row.ok \in Nat /\ row.ok + 1 \in Nat
      BY DEF TypeOK, Row
    <3>2. QED
      BY <1>2, <3>1 DEF RecordSuccess
  <2>2. CASE row' = [row EXCEPT !.exists = TRUE, !.ok = 1]
    BY <2>2 DEF TypeOK, Row
  <2>3. ASSUME NEW n \in Nat, NEW o \in BOOLEAN, NEW s \in {"healthy", "degraded"},
               row' = Updated([row EXCEPT !.ok = n, !.open = o, !.status = s])
        PROVE  row' \in Row
    <3>1. [row EXCEPT !.ok = n, !.open = o, !.status = s] \in Row
      BY DEF TypeOK, Row
    <3>2. QED
      BY <2>3, <3>1 DEF Row, Updated
  <2>4. QED
    BY <2>1, <2>2, <2>3
<1>4. strayed' \in BOOLEAN /\ early' \in BOOLEAN /\ last' = "success"
  BY DEF RecordSuccess, TypeOK
<1>5. QED
  BY <1>1, <1>3, <1>4 DEF RecordSuccess, TypeOK

\* A recorded failure is to open the circuit, to start the window anew, or done.
LEMMA FailureMoves ==
    ASSUME TypeOK, NEW c \in Call, RecordFailure(c)
    PROVE  \E pc \in {"resetting", "opening", "idle"}, fresh \in BOOLEAN :
             /\ call' = [call EXCEPT ![c] = [pc |-> pc, close |-> FALSE, fresh |-> fresh]]
             /\ pc = "opening" => TooMany(row'.ok, row'.failed)
             /\ TooMany(row'.ok, row'.failed) => pc \in {"resetting", "opening"}
<1>1. row.windowOld \in BOOLEAN
  BY DEF TypeOK, Row
<1>2. TooMany(row'.ok, row'.failed) \in BOOLEAN
  BY DEF TooMany
<1>3. call' = [call EXCEPT ![c] =
                 [pc |-> IF row.windowOld THEN "resetting"
                           ELSE IF ~row.windowOld /\ TooMany(row'.ok, row'.failed)
                                  THEN "opening" ELSE "idle",
                  close |-> FALSE,
                  fresh |-> ~row.windowOld /\ TooMany(row'.ok, row'.failed)]]
  BY DEF RecordFailure
<1>4. CASE row.windowOld
  BY <1>3, <1>4
<1>5. CASE ~row.windowOld /\ TooMany(row'.ok, row'.failed)
  BY <1>3, <1>5
<1>6. CASE ~row.windowOld /\ ~TooMany(row'.ok, row'.failed)
  BY <1>3, <1>6
<1>7. QED
  BY <1>1, <1>2, <1>4, <1>5, <1>6

LEMMA RecordFailureType ==
    ASSUME TypeOK, NEW c \in Call, RecordFailure(c)
    PROVE  TypeOK'
<1>1. call' \in [Call -> [pc : Pc, close : BOOLEAN, fresh : BOOLEAN]]
  <2>1. \E pc \in Pc, fresh \in BOOLEAN :
          call' = [call EXCEPT ![c] = [pc |-> pc, close |-> FALSE, fresh |-> fresh]]
    BY FailureMoves DEF Pc
  <2>2. QED
    BY <2>1 DEF TypeOK
<1>2. row' \in Row
  <2>1. \/ row' = [row EXCEPT !.exists = TRUE, !.failed = 1, !.status = "degraded"]
        \/ row' = Updated([row EXCEPT !.failed = row.failed + 1, !.status = "degraded"])
    BY DEF RecordFailure
  <2>2. CASE row' = [row EXCEPT !.exists = TRUE, !.failed = 1, !.status = "degraded"]
    BY <2>2 DEF TypeOK, Row
  <2>3. CASE row' = Updated([row EXCEPT !.failed = row.failed + 1, !.status = "degraded"])
    <3>1. row.failed + 1 \in Nat
      BY DEF TypeOK, Row
    <3>2. [row EXCEPT !.failed = row.failed + 1, !.status = "degraded"] \in Row
      BY <3>1 DEF TypeOK, Row
    <3>3. QED
      BY <2>3, <3>2 DEF Row, Updated
  <2>4. QED
    BY <2>1, <2>2, <2>3
<1>3. /\ probation' \in [Replica -> 0 .. SuccessThreshold - 1]
      /\ memory' \in [Replica -> {"none", "closed", "open", "stale"}]
  BY DEF RecordFailure, TypeOK
<1>4. QED
  BY <1>1, <1>2, <1>3 DEF RecordFailure, TypeOK

LEMMA OtherHandlersType ==
    ASSUME TypeOK, NEW c \in Call,
           SetHalfOpen(c) \/ Fails(c) \/ ResetWindow(c) \/ OpenCircuit(c) \/ StatementFails(c)
    PROVE  TypeOK'
<1>1. CASE SetHalfOpen(c)
  <2>1. call' \in [Call -> [pc : Pc, close : BOOLEAN, fresh : BOOLEAN]]
    BY <1>1, GoesToType DEF SetHalfOpen, Pc
  <2>2. QED
    BY <1>1, <2>1 DEF SetHalfOpen, TypeOK, Row, Updated, history
<1>2. CASE Fails(c)
  <2>1. call' \in [Call -> [pc : Pc, close : BOOLEAN, fresh : BOOLEAN]]
    BY <1>2, GoesToType DEF Fails, Pc
  <2>2. QED
    BY <1>2, <2>1 DEF Fails, TypeOK, history
<1>3. CASE ResetWindow(c)
  <2>1. call' \in [Call -> [pc : Pc, close : BOOLEAN, fresh : BOOLEAN]]
    BY <1>3, EndsOverType DEF ResetWindow
  <2>2. QED
    BY <1>3, <2>1 DEF ResetWindow, TypeOK, Row, Updated, history
<1>4. CASE OpenCircuit(c)
  <2>2. call' \in [Call -> [pc : Pc, close : BOOLEAN, fresh : BOOLEAN]]
    BY <1>4, EndsOverType DEF OpenCircuit
  <2>3. carried' \in BOOLEAN /\ wins' \in 0 .. SuccessThreshold
    BY <1>4 DEF OpenCircuit, TypeOK
  <2>5. row' \in Row
    BY <1>4 DEF OpenCircuit, TypeOK, Row, Updated
  <2>4. QED
    BY <1>4, <2>2, <2>3, <2>5 DEF OpenCircuit, TypeOK
<1>5. CASE StatementFails(c)
  <2>1. call' \in [Call -> [pc : Pc, close : BOOLEAN, fresh : BOOLEAN]]
    BY <1>5, GoesToType DEF StatementFails, Pc
  <2>2. QED
    BY <1>5, <2>1 DEF StatementFails, TypeOK, history
<1>6. QED
  BY <1>1, <1>2, <1>3, <1>4, <1>5

LEMMA FaultsAndTimeType ==
    ASSUME TypeOK, (\E r \in Replica : Restart(r)) \/ Timeout \/ WindowEnds
    PROVE  TypeOK'
<1>1. ASSUME NEW r \in Replica, Restart(r) PROVE TypeOK'
  <2>1. Idle \in [pc : Pc, close : BOOLEAN, fresh : BOOLEAN]
    BY DEF Idle, Pc
  <2>2. call' \in [Call -> [pc : Pc, close : BOOLEAN, fresh : BOOLEAN]]
    BY <1>1, <2>1 DEF Restart, TypeOK
  <2>3. QED
    BY <1>1, <2>2 DEF Restart, TypeOK, history
<1>2. CASE Timeout
  BY <1>2 DEF Timeout, TypeOK, Row, history
<1>3. CASE WindowEnds
  BY <1>3 DEF WindowEnds, TypeOK, Row, history
<1>4. QED
  BY <1>1, <1>2, <1>3

LEMMA NextType == TypeOK /\ [Next]_vars => TypeOK'
<1> SUFFICES ASSUME TypeOK, [Next]_vars PROVE TypeOK'
  OBVIOUS
<1>1. CASE UNCHANGED vars
  BY <1>1 DEF vars, TypeOK
<1>2. QED
  BY <1>1, Cases, QuietType, JudgeType, RecordSuccessType, RecordFailureType,
     OtherHandlersType, FaultsAndTimeType

\* The variables keep their types; in particular no replica ever counts as many as
\* SuccessThreshold successes of a half-open circuit.
THEOREM TypeCorrect == Spec => []TypeOK
BY InitType, NextType, PTL DEF Spec

-----------------------------------------------------------------------------
(* What a step does to the calls.                                          *)

LEMMA GoesToNotFresh ==
    ASSUME TypeOK, NEW c \in Call, NEW pc, GoesTo(c, pc)
    PROVE  /\ ~call'[c].fresh
           /\ call'[c].pc = pc
           /\ \A d \in Call : d # c => call'[d] = call[d]
           /\ \A d \in Call : call'[d].fresh /\ call'[d].close
                                => call[d].fresh /\ call[d].close
BY DEF TypeOK, GoesTo

LEMMA EndsOverMoves ==
    ASSUME TypeOK, NEW c \in Call, NEW pc, EndsOver(c, pc)
    PROVE  /\ call'[c].pc = "idle" /\ ~call'[c].fresh /\ ~call'[c].close
           /\ \A d \in Call : d # c => call'[d].pc = call[d].pc
           /\ \A d \in Call : d # c => call'[d].close = call[d].close
           /\ \A d \in Call : call'[d].fresh => call[d].fresh
           /\ \A d \in Call : call'[d].fresh => d # c
           /\ \A d \in Call : call'[d].fresh => call[d].pc # pc
<1>1. call'[c] = Idle
  BY DEF EndsOver
<1>2. ASSUME NEW d \in Call, d # c
      PROVE  /\ call'[d].pc = call[d].pc
             /\ call'[d].close = call[d].close
             /\ call'[d].fresh => call[d].fresh
             /\ call'[d].fresh => call[d].pc # pc
  <2>1. call'[d] = [call[d] EXCEPT !.fresh = call[d].fresh /\ ~At(d, pc)]
    BY <1>2 DEF EndsOver
  <2>2. /\ call'[d].pc = call[d].pc
        /\ call'[d].close = call[d].close
        /\ call'[d].fresh <=> (call[d].fresh /\ ~At(d, pc))
    BY <2>1 DEF TypeOK
  <2>3. QED
    BY <2>2 DEF At
<1>3. call'[c].pc = "idle" /\ ~call'[c].fresh /\ ~call'[c].close
  BY <1>1 DEF Idle
<1>4. QED
  BY <1>2, <1>3

LEMMA FailureLeaves ==
    ASSUME TypeOK, NEW c \in Call, RecordFailure(c)
    PROVE  /\ call'[c].pc \in {"resetting", "opening", "idle"}
           /\ call'[c].pc = "opening" => TooMany(row'.ok, row'.failed)
           /\ TooMany(row'.ok, row'.failed) => call'[c].pc \in {"resetting", "opening"}
           /\ ~call'[c].close
           /\ \A d \in Call : d # c => call'[d] = call[d]
           /\ \A d \in Call : call'[d].fresh /\ call'[d].close
                                => call[d].fresh /\ call[d].close
<1>1. PICK pc \in {"resetting", "opening", "idle"}, fresh \in BOOLEAN :
             /\ call' = [call EXCEPT ![c] = [pc |-> pc, close |-> FALSE, fresh |-> fresh]]
             /\ pc = "opening" => TooMany(row'.ok, row'.failed)
             /\ TooMany(row'.ok, row'.failed) => pc \in {"resetting", "opening"}
  BY FailureMoves
<1>2. /\ call'[c] = [pc |-> pc, close |-> FALSE, fresh |-> fresh]
      /\ \A d \in Call : d # c => call'[d] = call[d]
  BY <1>1 DEF TypeOK
<1>3. QED
  BY <1>1, <1>2

-----------------------------------------------------------------------------
(***************************************************************************)
(* Only a success that was judged closes the circuit.                      *)
(***************************************************************************)
ClosersJudged == \A c \in Call : call[c].close => At(c, "judged")

\* A call that is not about to record a success has not decided to close.
LEMMA ClosersNext == TypeOK /\ ClosersJudged /\ [Next]_vars => ClosersJudged'
<1> SUFFICES ASSUME TypeOK, ClosersJudged, [Next]_vars PROVE ClosersJudged'
  OBVIOUS
<1>1. ASSUME NEW c \in Call, NEW pc \in Pc, GoesTo(c, pc) PROVE ClosersJudged'
  BY <1>1 DEF GoesTo, ClosersJudged, At, TypeOK
<1>2. ASSUME NEW c \in Call, Quiet(c) \/ SetHalfOpen(c) \/ Fails(c) \/ StatementFails(c)
                                \/ RecordSuccess(c)
      PROVE  ClosersJudged'
  <2>1. UNCHANGED call \/ \E pc \in Pc : GoesTo(c, pc)
    BY <1>2 DEF Quiet, Check, Refuse, CheckBlind, Succeeds, SetHalfOpen, Fails,
                StatementFails, RecordSuccess, Pc
  <2>2. QED
    BY <2>1, <1>1 DEF ClosersJudged, At
<1>3. ASSUME NEW c \in Call, Judge(c) PROVE ClosersJudged'
  <2>1. call'[c].pc = "judged" /\ \A d \in Call : d # c => call'[d] = call[d]
    BY <1>3 DEF Judge, TypeOK
  <2>2. QED
    BY <2>1 DEF ClosersJudged, At
<1>4. ASSUME NEW c \in Call, RecordFailure(c) PROVE ClosersJudged'
  BY <1>4, FailureLeaves DEF ClosersJudged, At
<1>5. ASSUME NEW c \in Call, ResetWindow(c) \/ OpenCircuit(c) PROVE ClosersJudged'
  <2>1. EndsOver(c, "opening") \/ EndsOver(c, "judged")
    BY <1>5 DEF ResetWindow, OpenCircuit
  <2>2. ASSUME NEW d \in Call, call'[d].close PROVE call'[d].pc = "judged"
    <3>1. CASE d = c
      <4>1. call'[d] = Idle
        BY <2>1, <3>1 DEF EndsOver
      <4>2. QED
        BY <2>2, <4>1 DEF Idle
    <3>2. CASE d # c
      <4>1. "opening" \in Pc /\ "judged" \in Pc
        BY DEF Pc
      <4>2. call'[d].pc = call[d].pc /\ call'[d].close = call[d].close
        BY <2>1, <3>2, <4>1, EndsOverMoves
      <4>3. QED
        BY <2>2, <4>2 DEF ClosersJudged, At
    <3>3. QED
      BY <3>1, <3>2
  <2>3. QED
    BY <2>2 DEF ClosersJudged, At
<1>6. ASSUME NEW r \in Replica, Restart(r) PROVE ClosersJudged'
  BY <1>6 DEF Restart, ClosersJudged, At, TypeOK, Idle
<1>7. CASE Timeout \/ WindowEnds \/ UNCHANGED vars
  BY <1>7 DEF Timeout, WindowEnds, vars, ClosersJudged, At
<1>8. QED
  BY <1>2, <1>3, <1>4, <1>5, <1>6, <1>7, Cases

LEMMA ClosersCorrect == Spec => []ClosersJudged
<1>1. Init => ClosersJudged
  BY DEF Init, ClosersJudged, Idle
<1>2. QED
  BY <1>1, ClosersNext, TypeCorrect, PTL DEF Spec

-----------------------------------------------------------------------------
(***************************************************************************)
(* A circuit closed early.  No replica has counted more successes than     *)
(* there were since the circuit opened, and who is about to close it on a  *)
(* fresh judgement has seen enough of them.                                *)
(***************************************************************************)
CountedOnlyWins == carried \/ \A r \in Replica : probation[r] <= wins

FreshHasEnough ==
    \A c \in Call : call[c].fresh /\ call[c].close => carried \/ wins >= SuccessThreshold

EarlyInv == CountedOnlyWins /\ FreshHasEnough /\ ClosesEarlyOnlyIfStrayed

LEMMA EarlyInit == Init => EarlyInv
BY DEF Init, EarlyInv, CountedOnlyWins, FreshHasEnough, ClosesEarlyOnlyIfStrayed, Idle

\* A step that judges nothing and does not open the circuit.
LEMMA EarlyUndisturbed ==
    ASSUME TypeOK, EarlyInv,
           UNCHANGED <<wins, carried, strayed, early>>,
           \A r \in Replica : probation'[r] \in {0, probation[r]},
           \A c \in Call : call'[c].fresh /\ call'[c].close
                              => call[c].fresh /\ call[c].close
    PROVE  EarlyInv'
<1>1. CountedOnlyWins'
  <2>1. wins >= 0
    BY DEF TypeOK
  <2>2. QED
    BY <2>1 DEF EarlyInv, CountedOnlyWins
<1>2. FreshHasEnough'
  BY DEF EarlyInv, FreshHasEnough
<1>3. QED
  BY <1>1, <1>2 DEF EarlyInv, ClosesEarlyOnlyIfStrayed

LEMMA EarlyJudge ==
    ASSUME TypeOK, EarlyInv, NEW c \in Call, Judge(c)
    PROVE  EarlyInv'
<1> DEFINE r == ReplicaOf[c]
           enough == probation[r] + 1 >= SuccessThreshold
<1>1. /\ r \in Replica
      /\ probation[r] \in 0 .. SuccessThreshold - 1
      /\ wins \in 0 .. SuccessThreshold
      /\ UNCHANGED <<carried, strayed, early>>
      /\ wins' = IF HalfOpen /\ wins < SuccessThreshold THEN wins + 1 ELSE wins
  BY DEF TypeOK, Judge
<1>2. CountedOnlyWins'
  <2>1. /\ \A q \in Replica \ {r} : probation'[q] = probation[q]
        /\ probation'[r] = IF HalfOpen /\ ~enough THEN probation[r] + 1 ELSE 0
        /\ \A q \in Replica : probation[q] \in 0 .. SuccessThreshold - 1
    BY DEF Judge, TypeOK
  <2> SUFFICES ASSUME ~carried, NEW q \in Replica PROVE probation'[q] <= wins'
    BY <1>1 DEF CountedOnlyWins
  <2>2. probation[q] <= wins /\ probation[r] <= wins
    BY <1>1 DEF EarlyInv, CountedOnlyWins
  <2>3. CASE q # r
    BY <1>1, <2>1, <2>2, <2>3
  <2>4. CASE q = r
    BY <1>1, <2>1, <2>2, <2>4
  <2>5. QED
    BY <2>3, <2>4
<1>3. FreshHasEnough'
  <2> SUFFICES ASSUME NEW d \in Call, call'[d].fresh, call'[d].close, ~carried
               PROVE  wins' >= SuccessThreshold
    BY <1>1 DEF FreshHasEnough
  <2>1. CASE d # c
    <3>1. call'[d] = call[d]
      BY <2>1 DEF Judge, TypeOK
    <3>2. wins >= SuccessThreshold
      BY <3>1 DEF EarlyInv, FreshHasEnough
    <3>3. QED
      BY <1>1, <3>2
  <2>2. CASE d = c
    <3>1. call'[c].fresh = HalfOpen /\ call'[c].close = (HalfOpen => enough)
      BY DEF Judge, TypeOK
    <3>2. HalfOpen /\ enough
      BY <2>2, <3>1
    <3>3. probation[r] <= wins
      BY <1>1 DEF EarlyInv, CountedOnlyWins
    <3>4. QED
      BY <1>1, <3>2, <3>3
  <2>3. QED
    BY <2>1, <2>2
<1>4. QED
  BY <1>1, <1>2, <1>3 DEF EarlyInv, ClosesEarlyOnlyIfStrayed

LEMMA EarlyRecordSuccess ==
    ASSUME TypeOK, EarlyInv, NEW c \in Call, RecordSuccess(c)
    PROVE  EarlyInv'
<1>1. CountedOnlyWins'
  BY DEF RecordSuccess, EarlyInv, CountedOnlyWins
<1>2. FreshHasEnough'
  BY GoesToNotFresh DEF RecordSuccess, EarlyInv, FreshHasEnough
<1>3. ClosesEarlyOnlyIfStrayed'
  <2>1. /\ strayed' = (strayed \/ (row.open /\ ~call[c].fresh))
        /\ early' = (early \/ (row.open /\ call[c].close /\ wins < SuccessThreshold))
        /\ carried' = carried
        /\ call[c].fresh /\ call[c].close => carried \/ ~(wins < SuccessThreshold)
    BY DEF RecordSuccess, EarlyInv, FreshHasEnough, TypeOK
  <2>2. QED
    BY <2>1 DEF EarlyInv, ClosesEarlyOnlyIfStrayed
<1>4. QED
  BY <1>1, <1>2, <1>3 DEF EarlyInv

LEMMA EarlyOpenCircuit ==
    ASSUME TypeOK, ClosersJudged, EarlyInv, NEW c \in Call, OpenCircuit(c)
    PROVE  EarlyInv'
<1>1. CountedOnlyWins'
  <2>1. /\ wins' = 0 /\ probation' = probation
        /\ carried' = (carried \/ \E r \in Replica : probation[r] > 0)
        /\ \A r \in Replica : probation[r] \in 0 .. SuccessThreshold - 1
    BY DEF OpenCircuit, TypeOK
  <2>2. CASE \E r \in Replica : probation[r] > 0
    BY <2>1, <2>2 DEF CountedOnlyWins
  <2>3. CASE \A r \in Replica : ~(probation[r] > 0)
    BY <2>1, <2>3 DEF CountedOnlyWins
  <2>4. QED
    BY <2>2, <2>3
<1>2. FreshHasEnough'
  <2> SUFFICES ASSUME NEW d \in Call, call'[d].fresh, call'[d].close PROVE FALSE
    BY DEF FreshHasEnough
  <2>0. EndsOver(c, "judged") /\ "judged" \in Pc
    BY DEF OpenCircuit, Pc
  <2>1. d # c /\ call[d].close /\ ~At(d, "judged")
    BY <2>0, EndsOverMoves DEF At
  <2>2. QED
    BY <2>1 DEF ClosersJudged
<1>3. ClosesEarlyOnlyIfStrayed'
  BY DEF OpenCircuit, EarlyInv, ClosesEarlyOnlyIfStrayed
<1>4. QED
  BY <1>1, <1>2, <1>3 DEF EarlyInv

LEMMA EarlyNext == TypeOK /\ ClosersJudged /\ EarlyInv /\ [Next]_vars => EarlyInv'
<1> SUFFICES ASSUME TypeOK, ClosersJudged, EarlyInv, [Next]_vars PROVE EarlyInv'
  OBVIOUS
<1>0. ASSUME NEW c \in Call, ResetWindow(c) PROVE EarlyInv'
  <2>1. UNCHANGED <<wins, carried, strayed, early, probation>> /\ EndsOver(c, "opening")
    BY <1>0 DEF ResetWindow, history
  <2>2. \A d \in Call : call'[d].fresh /\ call'[d].close => call[d].fresh /\ call[d].close
    BY <2>1, EndsOverMoves DEF Pc
  <2>3. QED
    BY <2>1, <2>2, EarlyUndisturbed
<1>1. ASSUME NEW c \in Call, Quiet(c) \/ SetHalfOpen(c) \/ Fails(c) \/ StatementFails(c)
      PROVE  EarlyInv'
  <2>1. UNCHANGED <<wins, carried, strayed, early, probation>>
    BY <1>1 DEF Quiet, Check, Refuse, CheckBlind, Succeeds, SetHalfOpen, Fails,
                StatementFails, history
  <2>2. UNCHANGED call \/ \E pc \in Pc : GoesTo(c, pc)
    BY <1>1 DEF Quiet, Check, Refuse, CheckBlind, Succeeds, SetHalfOpen, Fails,
                StatementFails, Pc
  <2>3. \A d \in Call : call'[d].fresh /\ call'[d].close => call[d].fresh /\ call[d].close
    BY <2>2, GoesToNotFresh
  <2>4. QED
    BY <2>1, <2>3, EarlyUndisturbed
<1>2. ASSUME NEW c \in Call, RecordFailure(c) PROVE EarlyInv'
  <2>1. UNCHANGED <<wins, carried, strayed, early>>
    BY <1>2 DEF RecordFailure
  <2>2. \A r \in Replica : probation'[r] \in {0, probation[r]}
    BY <1>2 DEF RecordFailure, TypeOK
  <2>3. \A d \in Call : call'[d].fresh /\ call'[d].close => call[d].fresh /\ call[d].close
    BY <1>2, FailureLeaves
  <2>4. QED
    BY <2>1, <2>2, <2>3, EarlyUndisturbed
<1>3. ASSUME NEW r \in Replica, Restart(r) PROVE EarlyInv'
  <2>1. UNCHANGED <<wins, carried, strayed, early>>
    BY <1>3 DEF Restart, history
  <2>2. \A q \in Replica : probation'[q] \in {0, probation[q]}
    BY <1>3 DEF Restart, TypeOK
  <2>3. \A d \in Call : call'[d].fresh /\ call'[d].close => call[d].fresh /\ call[d].close
    BY <1>3 DEF Restart, TypeOK, Idle
  <2>4. QED
    BY <2>1, <2>2, <2>3, EarlyUndisturbed
<1>4. CASE Timeout \/ WindowEnds \/ UNCHANGED vars
  <2>1. UNCHANGED <<wins, carried, strayed, early, probation, call>>
    BY <1>4 DEF Timeout, WindowEnds, vars, history
  <2>2. QED
    BY <2>1, EarlyUndisturbed
<1>5. QED
  BY <1>0, <1>1, <1>2, <1>3, <1>4, Cases, EarlyJudge, EarlyRecordSuccess, EarlyOpenCircuit

\* Fewer than SuccessThreshold successes close an open circuit only if one of them was
\* judged on another state of it, or counted before it opened.
THEOREM EarlyCorrect == Spec => []ClosesEarlyOnlyIfStrayed
<1>1. EarlyInv => ClosesEarlyOnlyIfStrayed
  BY DEF EarlyInv
<1>2. QED
  BY <1>1, EarlyInit, EarlyNext, TypeCorrect, ClosersCorrect, PTL DEF Spec

-----------------------------------------------------------------------------
(***************************************************************************)
(* A circuit that trips.  With too many failures counted and a failure     *)
(* recorded last, either the circuit is open, or the handler that will     *)
(* open it, or that will start the count again, is on its way.             *)
(***************************************************************************)
OnItsWay == \E c \in Call : call[c].pc \in {"opening", "resetting"}

TripInv == last = "failure" /\ TooMany(row.ok, row.failed) => row.open \/ faults > 0 \/ OnItsWay

LEMMA TripInit == Init => TripInv
BY DEF Init, TripInv

\* A step that leaves the counts alone, and takes no handler off its way.
LEMMA TripUndisturbed ==
    ASSUME TypeOK, TripInv, last' = last, row'.ok = row.ok, row'.failed = row.failed,
           row.open => row'.open, faults' \in {faults, faults + 1}, OnItsWay => OnItsWay'
    PROVE  TripInv'
<1>1. faults > 0 => faults' > 0
  BY DEF TypeOK
<1>2. QED
  BY <1>1 DEF TripInv

LEMMA TripHandlers ==
    ASSUME TypeOK, TripInv, NEW c \in Call,
           Quiet(c) \/ SetHalfOpen(c) \/ Fails(c) \/ Judge(c) \/ StatementFails(c)
    PROVE  TripInv'
<1>1. CASE StatementFails(c)
  BY <1>1 DEF StatementFails, TripInv, TypeOK
<1>2. CASE Refuse(c)
  <2>1. UNCHANGED <<row, last, faults, call>>
    BY <1>2 DEF Refuse, history
  <2>2. OnItsWay => OnItsWay'
    BY <2>1 DEF OnItsWay
  <2>3. QED
    BY <2>1, <2>2, TripUndisturbed DEF TypeOK
<1>3. CASE Check(c) \/ CheckBlind(c) \/ Succeeds(c) \/ SetHalfOpen(c) \/ Fails(c) \/ Judge(c)
  <2>1. /\ last' = last /\ row'.ok = row.ok /\ row'.failed = row.failed
        /\ row'.open = row.open
    BY <1>3 DEF Check, CheckBlind, Succeeds, SetHalfOpen, Fails, Judge, history, Updated,
                TypeOK, Row
  <2>2. faults' = faults \/ faults' = faults + 1
    BY <1>3 DEF Check, CheckBlind, Succeeds, SetHalfOpen, Fails, Judge
  <2>3. /\ call[c].pc \notin {"opening", "resetting"}
        /\ \A d \in Call : d # c => call'[d] = call[d]
    <3>1. CASE Judge(c)
      BY <3>1 DEF Judge, At, TypeOK
    <3>2. CASE ~Judge(c)
      BY <1>3, <3>2 DEF Check, CheckBlind, Succeeds, SetHalfOpen, Fails, At, GoesTo, TypeOK
    <3>3. QED
      BY <3>1, <3>2
  <2>4. OnItsWay => OnItsWay'
    BY <2>3 DEF OnItsWay
  <2>5. QED
    BY <2>1, <2>2, <2>4, TripUndisturbed DEF TypeOK
<1>4. QED
  BY <1>1, <1>2, <1>3 DEF Quiet

LEMMA TripRecords ==
    ASSUME TypeOK, TripInv, NEW c \in Call,
           RecordSuccess(c) \/ RecordFailure(c) \/ ResetWindow(c) \/ OpenCircuit(c)
    PROVE  TripInv'
<1>1. CASE RecordSuccess(c)
  BY <1>1 DEF RecordSuccess, TripInv
<1>2. CASE RecordFailure(c)
  <2>1. TooMany(row'.ok, row'.failed) => call'[c].pc \in {"opening", "resetting"}
    BY <1>2, FailureLeaves
  <2>2. QED
    BY <2>1 DEF TripInv, OnItsWay
<1>3. CASE ResetWindow(c)
  <2>1. row'.failed = 0
    BY <1>3 DEF ResetWindow, TypeOK, Row, Updated
  <2>2. ~TooMany(row'.ok, row'.failed)
    BY <2>1 DEF TooMany
  <2>3. QED
    BY <2>2 DEF TripInv
<1>4. CASE OpenCircuit(c)
  <2>1. row'.open
    BY <1>4 DEF OpenCircuit, TypeOK, Row, Updated
  <2>2. QED
    BY <2>1 DEF TripInv
<1>5. QED
  BY <1>1, <1>2, <1>3, <1>4

LEMMA TripOthers ==
    ASSUME TypeOK, TripInv, (\E r \in Replica : Restart(r)) \/ Timeout \/ WindowEnds \/ UNCHANGED vars
    PROVE  TripInv'
<1>1. ASSUME NEW r \in Replica, Restart(r) PROVE TripInv'
  BY <1>1 DEF Restart, TripInv, TypeOK
<1>2. CASE Timeout \/ WindowEnds \/ UNCHANGED vars
  <2>1. /\ last' = last /\ row'.ok = row.ok /\ row'.failed = row.failed
        /\ row'.open = row.open /\ faults' = faults /\ call' = call
    BY <1>2 DEF Timeout, WindowEnds, vars, history, TypeOK, Row
  <2>2. OnItsWay => OnItsWay'
    BY <2>1 DEF OnItsWay
  <2>3. QED
    BY <2>1, <2>2, TripUndisturbed DEF TypeOK
<1>3. QED
  BY <1>1, <1>2

LEMMA TripNext == TypeOK /\ TripInv /\ [Next]_vars => TripInv'
BY Cases, TripHandlers, TripRecords, TripOthers

\* At rest, after a failure that is one too many, the circuit is open, unless a
\* statement failed or a replica restarted.
THEOREM TripCorrect == Spec => []TripsUnlessDisturbed
<1>1. TypeOK /\ TripInv => TripsUnlessDisturbed
  BY DEF TripInv, TripsUnlessDisturbed, OnItsWay
<1>2. QED
  BY <1>1, TripInit, TripNext, TypeCorrect, PTL DEF Spec

-----------------------------------------------------------------------------
(***************************************************************************)
(* A circuit that opens.  Whoever decided to open it found enough failures *)
(* in the window, and as long as the window is not started anew they only  *)
(* grow more.  No success decides to keep a closed circuit open.           *)
(***************************************************************************)
DecidedOnCount ==
    /\ ~row.exists => row.failed = 0
    /\ \A c \in Call : At(c, "opening") /\ call[c].fresh => row.failed >= FailureThreshold - 1

LEMMA DecidedInit == Init => DecidedOnCount
BY DEF Init, DecidedOnCount, At, Idle

\* A step that takes no failure back and decides nothing.
LEMMA DecidedUndisturbed ==
    ASSUME DecidedOnCount, row'.failed = row.failed, row.exists => row'.exists,
           \A c \in Call : At(c, "opening")' /\ call'[c].fresh => At(c, "opening") /\ call[c].fresh
    PROVE  DecidedOnCount'
BY DEF DecidedOnCount

LEMMA DecidedHandlers ==
    ASSUME TypeOK, DecidedOnCount, NEW c \in Call,
           Quiet(c) \/ SetHalfOpen(c) \/ Fails(c) \/ StatementFails(c) \/ Judge(c) \/ RecordSuccess(c)
    PROVE  DecidedOnCount'
<1>1. row'.failed = row.failed /\ (row.exists => row'.exists)
  <2>1. CASE RecordSuccess(c)
    BY <2>1 DEF RecordSuccess, TypeOK, Row, Updated
  <2>2. CASE ~RecordSuccess(c)
    BY <2>2 DEF Quiet, Check, Refuse, CheckBlind, Succeeds, SetHalfOpen, Fails,
                StatementFails, Judge, TypeOK, Row, Updated
  <2>3. QED
    BY <2>1, <2>2
<1>2. CASE Judge(c)
  <2>1. call'[c].pc = "judged" /\ \A d \in Call : d # c => call'[d] = call[d]
    BY <1>2 DEF Judge, TypeOK
  <2>2. QED
    BY <1>1, <2>1, DecidedUndisturbed DEF At
<1>3. CASE ~Judge(c)
  <2>1. UNCHANGED call \/ \E pc \in Pc : GoesTo(c, pc)
    BY <1>3 DEF Quiet, Check, Refuse, CheckBlind, Succeeds, SetHalfOpen, Fails,
                StatementFails, RecordSuccess, Pc
  <2>2. \A d \in Call : call'[d].fresh => call'[d] = call[d]
    BY <2>1, GoesToNotFresh
  <2>3. QED
    BY <1>1, <2>2, DecidedUndisturbed DEF At
<1>4. QED
  BY <1>2, <1>3

LEMMA DecidedRecordFailure ==
    ASSUME TypeOK, DecidedOnCount, NEW c \in Call, RecordFailure(c)
    PROVE  DecidedOnCount'
<1>1. row.failed \in Nat /\ FailureThreshold \in Nat
  BY DEF TypeOK, Row
<1>2. row'.exists /\ row'.failed = IF row.exists THEN row.failed + 1 ELSE 1
  BY DEF RecordFailure, TypeOK, Row, Updated
<1>3. row'.failed \in Nat /\ row'.failed >= row.failed
  BY <1>1, <1>2 DEF DecidedOnCount
<1>4. ASSUME NEW d \in Call, call'[d].pc = "opening", call'[d].fresh
      PROVE  row'.failed >= FailureThreshold - 1
  <2>1. CASE d = c
    <3>1. TooMany(row'.ok, row'.failed)
      BY <1>4, <2>1, FailureLeaves
    <3>2. QED
      BY <1>1, <1>3, <3>1 DEF TooMany
  <2>2. CASE d # c
    <3>1. call'[d] = call[d]
      BY <2>2, FailureLeaves
    <3>2. row.failed >= FailureThreshold - 1
      BY <1>4, <3>1 DEF DecidedOnCount, At
    <3>3. QED
      BY <1>1, <1>3, <3>2
  <2>3. QED
    BY <2>1, <2>2
<1>5. QED
  BY <1>2, <1>4 DEF DecidedOnCount, At

LEMMA DecidedReset ==
    ASSUME TypeOK, DecidedOnCount, NEW c \in Call, ResetWindow(c)
    PROVE  DecidedOnCount'
<1>0. EndsOver(c, "opening") /\ "opening" \in Pc
  BY DEF ResetWindow, Pc
<1>1. ASSUME NEW d \in Call, call'[d].pc = "opening" PROVE ~call'[d].fresh
  <2>1. CASE d = c
    BY <1>0, <2>1, EndsOverMoves
  <2>2. CASE d # c
    <3>1. call'[d].pc = call[d].pc /\ (call'[d].fresh => ~At(d, "opening"))
      BY <1>0, <2>2, EndsOverMoves DEF At
    <3>2. QED
      BY <1>1, <3>1 DEF At
  <2>3. QED
    BY <2>1, <2>2
<1>2. row'.failed = 0
  BY DEF ResetWindow, TypeOK, Row, Updated
<1>3. QED
  BY <1>1, <1>2 DEF DecidedOnCount, At

LEMMA DecidedOpen ==
    ASSUME TypeOK, DecidedOnCount, NEW c \in Call, OpenCircuit(c)
    PROVE  DecidedOnCount'
<1>1. row'.failed = row.failed /\ row'.exists = row.exists
  BY DEF OpenCircuit, TypeOK, Row, Updated
<1>0. EndsOver(c, "judged") /\ "judged" \in Pc
  BY DEF OpenCircuit, Pc
<1>2. \A d \in Call : call'[d].fresh => call[d].fresh /\ call'[d].pc = call[d].pc
  BY <1>0, EndsOverMoves
<1>3. QED
  BY <1>1, <1>2, DecidedUndisturbed DEF At

LEMMA DecidedOthers ==
    ASSUME TypeOK, DecidedOnCount,
           (\E r \in Replica : Restart(r)) \/ Timeout \/ WindowEnds \/ UNCHANGED vars
    PROVE  DecidedOnCount'
<1>1. row'.failed = row.failed /\ row'.exists = row.exists
  BY DEF Restart, Timeout, WindowEnds, vars, TypeOK, Row
<1>2. \A d \in Call : call'[d] = call[d] \/ call'[d].pc = "idle"
  BY DEF Restart, Timeout, WindowEnds, vars, TypeOK, Idle
<1>3. QED
  BY <1>1, <1>2, DecidedUndisturbed DEF At

LEMMA DecidedNext == TypeOK /\ DecidedOnCount /\ [Next]_vars => DecidedOnCount'
BY Cases, DecidedHandlers, DecidedRecordFailure, DecidedReset, DecidedOpen, DecidedOthers

\* Only two steps turn a closed circuit into an open one.
LEMMA WhoOpens ==
    ASSUME TypeOK, Next, ~row.open, row'.open
    PROVE  \E c \in Call : OpenCircuit(c) \/ (RecordSuccess(c) /\ row'.open = ~call[c].close)
<1>1. ASSUME NEW c \in Call,
             \/ Quiet(c) \/ SetHalfOpen(c) \/ Fails(c) \/ Judge(c)
             \/ RecordFailure(c) \/ ResetWindow(c) \/ StatementFails(c)
      PROVE  row'.open = row.open
  BY <1>1 DEF Quiet, Check, Refuse, CheckBlind, Succeeds, SetHalfOpen, Fails, Judge,
              RecordFailure, ResetWindow, StatementFails, TypeOK, Row, Updated
<1>2. ASSUME (\E r \in Replica : Restart(r)) \/ Timeout \/ WindowEnds PROVE row'.open = row.open
  BY <1>2 DEF Restart, Timeout, WindowEnds, TypeOK, Row
<1>3. ASSUME NEW c \in Call, RecordSuccess(c)
      PROVE  row'.open = row.open \/ row'.open = ~call[c].close
  BY <1>3 DEF RecordSuccess, TypeOK, Row, Updated
<1>4. PICK c \in Call : OpenCircuit(c) \/ RecordSuccess(c)
  BY <1>1, <1>2, Cases
<1>5. QED
  BY <1>3, <1>4

LEMMA OpenStep ==
    ASSUME TypeOK, DecidedOnCount, Next, ~row.open, row'.open
    PROVE  \/ row.failed >= FailureThreshold - 1
           \/ \E c \in Call : /\ call'[c].pc = "idle"
                              /\ \/ At(c, "judged") /\ ~call[c].close
                                 \/ At(c, "opening") /\ ~call[c].fresh
<1>1. PICK c \in Call : OpenCircuit(c) \/ (RecordSuccess(c) /\ row'.open = ~call[c].close)
  BY WhoOpens
<1>2. CASE OpenCircuit(c)
  <2>1. At(c, "opening") /\ call'[c].pc = "idle"
    BY <1>2, EndsOverMoves DEF OpenCircuit, Pc
  <2>2. QED
    BY <2>1 DEF DecidedOnCount
<1>3. CASE RecordSuccess(c) /\ row'.open = ~call[c].close
  <2>1. At(c, "judged") /\ call'[c].pc = "idle"
    BY <1>3, GoesToNotFresh DEF RecordSuccess
  <2>2. QED
    BY <2>1, <1>3
<1>4. QED
  BY <1>1, <1>2, <1>3

\* A closed circuit opens only with FailureThreshold - 1 failures counted in its window,
\* or by one of two writes that come late: a success judged half-open, or a decision to
\* open that outlived its window.
THEOREM OpenCorrect == Spec => OpensOnlyAfterFailures
<1>1. TypeOK /\ DecidedOnCount /\ [Next]_vars =>
        [~row.open /\ row'.open =>
          \/ row.failed >= FailureThreshold - 1
          \/ \E c \in Call : /\ call'[c].pc = "idle"
                             /\ \/ At(c, "judged") /\ ~call[c].close
                                \/ At(c, "opening") /\ ~call[c].fresh]_vars
  BY OpenStep
<1>2. QED
  BY <1>1, DecidedInit, DecidedNext, TypeCorrect, PTL DEF Spec, OpensOnlyAfterFailures
=============================================================================
