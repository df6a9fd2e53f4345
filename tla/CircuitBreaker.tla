---------------------------- MODULE CircuitBreaker ----------------------------
(***************************************************************************)
(* The circuit breaker of one data provider in one region, and the calls   *)
(* that go through it (callPlaidApi, callBitsoApi, callBelvoApi).          *)
(*                                                                         *)
(* The circuit is one row of provider_health_status that every replica     *)
(* reads and writes by separate statements.  What counts the successes of  *)
(* a half-open circuit, and what stands in for the row when the database   *)
(* cannot be read, lives in the memory of each replica.                    *)
(*                                                                         *)
(* Time is two flags of the row: its last update is older than the timeout *)
(* (60 s; every update of the row starts it again, for updatedAt is set by *)
(* Prisma), and its window is older than the monitoring window (5 min).    *)
(***************************************************************************)
EXTENDS Naturals

CONSTANTS
    Replica,          \* API replicas
    Call,             \* calls that may be under way at one time
    ReplicaOf,        \* the replica each call runs on
    FailureThreshold, \* defaultConfig.failureThreshold
    SuccessThreshold, \* defaultConfig.successThreshold
    MaxFailures,      \* bound: calls the provider fails
    MaxFaults,        \* bound: statements that fail and replicas that restart
    MaxSuccesses      \* the success counter is exact up to here and stays there

ASSUME BreakerAssumption ==
    /\ ReplicaOf \in [Call -> Replica]
    /\ FailureThreshold \in Nat \ {0, 1}
    /\ SuccessThreshold \in Nat \ {0}
    /\ MaxFailures \in Nat /\ MaxFaults \in Nat
    /\ MaxSuccesses \in Nat
    /\ MaxSuccesses > MaxFailures + MaxFaults

VARIABLES
    row,       \* the row of the provider and region
    probation, \* halfOpenSuccesses of each replica
    memory,    \* memoryCache of each replica
    call,      \* where each call stands
    failures, faults, \* counters of the bounds
    \* history, read by the properties only:
    wins,      \* successes judged half-open since the circuit opened last
    carried,   \* a replica held successes from before when the circuit opened
    strayed,   \* the open circuit was written by a success judged on another state of it
    early,     \* the circuit was closed by fewer than SuccessThreshold successes
    last       \* the outcome recorded last

history == <<wins, carried, strayed, early, last>>
vars == <<row, probation, memory, call, failures, faults, wins, carried, strayed, early, last>>

\* Where a call stands, what it decided to write, and (history) whether that is still
\* fresh: the circuit has not opened since a success was judged half-open, the window has
\* not started anew since a failure was found to be one too many.
Idle == [pc |-> "idle", close |-> FALSE, fresh |-> FALSE]

Init ==
    /\ row = [exists |-> FALSE, open |-> FALSE, status |-> "healthy", ok |-> 0,
              failed |-> 0, timedOut |-> FALSE, windowOld |-> FALSE]
    /\ probation = [r \in Replica |-> 0]
    /\ memory = [r \in Replica |-> "none"]
    /\ call = [c \in Call |-> Idle]
    /\ failures = 0 /\ faults = 0
    /\ wins = 0
    /\ carried = FALSE /\ strayed = FALSE /\ early = FALSE
    /\ last = "none"

\* Call c goes on at pc.
At(c, pc) == call[c].pc = pc
GoesTo(c, pc) == call' = [call EXCEPT ![c] = [pc |-> pc, close |-> FALSE, fresh |-> FALSE]]

\* Call c ends, and what the calls at pc decided is out of date.
EndsOver(c, pc) ==
    call' = [d \in Call |-> IF d = c THEN Idle
                            ELSE [call[d] EXCEPT !.fresh = call[d].fresh /\ ~At(d, pc)]]

\* Any update of the row starts the timeout again.
Updated(r) == [r EXCEPT !.timedOut = FALSE]

HalfOpen == row.open /\ row.status = "degraded"

----------------------------------------------------------------------------
(* isCircuitOpen.                                                          *)

\* The row is read: a closed circuit lets the call pass, an open one refuses it until
\* the timeout has passed.  What was read goes into the memory of the replica.
Check(c) ==
    /\ At(c, "idle")
    /\ ~(row.open /\ ~row.timedOut)
    /\ GoesTo(c, IF row.open THEN "halving" ELSE "calling")
    /\ memory' = IF row.exists
                   THEN [memory EXCEPT ![ReplicaOf[c]] =
                           IF row.open THEN "stale" ELSE "closed"]
                   ELSE memory
    /\ UNCHANGED <<row, probation, failures, faults, history>>

Refuse(c) ==
    /\ At(c, "idle")
    /\ row.open
    /\ ~row.timedOut
    /\ memory[ReplicaOf[c]] # "open"
    /\ memory' = [memory EXCEPT ![ReplicaOf[c]] = "open"]
    /\ UNCHANGED <<row, probation, call, failures, faults, history>>

\* The row cannot be read: the memory of the replica decides.
CheckBlind(c) ==
    /\ At(c, "idle")
    /\ faults < MaxFaults
    /\ faults' = faults + 1
    /\ memory[ReplicaOf[c]] # "open"
    /\ GoesTo(c, "calling")
    /\ UNCHANGED <<row, probation, memory, failures, history>>

\* setHalfOpen: the circuit stays open and its status changes.
SetHalfOpen(c) ==
    /\ At(c, "halving")
    /\ row' = Updated([row EXCEPT !.status = "degraded"])
    /\ GoesTo(c, "calling")
    /\ UNCHANGED <<probation, memory, failures, faults, history>>

----------------------------------------------------------------------------
(* The provider answers, or fails, or does not answer in time.             *)

Succeeds(c) ==
    /\ At(c, "calling")
    /\ GoesTo(c, "succeeded")
    /\ UNCHANGED <<row, probation, memory, failures, faults, history>>

Fails(c) ==
    /\ At(c, "calling")
    /\ failures < MaxFailures
    /\ failures' = failures + 1
    /\ GoesTo(c, "failed")
    /\ UNCHANGED <<row, probation, memory, faults, history>>

----------------------------------------------------------------------------
(* recordSuccess.                                                          *)

\* A mistake: the counter is cleared by every success.
JudgeForgetsMutant(c) ==
    LET r == ReplicaOf[c] IN
    /\ At(c, "succeeded")
    /\ call' = [call EXCEPT ![c] = [pc |-> "judged",
                   close |-> HalfOpen => probation[r] + 1 >= SuccessThreshold, fresh |-> HalfOpen]]
    /\ probation' = [probation EXCEPT ![r] = 0]
    /\ wins' = IF HalfOpen /\ wins < SuccessThreshold THEN wins + 1 ELSE wins
    /\ UNCHANGED <<row, memory, failures, faults, carried, strayed, early, last>>

\* A mistake: one success too few is asked for.
JudgeEarlyMutant(c) ==
    LET r == ReplicaOf[c]
        enough == probation[r] + 2 >= SuccessThreshold
    IN
    /\ At(c, "succeeded")
    /\ call' = [call EXCEPT ![c] = [pc |-> "judged", close |-> HalfOpen => enough,
                                    fresh |-> HalfOpen]]
    /\ probation' = [probation EXCEPT ![r] = IF HalfOpen /\ ~enough THEN @ + 1 ELSE 0]
    /\ wins' = IF HalfOpen /\ wins < SuccessThreshold THEN wins + 1 ELSE wins
    /\ UNCHANGED <<row, memory, failures, faults, carried, strayed, early, last>>

\* The row is read, and what to write is decided: a half-open circuit closes at the
\* threshold of this replica, any other at once.
Judge(c) ==
    LET r == ReplicaOf[c]
        count == probation[r] + 1
        enough == count >= SuccessThreshold
    IN
    /\ At(c, "succeeded")
    /\ call' = [call EXCEPT ![c] = [pc |-> "judged", close |-> HalfOpen => enough,
                                    fresh |-> HalfOpen]]
    /\ probation' = [probation EXCEPT ![r] = IF HalfOpen /\ ~enough THEN count ELSE 0]
    /\ wins' = IF HalfOpen /\ wins < SuccessThreshold THEN wins + 1 ELSE wins
    /\ UNCHANGED <<row, memory, failures, faults, carried, strayed, early, last>>

\* The upsert writes the decision, whatever the row is by now.
RecordSuccess(c) ==
    /\ At(c, "judged")
    /\ row' = IF row.exists
                THEN Updated([row EXCEPT
                        !.ok = IF row.ok < MaxSuccesses THEN row.ok + 1 ELSE row.ok,
                        !.open = ~call[c].close,
                        !.status = IF call[c].close THEN "healthy" ELSE "degraded"])
                ELSE [row EXCEPT !.exists = TRUE, !.ok = 1]
    /\ GoesTo(c, "idle")
    /\ last' = "success"
    /\ strayed' = (strayed \/ (row.open /\ ~call[c].fresh))
    /\ early' = (early \/ (row.open /\ call[c].close /\ wins < SuccessThreshold))
    /\ UNCHANGED <<probation, memory, failures, faults, wins, carried>>

----------------------------------------------------------------------------
(* recordFailure.                                                          *)

\* A mistake: a bad rate of failures is enough, however few they are.
TooManyMutant(ok, failed) == failed + 1 >= FailureThreshold \/ failed + 1 > ok

\* The failure that was just counted is counted again (failedCalls + 1).
TooMany(ok, failed) == failed + 1 >= FailureThreshold /\ failed + 1 > ok

\* A mistake: the row as it was before the upsert decides.
RecordFailureMutant(c) ==
    LET r == ReplicaOf[c]
        opens == ~row.windowOld /\ TooMany(row.ok, row.failed)
    IN
    /\ At(c, "failed")
    /\ row' = Updated([row EXCEPT !.exists = TRUE, !.failed = @ + 1, !.status = "degraded"])
    /\ last' = "failure"
    /\ call' = [call EXCEPT ![c] =
                   [pc |-> IF row.windowOld THEN "resetting" ELSE IF opens THEN "opening" ELSE "idle",
                    close |-> FALSE, fresh |-> opens]]
    /\ probation' = IF opens THEN [probation EXCEPT ![r] = 0] ELSE probation
    /\ memory' = IF opens THEN [memory EXCEPT ![r] = "open"] ELSE memory
    /\ UNCHANGED <<failures, faults, wins, carried, strayed, early>>

\* The upsert counts the failure, and its result decides: an old window starts again,
\* too many failures open the circuit (and clear this replica's memory first).
RecordFailure(c) ==
    LET r == ReplicaOf[c]
        counted == IF row.exists
                     THEN Updated([row EXCEPT !.failed = row.failed + 1,
                                              !.status = "degraded"])
                     ELSE [row EXCEPT !.exists = TRUE, !.failed = 1, !.status = "degraded"]
        opens == ~row.windowOld /\ TooMany(counted.ok, counted.failed)
    IN
    /\ At(c, "failed")
    /\ row' = counted
    /\ last' = "failure"
    /\ call' = [call EXCEPT ![c] =
                   [pc |-> IF row.windowOld THEN "resetting" ELSE IF opens THEN "opening" ELSE "idle",
                    close |-> FALSE, fresh |-> opens]]
    /\ probation' = IF opens THEN [probation EXCEPT ![r] = 0] ELSE probation
    /\ memory' = IF opens THEN [memory EXCEPT ![r] = "open"] ELSE memory
    /\ UNCHANGED <<failures, faults, wins, carried, strayed, early>>

ResetWindow(c) ==
    /\ At(c, "resetting")
    /\ row' = Updated([row EXCEPT !.ok = 0, !.failed = 0, !.windowOld = FALSE])
    /\ EndsOver(c, "opening")
    /\ UNCHANGED <<probation, memory, failures, faults, history>>

OpenCircuit(c) ==
    /\ At(c, "opening")
    /\ row' = Updated([row EXCEPT !.open = TRUE, !.status = "down"])
    /\ EndsOver(c, "judged")
    /\ wins' = 0
    /\ carried' = (carried \/ \E r \in Replica : probation[r] > 0)
    /\ UNCHANGED <<probation, memory, failures, faults, strayed, early, last>>

----------------------------------------------------------------------------
(* Faults and time.                                                        *)

\* A statement fails.  In the check the call is given up before it was made; a success
\* that cannot be recorded is recorded as a failure; a failure that cannot be recorded,
\* or that cannot open the circuit, is left at that.
StatementFails(c) ==
    /\ call[c].pc \in {"halving", "succeeded", "judged", "failed", "resetting", "opening"}
    /\ faults < MaxFaults
    /\ faults' = faults + 1
    /\ GoesTo(c, IF call[c].pc \in {"succeeded", "judged"} THEN "failed" ELSE "idle")
    /\ UNCHANGED <<row, probation, memory, failures, history>>

\* A restart loses the calls of the replica and all it counted.
Restart(r) ==
    /\ faults < MaxFaults
    /\ faults' = faults + 1
    /\ call' = [c \in Call |-> IF ReplicaOf[c] = r THEN Idle ELSE call[c]]
    /\ probation' = [probation EXCEPT ![r] = 0]
    /\ memory' = [memory EXCEPT ![r] = "none"]
    /\ UNCHANGED <<row, failures, history>>

\* 60 seconds without an update of the row, or since a replica noted it as open.
Timeout ==
    /\ (row.open /\ ~row.timedOut) \/ \E r \in Replica : memory[r] = "open"
    /\ row' = [row EXCEPT !.timedOut = row.open]
    /\ memory' = [r \in Replica |-> IF memory[r] = "open" THEN "stale" ELSE memory[r]]
    /\ UNCHANGED <<probation, call, failures, faults, history>>

WindowEnds ==
    /\ row.exists
    /\ ~row.windowOld
    /\ row' = [row EXCEPT !.windowOld = TRUE]
    /\ UNCHANGED <<probation, memory, call, failures, faults, history>>

----------------------------------------------------------------------------
Records(c) == Judge(c) \/ RecordSuccess(c) \/ RecordFailure(c) \/ ResetWindow(c) \/ OpenCircuit(c)

Next ==
    \/ \E c \in Call : \/ Check(c) \/ Refuse(c) \/ CheckBlind(c) \/ SetHalfOpen(c)
                       \/ Succeeds(c) \/ Fails(c) \/ Records(c) \/ StatementFails(c)
    \/ \E r \in Replica : Restart(r)
    \/ Timeout
    \/ WindowEnds

(***************************************************************************)
(* Users and jobs keep calling the provider (Check, on every replica), a   *)
(* call that was made comes back within its own timeout, a handler runs to *)
(* its end, and time passes.  Nothing makes the provider fail.             *)
(***************************************************************************)
Fairness ==
    /\ \A c \in Call : SF_vars(Check(c)) /\ WF_vars(SetHalfOpen(c) \/ Succeeds(c) \/ Records(c))
    /\ WF_vars(Timeout)

Spec == Init /\ [][Next]_vars /\ Fairness

----------------------------------------------------------------------------
(* Properties.                                                             *)

Row == [exists : BOOLEAN, open : BOOLEAN, status : {"healthy", "degraded", "down"},
        ok : Nat, failed : Nat, timedOut : BOOLEAN, windowOld : BOOLEAN]

Pc == {"idle", "halving", "calling", "succeeded", "judged", "failed", "resetting", "opening"}

\* Types of the variables.
TypeOK ==
    /\ row \in Row
    /\ probation \in [Replica -> 0 .. SuccessThreshold - 1]
    /\ memory \in [Replica -> {"none", "closed", "open", "stale"}]
    /\ call \in [Call -> [pc : Pc, close : BOOLEAN, fresh : BOOLEAN]]
    /\ failures \in 0 .. MaxFailures
    /\ faults \in 0 .. MaxFaults
    /\ wins \in 0 .. SuccessThreshold
    /\ carried \in BOOLEAN /\ strayed \in BOOLEAN /\ early \in BOOLEAN
    /\ last \in {"none", "success", "failure"}

\* A closed circuit opens only with FailureThreshold - 1 failures counted in its window
\* (one less than the threshold: the failure that was just counted is added once more),
\* but for two writes that come late: of a success that was judged while the circuit was
\* half-open, after another success closed it, and of a decision to open, after another
\* call has started the window anew.
OpensOnlyAfterFailures ==
    [][~row.open /\ row'.open =>
          \/ row.failed >= FailureThreshold - 1
          \/ \E c \in Call : /\ call'[c].pc = "idle"
                             /\ \/ At(c, "judged") /\ ~call[c].close
                                \/ At(c, "opening") /\ ~call[c].fresh]_vars

\* Fewer than SuccessThreshold successes close an open circuit only if one of them was
\* judged on another state of the circuit (before it opened, or while it was "down"), or
\* a replica counted successes from before it opened.
ClosesEarlyOnlyIfStrayed == early => strayed \/ carried

\* At rest, with too many failures counted and the last outcome a failure, the circuit
\* is open, in every interleaving of what the replicas record, unless a statement failed
\* or a replica restarted.
TripsUnlessDisturbed ==
    (\A c \in Call : call[c].pc \in {"idle", "halving", "calling"})
        /\ last = "failure" /\ TooMany(row.ok, row.failed)
            => row.open \/ faults > 0

\* A provider that no longer fails is let in again: the circuit closes again and again,
\* however its successes are spread over the replicas.
RecoveredProviderCloses == []<>(~row.open)
=============================================================================
