---------------------------- MODULE OrderLifecycle ----------------------------
(***************************************************************************)
(* What a transaction order promises to its user, whatever the database    *)
(* tables and handlers behind it do: one row per placed order, a status    *)
(* that only moves forward, and at most one execution at the provider.     *)
(* When two requests for one order overlap the order is disputed, and      *)
(* nothing more is promised of it: the run orders_double shows why.        *)
(***************************************************************************)
CONSTANT OrderIds

VARIABLES
  status,   \* per order, "absent" before it is placed; or "disputed"
  executed  \* orders the provider executed that are not disputed

lvars == <<status, executed>>

Pending == {"pending_verification", "pending_execution"}
Final == {"completed", "failed", "cancelled", "rejected"}

LifecycleInit ==
  /\ status = [o \in OrderIds |-> "absent"]
  /\ executed = {}

Move(o, from, to) ==
  /\ status[o] \in from
  /\ status' = [status EXCEPT ![o] = to]
  /\ UNCHANGED executed

Place(o) == \E to \in Pending : Move(o, {"absent"}, to)
Verify(o) == Move(o, {"pending_verification"}, "pending_execution")
Cancel(o) == Move(o, Pending, "cancelled")
Expire(o) == Move(o, {"pending_execution"}, "rejected")
Start(o) == Move(o, {"pending_execution"}, "executing")

(* The provider executes an order only while it is executing, and once. *)
ExecuteOnce(o) ==
  /\ status[o] = "executing"
  /\ o \notin executed
  /\ executed' = executed \cup {o}
  /\ UNCHANGED status

Complete(o) == Move(o, {"executing"}, "completed")

(* An order may end failed although the provider executed it: the answer    *)
(* was lost, or a database call after the execution threw.                  *)
Fail(o) == Move(o, {"executing", "completed"}, "failed")

Dispute(o) ==
  /\ status[o] # "absent"
  /\ status' = [status EXCEPT ![o] = "disputed"]
  /\ executed' = executed \ {o}

LifecycleNext ==
  \E o \in OrderIds :
    \/ Place(o) \/ Verify(o) \/ Cancel(o) \/ Expire(o)
    \/ Start(o) \/ ExecuteOnce(o) \/ Complete(o) \/ Fail(o)
    \/ Dispute(o)

LifecycleSpec == LifecycleInit /\ [][LifecycleNext]_lvars
=============================================================================
