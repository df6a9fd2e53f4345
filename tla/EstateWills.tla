------------------------------ MODULE EstateWills ------------------------------
(***************************************************************************)
(* The wills of one household (EstatePlanningService): drafted, edited,    *)
(* activated, revoked and deleted by requests that run at the same time.   *)
(*                                                                         *)
(* activateWill is four statements outside any transaction: it reads the   *)
(* will, reads its beneficiaries again to add them up, revokes whatever    *)
(* will of the household is active, and writes its own will active.  Every *)
(* write is by id alone, whatever the row has become since it was read.    *)
(*                                                                         *)
(* The beneficiaries of a will are abstracted to what activation asks of   *)
(* them: there are none, or their shares add up to 100 for every type of   *)
(* asset, or they do not.                                                  *)
(***************************************************************************)
EXTENDS Naturals

CONSTANTS
    Will,      \* wills that may exist at one time
    Request,   \* requests that may be under way at one time
    NoWill,
    MaxFaults  \* bound: requests that end half way

ASSUME EstateAssumption == NoWill \notin Will /\ MaxFaults \in Nat

VARIABLES
    will,    \* the rows of wills, with what hangs on them
    request, \* where each request stands, and the will it is about
    faults,  \* counter of the bound
    \* history, read by the properties only:
    standing,   \* the will activated last, until it is revoked by request
    revokers,   \* activations under way that revoked the standing will
    cutOff,     \* one of them failed half way
    raced,      \* the standing will, or the draft one of them was about, was deleted under it
    overlapped, \* two activations had both revoked the others before they wrote
    twice,      \* wills that two activations were under way for at one time
    revived,    \* wills written active when they were revoked
    edited      \* wills changed since the activation that stands, or is under way, read them

keeping == <<standing, revokers, cutOff, raced>>
history == <<keeping, overlapped, twice, revived, edited>>
vars == <<will, request, faults, standing, revokers, cutOff, raced, overlapped, twice, revived, edited>>

NoRow == [status |-> "none", signed |-> FALSE, shares |-> "none", executor |-> FALSE]
Idle == [at |-> "idle", will |-> NoWill]

Init ==
    /\ will = [w \in Will |-> NoRow]
    /\ request = [r \in Request |-> Idle]
    /\ faults = 0
    /\ standing = NoWill /\ revokers = {}
    /\ cutOff = FALSE /\ raced = FALSE /\ overlapped = FALSE
    /\ twice = {} /\ revived = {} /\ edited = {}

Status(w) == will[w].status
At(r, step) == request[r].at = step
Goes(r, step) == request' = [request EXCEPT ![r].at = step]
Ends(r) == request' = [request EXCEPT ![r] = Idle]

Activating == {"checked", "valid", "activating"}

\* Requests that are about to activate w, the one asked about left out.
Others(r, w) == {q \in Request \ {r} : request[q].at \in Activating /\ request[q].will = w}
UnderWay(w) == \E q \in Request : request[q].at \in Activating /\ request[q].will = w

\* Someone relies on what w says.
ReliedOn(w) == Status(w) = "active" \/ UnderWay(w)

\* From now on w is the will that stands, and nothing has happened to it.
Stands(w) == standing' = w /\ revokers' = {} /\ cutOff' = FALSE /\ raced' = FALSE

----------------------------------------------------------------------------
(* Drafting and editing: a read of the will, and one write.                *)

\* createWill.  A row gets an id that no request has seen.
CreateWill(w, signed) ==
    /\ Status(w) = "none"
    /\ \A r \in Request : request[r].will # w
    /\ will' = [will EXCEPT ![w] = [NoRow EXCEPT !.status = "draft", !.signed = signed]]
    /\ twice' = twice \ {w} /\ revived' = revived \ {w} /\ edited' = edited \ {w}
    /\ IF standing = w THEN Stands(NoWill) ELSE UNCHANGED keeping
    /\ UNCHANGED <<request, faults, overlapped>>

\* Only an executed will may not be changed, and nothing in the code executes a will.
Edit(w, row) ==
    /\ Status(w) # "none"
    /\ row # will[w]
    /\ will' = [will EXCEPT ![w] = row]
    /\ edited' = IF ReliedOn(w) THEN edited \cup {w} ELSE edited
    /\ UNCHANGED <<request, faults, keeping, overlapped, twice, revived>>

\* updateWill: the disclaimer.
UpdateWill(w, signed) == Edit(w, [will[w] EXCEPT !.signed = signed])

\* addBeneficiary.
AddBeneficiary(w, shares) ==
    /\ shares # "none"
    /\ Edit(w, [will[w] EXCEPT !.shares = shares])

\* updateBeneficiary and removeBeneficiary.
ChangeBeneficiary(w, shares) ==
    /\ will[w].shares # "none"
    /\ Edit(w, [will[w] EXCEPT !.shares = shares])

\* addExecutor, and removeExecutor of the last one.
AddExecutor(w) == Edit(w, [will[w] EXCEPT !.executor = TRUE])
RemoveExecutor(w) == Edit(w, [will[w] EXCEPT !.executor = FALSE])

\* removeMember of the household: the rows that name the member go with it.  One such
\* step stands for each will that names the member.
RemoveMember(w, shares, executor) ==
    /\ shares # "none" => will[w].shares # "none"
    /\ executor => will[w].executor
    /\ Edit(w, [will[w] EXCEPT !.shares = shares, !.executor = executor])

----------------------------------------------------------------------------
(* activateWill.                                                           *)

\* A mistake: nobody asks for an executor.
ReadyMutant(w) == will[w].signed /\ will[w].shares # "none"

\* What the first read is asked.
Ready(w) == will[w].signed /\ will[w].shares # "none" /\ will[w].executor

\* A mistake: a revoked will may be activated again.
CheckMutant(r, w) ==
    /\ At(r, "idle")
    /\ Status(w) \in {"draft", "revoked"}
    /\ Ready(w)
    /\ request' = [request EXCEPT ![r] = [at |-> "checked", will |-> w]]
    /\ twice' = IF Others(r, w) # {} THEN twice \cup {w} ELSE twice
    /\ edited' = IF Others(r, w) # {} THEN edited ELSE edited \ {w}
    /\ UNCHANGED <<will, faults, keeping, overlapped, revived>>

\* The will is read and checked.
Check(r, w) ==
    /\ At(r, "idle")
    /\ Status(w) = "draft"
    /\ Ready(w)
    /\ request' = [request EXCEPT ![r] = [at |-> "checked", will |-> w]]
    /\ twice' = IF Others(r, w) # {} THEN twice \cup {w} ELSE twice
    /\ edited' = IF Others(r, w) # {} THEN edited ELSE edited \ {w}
    /\ UNCHANGED <<will, faults, keeping, overlapped, revived>>

Revoked(row) == [row EXCEPT !.status = "revoked"]

\* A mistake: the others are revoked before the shares are added up.
ValidateMutant(r) ==
    /\ At(r, "checked")
    /\ IF will[request[r].will].shares = "off" THEN Ends(r) ELSE Goes(r, "valid")
    /\ will' = [w \in Will |-> IF Status(w) = "active" THEN Revoked(will[w]) ELSE will[w]]
    /\ UNCHANGED <<faults, history>>

\* validateBeneficiaryAllocations: no beneficiaries at all add up, too.
Validate(r) ==
    /\ At(r, "checked")
    /\ IF will[request[r].will].shares = "off" THEN Ends(r) ELSE Goes(r, "valid")
    /\ UNCHANGED <<will, faults, history>>

\* A mistake: the will that is active is left alone.
RevokeOthersMutant(r) ==
    /\ At(r, "valid")
    /\ Goes(r, "activating")
    /\ overlapped' = (overlapped \/ \E q \in Request : At(q, "activating"))
    /\ UNCHANGED <<will, faults, keeping, twice, revived, edited>>

\* Whatever will of the household is active is revoked, this one included.
RevokeOthers(r) ==
    /\ At(r, "valid")
    /\ will' = [w \in Will |-> IF Status(w) = "active" THEN Revoked(will[w]) ELSE will[w]]
    /\ Goes(r, "activating")
    /\ overlapped' = (overlapped \/ \E q \in Request : At(q, "activating"))
    /\ revokers' = IF \E w \in Will : w = standing /\ Status(w) = "active"
                     THEN revokers \cup {r} ELSE revokers
    /\ UNCHANGED <<faults, standing, cutOff, raced, twice, revived, edited>>

\* The will is written active; the update of a row that is gone throws.
Activate(r) ==
    LET w == request[r].will IN
    /\ At(r, "activating")
    /\ Ends(r)
    /\ \/ /\ Status(w) # "none"
          /\ will' = [will EXCEPT ![w].status = "active"]
          /\ Stands(w)
          /\ revived' = IF Status(w) = "revoked" THEN revived \cup {w} ELSE revived
       \/ /\ Status(w) = "none"
          /\ revokers' = revokers \ {r}
          /\ raced' = (raced \/ r \in revokers)
          /\ UNCHANGED <<will, standing, cutOff, revived>>
    /\ UNCHANGED <<faults, overlapped, twice, edited>>

----------------------------------------------------------------------------
(* revokeWill and deleteWill: a read that checks the status, and a write.  *)

CheckRevoke(r, w) ==
    /\ At(r, "idle")
    /\ Status(w) = "active"
    /\ request' = [request EXCEPT ![r] = [at |-> "revoking", will |-> w]]
    /\ UNCHANGED <<will, faults, history>>

RevokeWill(r) ==
    LET w == request[r].will IN
    /\ At(r, "revoking")
    /\ Ends(r)
    /\ will' = IF Status(w) = "none" THEN will ELSE [will EXCEPT ![w].status = "revoked"]
    /\ IF standing = w THEN Stands(NoWill) ELSE UNCHANGED keeping
    /\ UNCHANGED <<faults, overlapped, twice, revived, edited>>

CheckDelete(r, w) ==
    /\ At(r, "idle")
    /\ Status(w) = "draft"
    /\ request' = [request EXCEPT ![r] = [at |-> "deleting", will |-> w]]
    /\ UNCHANGED <<will, faults, history>>

DeleteWill(r) ==
    LET w == request[r].will IN
    /\ At(r, "deleting")
    /\ Ends(r)
    /\ will' = [will EXCEPT ![w] = NoRow]
    /\ raced' = (raced \/ standing = w)
    /\ UNCHANGED <<faults, standing, revokers, cutOff, overlapped, twice, revived, edited>>

\* A statement fails, or the replica restarts: nothing is undone.
Fail(r) ==
    /\ ~At(r, "idle")
    /\ faults < MaxFaults
    /\ faults' = faults + 1
    /\ Ends(r)
    /\ revokers' = revokers \ {r}
    /\ cutOff' = (cutOff \/ r \in revokers)
    /\ UNCHANGED <<will, standing, raced, overlapped, twice, revived, edited>>

----------------------------------------------------------------------------
Shares == {"none", "off", "balanced"}

Edits ==
    \/ \E w \in Will, signed \in BOOLEAN : CreateWill(w, signed) \/ UpdateWill(w, signed)
    \/ \E w \in Will, shares \in Shares : AddBeneficiary(w, shares) \/ ChangeBeneficiary(w, shares)
    \/ \E w \in Will : AddExecutor(w) \/ RemoveExecutor(w)
    \/ \E w \in Will, shares \in Shares, executor \in BOOLEAN : RemoveMember(w, shares, executor)

Activation(r) == (\E w \in Will : Check(r, w)) \/ Validate(r) \/ RevokeOthers(r) \/ Activate(r)

Ending(r) ==
    \/ \E w \in Will : CheckRevoke(r, w) \/ CheckDelete(r, w)
    \/ RevokeWill(r) \/ DeleteWill(r) \/ Fail(r)

Next == Edits \/ \E r \in Request : Activation(r) \/ Ending(r)

Spec == Init /\ [][Next]_vars

----------------------------------------------------------------------------
(* Properties.                                                             *)

Row == [status : {"none", "draft", "active", "revoked"}, signed : BOOLEAN,
        shares : Shares, executor : BOOLEAN]

Step == {"idle", "revoking", "deleting"} \cup Activating

\* Types of the variables, and a request that is under way is about a will.
TypeOK ==
    /\ will \in [Will -> Row]
    /\ request \in [Request -> [at : Step, will : Will \cup {NoWill}]]
    /\ \A r \in Request : request[r].will = NoWill <=> At(r, "idle")
    /\ faults \in 0 .. MaxFaults
    /\ standing \in Will \cup {NoWill}
    /\ revokers \subseteq Request
    /\ cutOff \in BOOLEAN /\ raced \in BOOLEAN /\ overlapped \in BOOLEAN
    /\ twice \subseteq Will /\ revived \subseteq Will /\ edited \subseteq Will

\* A household has two active wills only if two activations overlapped: each revoked
\* the others before the other one wrote its own.  (The guide: activation revokes any
\* other active will.)
TwoActiveOnlyIfOverlapped ==
    (\E v, w \in Will : v # w /\ Status(v) = "active" /\ Status(w) = "active") => overlapped

\* A revoked will comes back only if two requests to activate that will were under way
\* at once: no crash, deletion, edit or activation of another will revives it.
RevivedOnlyIfTwice == revived \subseteq twice

\* A household loses the will it activated last without anyone having revoked it only
\* if an activation that had revoked this will failed half way, or was about a draft
\* that was deleted under it, or if this will was deleted: the deletion had found it a
\* draft.  No failure or deletion of anything else excuses the loss.
LostOnlyIfDisturbed ==
    standing # NoWill /\ (\A r \in Request : request[r].at \notin Activating)
        => Status(standing) = "active" \/ cutOff \/ raced

Complete(w) == will[w].signed /\ will[w].shares = "balanced" /\ will[w].executor

\* An active will lacks what activation asks for only if it was changed after the
\* activation had read it; the second read of the beneficiaries adds nothing to that.
IncompleteOnlyIfEdited ==
    \A w \in Will : Status(w) = "active" => Complete(w) \/ w \in edited
=============================================================================
