--------------------------- MODULE EstateWillsProofs ---------------------------
(***************************************************************************)
(* Proofs that the invariants of EstateWills hold for every number of      *)
(* wills, requests and faults.                                             *)
(***************************************************************************)
EXTENDS EstateWills, TLAPS

USE EstateAssumption

(***************************************************************************)
(* Every edit writes one row and leaves its status alone.                  *)
(***************************************************************************)
LEMMA EditKeepsStatus ==
    ASSUME TypeOK, NEW w \in Will,
           \/ \E signed \in BOOLEAN : UpdateWill(w, signed)
           \/ \E shares \in Shares : AddBeneficiary(w, shares) \/ ChangeBeneficiary(w, shares)
           \/ AddExecutor(w) \/ RemoveExecutor(w)
           \/ \E shares \in Shares, executor \in BOOLEAN : RemoveMember(w, shares, executor)
    PROVE  \E row \in Row : row.status = Status(w) /\ Edit(w, row)
<1>1. will[w] \in Row
  BY DEF TypeOK
<1>2. ASSUME NEW signed \in BOOLEAN, UpdateWill(w, signed)
      PROVE  \E row \in Row : row.status = Status(w) /\ Edit(w, row)
  <2>1. /\ [will[w] EXCEPT !.signed = signed] \in Row
        /\ [will[w] EXCEPT !.signed = signed].status = Status(w)
    BY <1>1 DEF Row, Status
  <2>2. QED
    BY <1>2, <2>1 DEF UpdateWill
<1>3. ASSUME NEW shares \in Shares, AddBeneficiary(w, shares) \/ ChangeBeneficiary(w, shares)
      PROVE  \E row \in Row : row.status = Status(w) /\ Edit(w, row)
  <2>1. /\ [will[w] EXCEPT !.shares = shares] \in Row
        /\ [will[w] EXCEPT !.shares = shares].status = Status(w)
    BY <1>1 DEF Row, Status
  <2>2. QED
    BY <1>3, <2>1 DEF AddBeneficiary, ChangeBeneficiary
<1>4. ASSUME AddExecutor(w) \/ RemoveExecutor(w)
      PROVE  \E row \in Row : row.status = Status(w) /\ Edit(w, row)
  <2>1. /\ [will[w] EXCEPT !.executor = TRUE] \in Row
        /\ [will[w] EXCEPT !.executor = FALSE] \in Row
        /\ [will[w] EXCEPT !.executor = TRUE].status = Status(w)
        /\ [will[w] EXCEPT !.executor = FALSE].status = Status(w)
    BY <1>1 DEF Row, Status
  <2>2. QED
    BY <1>4, <2>1 DEF AddExecutor, RemoveExecutor
<1>5. ASSUME NEW shares \in Shares, NEW executor \in BOOLEAN, RemoveMember(w, shares, executor)
      PROVE  \E row \in Row : row.status = Status(w) /\ Edit(w, row)
  <2>1. /\ [will[w] EXCEPT !.shares = shares, !.executor = executor] \in Row
        /\ [will[w] EXCEPT !.shares = shares, !.executor = executor].status = Status(w)
    BY <1>1 DEF Row, Status
  <2>2. QED
    BY <1>5, <2>1 DEF RemoveMember
<1>6. QED
  BY <1>2, <1>3, <1>4, <1>5

\* The steps, the edits taken as one.
LEMMA Cases ==
    ASSUME TypeOK, Next
    PROVE  \/ \E w \in Will, signed \in BOOLEAN : CreateWill(w, signed)
           \/ \E w \in Will, row \in Row : row.status = Status(w) /\ Edit(w, row)
           \/ \E r \in Request, w \in Will : Check(r, w) \/ CheckRevoke(r, w) \/ CheckDelete(r, w)
           \/ \E r \in Request : \/ Validate(r) \/ RevokeOthers(r) \/ Activate(r)
                                 \/ RevokeWill(r) \/ DeleteWill(r) \/ Fail(r)
<1>1. CASE Edits
  <2>1. \/ \E w \in Will, signed \in BOOLEAN : CreateWill(w, signed)
        \/ \E w \in Will :
             \/ \E signed \in BOOLEAN : UpdateWill(w, signed)
             \/ \E shares \in Shares : AddBeneficiary(w, shares) \/ ChangeBeneficiary(w, shares)
             \/ AddExecutor(w) \/ RemoveExecutor(w)
             \/ \E shares \in Shares, executor \in BOOLEAN : RemoveMember(w, shares, executor)
    BY <1>1 DEF Edits
  <2>2. QED
    BY <2>1, EditKeepsStatus
<1>2. CASE \E r \in Request : Activation(r) \/ Ending(r)
  BY <1>2 DEF Activation, Ending
<1>3. QED
  BY <1>1, <1>2 DEF Next

-----------------------------------------------------------------------------
(* Types. *)

LEMMA InitType == Init => TypeOK
<1> SUFFICES ASSUME Init PROVE TypeOK
  OBVIOUS
<1>1. will \in [Will -> Row]
  BY DEF Init, NoRow, Row, Shares
<1>2. faults \in 0 .. MaxFaults
  BY DEF Init
<1>3. QED
  BY <1>1, <1>2 DEF Init, TypeOK, Step, Idle, At

Entry == [at : Step, will : Will \cup {NoWill}]

LEMMA GoesType ==
    ASSUME TypeOK, NEW r \in Request, ~At(r, "idle"),
           NEW step \in Step \ {"idle"}, Goes(r, step)
    PROVE  /\ request' \in [Request -> Entry]
           /\ \A q \in Request : request'[q].will = NoWill <=> request'[q].at = "idle"
BY DEF TypeOK, Goes, At, Entry

LEMMA EndsType ==
    ASSUME TypeOK, NEW r \in Request, Ends(r)
    PROVE  /\ request' \in [Request -> Entry]
           /\ \A q \in Request : request'[q].will = NoWill <=> request'[q].at = "idle"
<1>1. Idle \in Entry /\ Idle.will = NoWill /\ Idle.at = "idle"
  BY DEF Idle, Entry, Step
<1>2. QED
  BY <1>1 DEF TypeOK, Ends, At, Entry

LEMMA BeginsType ==
    ASSUME TypeOK, NEW r \in Request, NEW w \in Will, NEW step \in Step \ {"idle"},
           request' = [request EXCEPT ![r] = [at |-> step, will |-> w]]
    PROVE  /\ request' \in [Request -> Entry]
           /\ \A q \in Request : request'[q].will = NoWill <=> request'[q].at = "idle"
<1>1. [at |-> step, will |-> w] \in Entry /\ w # NoWill
  BY DEF Entry
<1>2. QED
  BY <1>1 DEF TypeOK, At, Entry

LEMMA KeepingType ==
    ASSUME TypeOK, NEW w \in Will \cup {NoWill}, Stands(w) \/ UNCHANGED keeping
    PROVE  /\ standing' \in Will \cup {NoWill}
           /\ revokers' \subseteq Request
           /\ cutOff' \in BOOLEAN /\ raced' \in BOOLEAN
BY DEF TypeOK, Stands, keeping

LEMMA NextType == TypeOK /\ [Next]_vars => TypeOK'
<1> SUFFICES ASSUME TypeOK, [Next]_vars PROVE TypeOK'
  OBVIOUS
<1>1. ASSUME NEW w \in Will, NEW signed \in BOOLEAN, CreateWill(w, signed) PROVE TypeOK'
  <2>1. [NoRow EXCEPT !.status = "draft", !.signed = signed] \in Row
    BY DEF NoRow, Row, Shares
  <2>2. will' \in [Will -> Row]
    BY <1>1, <2>1 DEF CreateWill, TypeOK
  <2>3. QED
    BY <1>1, <2>2 DEF CreateWill, TypeOK, At, keeping, Stands
<1>2. ASSUME NEW w \in Will, NEW row \in Row, Edit(w, row) PROVE TypeOK'
  BY <1>2 DEF Edit, TypeOK, At, keeping
<1>3. ASSUME NEW r \in Request, NEW w \in Will,
             Check(r, w) \/ CheckRevoke(r, w) \/ CheckDelete(r, w)
      PROVE  TypeOK'
  <2>1. /\ request' \in [Request -> Entry]
        /\ \A q \in Request : request'[q].will = NoWill <=> request'[q].at = "idle"
    BY <1>3, BeginsType DEF Check, CheckRevoke, CheckDelete, Step, Activating
  <2>2. twice' \subseteq Will /\ edited' \subseteq Will
    BY <1>3 DEF Check, CheckRevoke, CheckDelete, TypeOK, history
  <2>3. QED
    BY <1>3, <2>1, <2>2 DEF Check, CheckRevoke, CheckDelete, TypeOK, history, keeping, Entry, At
<1>4. ASSUME NEW r \in Request, Validate(r) PROVE TypeOK'
  <2>1. /\ request' \in [Request -> Entry]
        /\ \A q \in Request : request'[q].will = NoWill <=> request'[q].at = "idle"
    BY <1>4, GoesType, EndsType DEF Validate, Step, Activating, At
  <2>2. QED
    BY <1>4, <2>1 DEF Validate, TypeOK, history, keeping, Entry, At
<1>5. ASSUME NEW r \in Request, RevokeOthers(r) PROVE TypeOK'
  <2>1. /\ request' \in [Request -> Entry]
        /\ \A q \in Request : request'[q].will = NoWill <=> request'[q].at = "idle"
    BY <1>5, GoesType DEF RevokeOthers, Step, Activating, At
  <2>2. \A w \in Will : Revoked(will[w]) \in Row
    BY DEF TypeOK, Revoked, Row
  <2>3. will' \in [Will -> Row]
    BY <1>5, <2>2 DEF RevokeOthers, TypeOK
  <2>4. overlapped' \in BOOLEAN
    BY <1>5 DEF RevokeOthers, TypeOK
  <2>5. QED
    BY <1>5, <2>1, <2>3, <2>4 DEF RevokeOthers, TypeOK, Entry, At
<1>6. ASSUME NEW r \in Request, Activate(r) PROVE TypeOK'
  <2>1. /\ request' \in [Request -> Entry]
        /\ \A q \in Request : request'[q].will = NoWill <=> request'[q].at = "idle"
    BY <1>6, EndsType DEF Activate
  <2>2. request[r].will \in Will
    BY <1>6 DEF Activate, TypeOK, At
  <2>3. will' \in [Will -> Row]
    BY <1>6, <2>2 DEF Activate, TypeOK, Row
  <2>4. QED
    BY <1>6, <2>1, <2>2, <2>3, KeepingType DEF Activate, TypeOK, Entry, At
<1>7. ASSUME NEW r \in Request, RevokeWill(r) PROVE TypeOK'
  <2>1. /\ request' \in [Request -> Entry]
        /\ \A q \in Request : request'[q].will = NoWill <=> request'[q].at = "idle"
    BY <1>7, EndsType DEF RevokeWill
  <2>2. request[r].will \in Will
    BY <1>7 DEF RevokeWill, TypeOK, At
  <2>3. will' \in [Will -> Row]
    BY <1>7, <2>2 DEF RevokeWill, TypeOK, Row
  <2>4. QED
    BY <1>7, <2>1, <2>3, KeepingType DEF RevokeWill, TypeOK, Entry, At
<1>8. ASSUME NEW r \in Request, DeleteWill(r) PROVE TypeOK'
  <2>1. /\ request' \in [Request -> Entry]
        /\ \A q \in Request : request'[q].will = NoWill <=> request'[q].at = "idle"
    BY <1>8, EndsType DEF DeleteWill
  <2>2. will' \in [Will -> Row]
    BY <1>8 DEF DeleteWill, TypeOK, Row, NoRow, Shares
  <2>3. raced' \in BOOLEAN
    BY <1>8 DEF DeleteWill, TypeOK
  <2>4. QED
    BY <1>8, <2>1, <2>2, <2>3 DEF DeleteWill, TypeOK, Entry, At
<1>9. ASSUME NEW r \in Request, Fail(r) PROVE TypeOK'
  <2>1. /\ request' \in [Request -> Entry]
        /\ \A q \in Request : request'[q].will = NoWill <=> request'[q].at = "idle"
    BY <1>9, EndsType DEF Fail
  <2>2. faults' \in 0 .. MaxFaults
    BY <1>9 DEF Fail, TypeOK
  <2>3. QED
    BY <1>9, <2>1, <2>2 DEF Fail, TypeOK, Entry, At
<1>10. CASE UNCHANGED vars
  BY <1>10 DEF vars, TypeOK, At
<1>11. QED
  BY <1>1, <1>2, <1>3, <1>4, <1>5, <1>6, <1>7, <1>8, <1>9, <1>10, Cases

\* The variables keep their types, and a request is about a will as long as it is under way.
THEOREM TypeCorrect == Spec => []TypeOK
BY InitType, NextType, PTL DEF Spec

-----------------------------------------------------------------------------
(***************************************************************************)
(* What each step does to the status of the wills and to the requests.     *)
(***************************************************************************)
LEMMA CreateEffect ==
    ASSUME TypeOK, NEW w \in Will, NEW signed \in BOOLEAN, CreateWill(w, signed)
    PROVE  /\ request' = request /\ Status(w) = "none" /\ Status(w)' = "draft"
           /\ \A v \in Will \ {w} : will'[v] = will[v]
           /\ \A q \in Request : request[q].will # w
BY DEF CreateWill, TypeOK, Status, NoRow

LEMMA EditEffect ==
    ASSUME TypeOK, NEW w \in Will, NEW row \in Row, row.status = Status(w), Edit(w, row)
    PROVE  /\ request' = request
           /\ \A v \in Will : Status(v)' = Status(v)
           /\ \A v \in Will \ {w} : will'[v] = will[v]
BY DEF Edit, TypeOK, Status

LEMMA BeginEffect ==
    ASSUME TypeOK, NEW r \in Request, NEW w \in Will,
           Check(r, w) \/ CheckRevoke(r, w) \/ CheckDelete(r, w)
    PROVE  /\ will' = will
           /\ \A q \in Request \ {r} : request'[q] = request[q]
           /\ request'[r].will = w
           /\ \/ request'[r].at = "checked" /\ Check(r, w)
              \/ request'[r].at = "revoking" /\ CheckRevoke(r, w)
              \/ request'[r].at = "deleting" /\ CheckDelete(r, w)
BY DEF Check, CheckRevoke, CheckDelete, TypeOK

LEMMA GoesEffect ==
    ASSUME TypeOK, NEW r \in Request, NEW step \in Step, Goes(r, step)
    PROVE  /\ request'[r].at = step /\ request'[r].will = request[r].will
           /\ \A q \in Request \ {r} : request'[q] = request[q]
BY DEF Goes, TypeOK

LEMMA EndsEffect ==
    ASSUME TypeOK, NEW r \in Request, Ends(r)
    PROVE  /\ request'[r].at = "idle" /\ request'[r].will = NoWill
           /\ \A q \in Request \ {r} : request'[q] = request[q]
BY DEF Ends, Idle, TypeOK

LEMMA RevokeOthersEffect ==
    ASSUME TypeOK, NEW r \in Request, RevokeOthers(r)
    PROVE  /\ request'[r].at = "activating" /\ request'[r].will = request[r].will
           /\ \A q \in Request \ {r} : request'[q] = request[q]
           /\ \A v \in Will : /\ Status(v) = "active" => Status(v)' = "revoked"
                              /\ Status(v) # "active" => will'[v] = will[v]
BY GoesEffect DEF RevokeOthers, TypeOK, Status, Revoked, Row, Step, Activating

LEMMA ActivateEffect ==
    ASSUME TypeOK, NEW r \in Request, Activate(r), NEW w, w = request[r].will
    PROVE  /\ w \in Will
           /\ request'[r].at = "idle"
           /\ \A q \in Request \ {r} : request'[q] = request[q]
           /\ \A v \in Will \ {w} : will'[v] = will[v]
           /\ \/ /\ Status(w) # "none" /\ will'[w] = [will[w] EXCEPT !.status = "active"]
                 /\ Status(w)' = "active" /\ Stands(w)
                 /\ revived' = IF Status(w) = "revoked" THEN revived \cup {w} ELSE revived
              \/ /\ Status(w) = "none" /\ will' = will
                 /\ standing' = standing /\ cutOff' = cutOff
                 /\ revokers' = revokers \ {r} /\ raced' = (raced \/ r \in revokers)
                 /\ revived' = revived
<1>1. w \in Will
  BY DEF Activate, TypeOK, At
<1>2. QED
  BY <1>1, EndsEffect DEF Activate, TypeOK, Status, Row

LEMMA RevokeEffect ==
    ASSUME TypeOK, NEW r \in Request, RevokeWill(r), NEW w, w = request[r].will
    PROVE  /\ w \in Will
           /\ request'[r].at = "idle"
           /\ \A q \in Request \ {r} : request'[q] = request[q]
           /\ \A v \in Will \ {w} : will'[v] = will[v]
           /\ \/ Status(w) # "none" /\ Status(w)' = "revoked"
              \/ Status(w) = "none" /\ will' = will
<1>1. w \in Will
  BY DEF RevokeWill, TypeOK, At
<1>2. QED
  BY <1>1, EndsEffect DEF RevokeWill, TypeOK, Status, Row

LEMMA DeleteEffect ==
    ASSUME TypeOK, NEW r \in Request, DeleteWill(r), NEW w, w = request[r].will
    PROVE  /\ w \in Will
           /\ request'[r].at = "idle"
           /\ \A q \in Request \ {r} : request'[q] = request[q]
           /\ \A v \in Will \ {w} : will'[v] = will[v]
           /\ Status(w)' = "none"
<1>1. w \in Will
  BY DEF DeleteWill, TypeOK, At
<1>2. QED
  BY <1>1, EndsEffect DEF DeleteWill, TypeOK, Status, NoRow

-----------------------------------------------------------------------------
(***************************************************************************)
(* Two active wills.  As long as no two activations have overlapped, at    *)
(* most one is between its two writes, no will is active while it is, and  *)
(* at most one is active otherwise.                                        *)
(***************************************************************************)
AloneInv ==
    ~overlapped =>
        /\ \A q, r \in Request : At(q, "activating") /\ At(r, "activating") => q = r
        /\ \A v, w \in Will : Status(v) = "active" /\ Status(w) = "active" => v = w
        /\ \A q \in Request, v \in Will : At(q, "activating") => Status(v) # "active"

\* A step after which no more requests are between their writes and no more wills active.
LEMMA AloneFewer ==
    ASSUME AloneInv, overlapped' = overlapped,
           \A q \in Request : At(q, "activating")' => At(q, "activating"),
           \A v \in Will : Status(v)' = "active" => Status(v) = "active"
    PROVE  AloneInv'
BY DEF AloneInv

LEMMA AloneNext == TypeOK /\ AloneInv /\ [Next]_vars => AloneInv'
<1> SUFFICES ASSUME TypeOK, AloneInv, [Next]_vars PROVE AloneInv'
  OBVIOUS
<1>1. ASSUME NEW w \in Will, NEW signed \in BOOLEAN, CreateWill(w, signed) PROVE AloneInv'
  <2>1. overlapped' = overlapped
    BY <1>1 DEF CreateWill
  <2>2. QED
    BY <1>1, <2>1, CreateEffect, AloneFewer DEF At, Status
<1>2. ASSUME NEW w \in Will, NEW row \in Row, row.status = Status(w), Edit(w, row)
      PROVE  AloneInv'
  <2>1. overlapped' = overlapped
    BY <1>2 DEF Edit
  <2>2. QED
    BY <1>2, <2>1, EditEffect, AloneFewer DEF At
<1>3. ASSUME NEW r \in Request, NEW w \in Will,
             Check(r, w) \/ CheckRevoke(r, w) \/ CheckDelete(r, w)
      PROVE  AloneInv'
  <2>1. overlapped' = overlapped
    BY <1>3 DEF Check, CheckRevoke, CheckDelete, history
  <2>2. QED
    BY <1>3, <2>1, BeginEffect, AloneFewer DEF At, Status
<1>4. ASSUME NEW r \in Request, Validate(r) PROVE AloneInv'
  <2>1. overlapped' = overlapped /\ will' = will
    BY <1>4 DEF Validate, history
  <2>2. \A q \in Request : At(q, "activating")' => At(q, "activating")
    BY <1>4, GoesEffect, EndsEffect DEF Validate, At, Step, Activating
  <2>3. QED
    BY <2>1, <2>2, AloneFewer DEF Status
<1>5. ASSUME NEW r \in Request, RevokeOthers(r) PROVE AloneInv'
  <2>1. overlapped' = (overlapped \/ \E q \in Request : At(q, "activating"))
    BY <1>5 DEF RevokeOthers
  <2>2. \A v \in Will : Status(v)' # "active"
    BY <1>5, RevokeOthersEffect DEF Status
  <2>3. ~overlapped' => \A q \in Request : At(q, "activating")' => q = r
    BY <1>5, <2>1, RevokeOthersEffect DEF At
  <2>4. QED
    BY <2>2, <2>3 DEF AloneInv
<1>6. ASSUME NEW r \in Request, Activate(r) PROVE AloneInv'
  <2>1. overlapped' = overlapped /\ At(r, "activating")
    BY <1>6 DEF Activate
  <2>2. SUFFICES ASSUME ~overlapped PROVE AloneInv'
    BY <2>1 DEF AloneInv
  <2>3. /\ \A v \in Will : Status(v) # "active"
        /\ \A q \in Request : At(q, "activating") => q = r
    BY <2>1, <2>2 DEF AloneInv
  <2>4. \A v \in Will : Status(v)' = "active" => v = request[r].will
    <3>1. \A v \in Will \ {request[r].will} : will'[v] = will[v]
      BY <1>6, ActivateEffect
    <3>2. QED
      BY <2>3, <3>1 DEF Status
  <2>5. \A q \in Request : ~At(q, "activating")'
    BY <1>6, <2>3, ActivateEffect DEF At
  <2>6. QED
    BY <2>4, <2>5 DEF AloneInv
<1>7. ASSUME NEW r \in Request, RevokeWill(r) PROVE AloneInv'
  <2>1. overlapped' = overlapped
    BY <1>7 DEF RevokeWill
  <2>2. QED
    BY <1>7, <2>1, RevokeEffect, AloneFewer DEF At, Status
<1>8. ASSUME NEW r \in Request, DeleteWill(r) PROVE AloneInv'
  <2>1. overlapped' = overlapped
    BY <1>8 DEF DeleteWill
  <2>2. QED
    BY <1>8, <2>1, DeleteEffect, AloneFewer DEF At, Status
<1>9. ASSUME NEW r \in Request, Fail(r) PROVE AloneInv'
  <2>1. overlapped' = overlapped /\ will' = will /\ Ends(r)
    BY <1>9 DEF Fail, history
  <2>2. QED
    BY <2>1, EndsEffect, AloneFewer DEF At, Status
<1>10. CASE UNCHANGED vars
  BY <1>10, AloneFewer DEF vars, At, Status
<1>11. QED
  BY <1>1, <1>2, <1>3, <1>4, <1>5, <1>6, <1>7, <1>8, <1>9, <1>10, Cases

\* Two wills of the household are active only if two activations overlapped.
THEOREM TwoActiveCorrect == Spec => []TwoActiveOnlyIfOverlapped
<1>1. Init => AloneInv
  BY DEF Init, AloneInv, At, Idle, Status, NoRow
<1>2. AloneInv => TwoActiveOnlyIfOverlapped
  BY DEF AloneInv, TwoActiveOnlyIfOverlapped
<1>3. QED
  BY <1>1, <1>2, AloneNext, TypeCorrect, PTL DEF Spec

-----------------------------------------------------------------------------
(***************************************************************************)
(* Revoked wills that come back.  A will that no two activations have been *)
(* under way for has at most one, and is a draft (or gone) as long as it   *)
(* is; a will that somebody is about to revoke is no draft.                *)
(***************************************************************************)
About(q, w) == request[q].at \in Activating /\ request[q].will = w

OnceInv ==
    /\ RevivedOnlyIfTwice
    /\ \A w \in Will \ twice :
         /\ \A q, r \in Request : About(q, w) /\ About(r, w) => q = r
         /\ \A q \in Request : About(q, w) => Status(w) \in {"draft", "none"}
    /\ \A q \in Request, w \in Will :
         At(q, "revoking") /\ request[q].will = w => Status(w) # "draft"

\* A step that begins nothing and makes no draft.
LEMMA OnceFewer ==
    ASSUME TypeOK, OnceInv, twice' = twice, revived' = revived,
           \A q \in Request, w \in Will :
              /\ About(q, w)' => About(q, w)
              /\ At(q, "revoking")' /\ request'[q].will = w
                   => At(q, "revoking") /\ request[q].will = w,
           \A w \in Will : \/ Status(w)' = Status(w)
                           \/ Status(w)' = "none"
                           \/ Status(w) = "active" /\ Status(w)' = "revoked"
    PROVE  OnceInv'
BY DEF OnceInv, RevivedOnlyIfTwice

LEMMA OnceCreate ==
    ASSUME TypeOK, OnceInv, NEW w \in Will, NEW signed \in BOOLEAN, CreateWill(w, signed)
    PROVE  OnceInv'
<1>1. /\ twice' = twice \ {w} /\ revived' = revived \ {w}
      /\ \A q \in Request : request'[q] = request[q] /\ request[q].will # w
      /\ \A v \in Will \ {w} : Status(v)' = Status(v)
  BY CreateEffect DEF CreateWill, Status
<1>2. RevivedOnlyIfTwice'
  BY <1>1 DEF OnceInv, RevivedOnlyIfTwice
<1>3. \A q \in Request, v \in Will : About(q, v)' => About(q, v) /\ v # w
  BY <1>1 DEF About
<1>4. \A v \in Will \ twice' :
         /\ \A q, r \in Request : About(q, v)' /\ About(r, v)' => q = r
         /\ \A q \in Request : About(q, v)' => Status(v)' \in {"draft", "none"}
  BY <1>1, <1>3 DEF OnceInv
<1>5. \A q \in Request, v \in Will :
         At(q, "revoking")' /\ request'[q].will = v => Status(v)' # "draft"
  BY <1>1 DEF OnceInv, At
<1>6. QED
  BY <1>2, <1>4, <1>5 DEF OnceInv

LEMMA OnceBegin ==
    ASSUME TypeOK, OnceInv, NEW r \in Request, NEW w \in Will,
           Check(r, w) \/ CheckRevoke(r, w) \/ CheckDelete(r, w)
    PROVE  OnceInv'
<1>1. /\ \A v \in Will : Status(v)' = Status(v)
      /\ \A q \in Request \ {r} : request'[q] = request[q]
      /\ request'[r].will = w
      /\ revived' = revived
  BY BeginEffect DEF Status, Check, CheckRevoke, CheckDelete, history
<1>2. CASE Check(r, w)
  <2>1. /\ Status(w) = "draft" /\ request'[r].at = "checked"
        /\ twice' = IF Others(r, w) # {} THEN twice \cup {w} ELSE twice
    BY <1>2, BeginEffect DEF Check, CheckRevoke, CheckDelete, TypeOK
  <2>2. RevivedOnlyIfTwice'
    BY <1>1, <2>1 DEF OnceInv, RevivedOnlyIfTwice
  <2>3. \A q \in Request, v \in Will : About(q, v)' => About(q, v) \/ (q = r /\ v = w)
    BY <1>1 DEF About
  <2>4. w \notin twice' => \A q \in Request \ {r} : ~About(q, w)
    BY <2>1 DEF About, Others
  <2>5. \A v \in Will \ twice' :
           /\ \A p, q \in Request : About(p, v)' /\ About(q, v)' => p = q
           /\ \A q \in Request : About(q, v)' => Status(v)' \in {"draft", "none"}
    BY <1>1, <2>1, <2>3, <2>4 DEF OnceInv
  <2>6. \A q \in Request, v \in Will :
           At(q, "revoking")' /\ request'[q].will = v => Status(v)' # "draft"
    BY <1>1, <2>1 DEF OnceInv, At
  <2>7. QED
    BY <2>2, <2>5, <2>6 DEF OnceInv
<1>3. CASE CheckRevoke(r, w) \/ CheckDelete(r, w)
  <2>1. /\ twice' = twice
        /\ \/ request'[r].at = "revoking" /\ Status(w) = "active"
           \/ request'[r].at = "deleting"
    BY <1>3 DEF CheckRevoke, CheckDelete, history, TypeOK
  <2>2. \A q \in Request, v \in Will : About(q, v)' => About(q, v)
    BY <1>1, <2>1 DEF About, Activating
  <2>3. \A q \in Request, v \in Will :
           At(q, "revoking")' /\ request'[q].will = v => Status(v)' # "draft"
    BY <1>1, <2>1 DEF OnceInv, At
  <2>4. QED
    BY <1>1, <2>1, <2>2, <2>3 DEF OnceInv, RevivedOnlyIfTwice
<1>4. QED
  BY <1>2, <1>3

LEMMA OnceActivation ==
    ASSUME TypeOK, OnceInv, NEW r \in Request,
           Validate(r) \/ RevokeOthers(r) \/ Activate(r)
    PROVE  OnceInv'
<1>1. CASE Validate(r)
  <2>1. /\ twice' = twice /\ revived' = revived /\ will' = will
        /\ request[r].at \in Activating
    BY <1>1 DEF Validate, history, At, Activating
  <2>2. /\ \A q \in Request \ {r} : request'[q] = request[q]
        /\ \/ request'[r].at = "idle"
           \/ request'[r].at = "valid" /\ request'[r].will = request[r].will
    BY <1>1, GoesEffect, EndsEffect DEF Validate, Step, Activating
  <2>3. \A q \in Request, w \in Will :
           /\ About(q, w)' => About(q, w)
           /\ At(q, "revoking")' /\ request'[q].will = w
                => At(q, "revoking") /\ request[q].will = w
    BY <2>1, <2>2 DEF About, At, Activating
  <2>4. QED
    BY <2>1, <2>3, OnceFewer DEF Status
<1>2. CASE RevokeOthers(r)
  <2>1. /\ twice' = twice /\ revived' = revived
        /\ request[r].at \in Activating
    BY <1>2 DEF RevokeOthers, At, Activating
  <2>2. \A q \in Request, w \in Will :
           /\ About(q, w)' => About(q, w)
           /\ At(q, "revoking")' /\ request'[q].will = w
                => At(q, "revoking") /\ request[q].will = w
    BY <1>2, <2>1, RevokeOthersEffect DEF About, At, Activating
  <2>3. \A w \in Will : \/ Status(w)' = Status(w)
                        \/ Status(w) = "active" /\ Status(w)' = "revoked"
    BY <1>2, RevokeOthersEffect DEF Status
  <2>4. QED
    BY <2>1, <2>2, <2>3, OnceFewer
<1>3. CASE Activate(r)
  <2>0. PICK w \in Will : w = request[r].will
    BY <1>3 DEF Activate, TypeOK, At
  <2>1. /\ twice' = twice /\ About(r, w)
        /\ request'[r].at = "idle"
        /\ \A q \in Request \ {r} : request'[q] = request[q]
        /\ \A v \in Will \ {w} : Status(v)' = Status(v)
    BY <1>3, <2>0, ActivateEffect DEF Activate, Status, About, At, Activating
  <2>2. \A q \in Request, v \in Will :
           /\ About(q, v)' => About(q, v) /\ q # r
           /\ At(q, "revoking")' /\ request'[q].will = v
                => At(q, "revoking") /\ request[q].will = v
    BY <2>1 DEF About, At, Activating
  <2>3. CASE w \in twice
    <3>1. revived' \subseteq revived \cup {w}
      BY <1>3, <2>0, ActivateEffect
    <3>2. Status(w)' = "active" \/ Status(w)' = Status(w)
      BY <1>3, <2>0, ActivateEffect DEF Status
    <3>3. RevivedOnlyIfTwice'
      BY <2>1, <2>3, <3>1 DEF OnceInv, RevivedOnlyIfTwice
    <3>4. \A v \in Will \ twice' :
             /\ \A p, q \in Request : About(p, v)' /\ About(q, v)' => p = q
             /\ \A q \in Request : About(q, v)' => Status(v)' \in {"draft", "none"}
      BY <2>1, <2>2, <2>3 DEF OnceInv
    <3>5. \A q \in Request, v \in Will :
             At(q, "revoking")' /\ request'[q].will = v => Status(v)' # "draft"
      BY <2>1, <2>2, <3>2 DEF OnceInv
    <3>6. QED
      BY <3>3, <3>4, <3>5 DEF OnceInv
  <2>4. CASE w \notin twice
    <3>1. /\ Status(w) \in {"draft", "none"}
          /\ \A q \in Request : About(q, w) => q = r
      BY <2>1, <2>4 DEF OnceInv
    <3>2. revived' = revived /\ (Status(w)' = "active" \/ Status(w)' = Status(w))
      BY <1>3, <2>0, <3>1, ActivateEffect DEF Status
    <3>3. \A q \in Request : ~About(q, w)'
      BY <2>1, <2>2, <3>1
    <3>4. \A v \in Will \ twice' :
             /\ \A p, q \in Request : About(p, v)' /\ About(q, v)' => p = q
             /\ \A q \in Request : About(q, v)' => Status(v)' \in {"draft", "none"}
      BY <2>1, <2>2, <3>3 DEF OnceInv
    <3>5. \A q \in Request, v \in Will :
             At(q, "revoking")' /\ request'[q].will = v => Status(v)' # "draft"
      BY <2>1, <2>2, <3>2 DEF OnceInv
    <3>6. RevivedOnlyIfTwice'
      BY <2>1, <3>2 DEF OnceInv, RevivedOnlyIfTwice
    <3>7. QED
      BY <3>4, <3>5, <3>6 DEF OnceInv
  <2>5. QED
    BY <2>3, <2>4
<1>4. QED
  BY <1>1, <1>2, <1>3

LEMMA OnceEnding ==
    ASSUME TypeOK, OnceInv, NEW r \in Request, RevokeWill(r) \/ DeleteWill(r) \/ Fail(r)
    PROVE  OnceInv'
<1>1. /\ twice' = twice /\ revived' = revived
      /\ request'[r].at = "idle"
      /\ \A q \in Request \ {r} : request'[q] = request[q]
  BY EndsEffect DEF RevokeWill, DeleteWill, Fail, history
<1>2. \A q \in Request, w \in Will :
         /\ About(q, w)' => About(q, w)
         /\ At(q, "revoking")' /\ request'[q].will = w
              => At(q, "revoking") /\ request[q].will = w
  BY <1>1 DEF About, At, Activating
<1>3. CASE DeleteWill(r) \/ Fail(r)
  <2>1. \A w \in Will : Status(w)' = Status(w) \/ Status(w)' = "none"
    BY <1>3, DeleteEffect DEF Fail, Status
  <2>2. QED
    BY <1>1, <1>2, <2>1, OnceFewer
<1>4. CASE RevokeWill(r)
  <2>0. PICK w \in Will : w = request[r].will
    BY <1>4 DEF RevokeWill, TypeOK, At
  <2>1. /\ At(r, "revoking")
        /\ \A v \in Will \ {w} : Status(v)' = Status(v)
        /\ \/ Status(w) # "none" /\ Status(w)' = "revoked"
           \/ Status(w) = "none" /\ Status(w)' = "none"
    BY <1>4, <2>0, RevokeEffect DEF RevokeWill, Status
  <2>2. Status(w) \in {"none", "active", "revoked"}
    BY <2>0, <2>1 DEF OnceInv, TypeOK, Row, Status
  <2>3. QED
    BY <1>1, <1>2, <2>1, <2>2, OnceFewer
<1>5. QED
  BY <1>3, <1>4

LEMMA OnceNext == TypeOK /\ OnceInv /\ [Next]_vars => OnceInv'
<1> SUFFICES ASSUME TypeOK, OnceInv, [Next]_vars PROVE OnceInv'
  OBVIOUS
<1>1. ASSUME NEW w \in Will, NEW row \in Row, row.status = Status(w), Edit(w, row)
      PROVE  OnceInv'
  <2>1. twice' = twice /\ revived' = revived
    BY <1>1 DEF Edit
  <2>2. QED
    BY <1>1, <2>1, EditEffect, OnceFewer DEF About, At
<1>2. CASE UNCHANGED vars
  BY <1>2, OnceFewer DEF vars, About, At, Status
<1>3. QED
  BY <1>1, <1>2, OnceCreate, OnceBegin, OnceActivation, OnceEnding, Cases

\* A revoked will comes back only if two activations of it were under way at once.
THEOREM RevivedCorrect == Spec => []RevivedOnlyIfTwice
<1>1. Init => OnceInv
  BY DEF Init, OnceInv, RevivedOnlyIfTwice, About, At, Idle, Activating
<1>2. OnceInv => RevivedOnlyIfTwice
  BY DEF OnceInv
<1>3. QED
  BY <1>1, <1>2, OnceNext, TypeCorrect, PTL DEF Spec

-----------------------------------------------------------------------------
(***************************************************************************)
(* A household that loses its will.  The will that stands is active, or    *)
(* has been lost to one of the named causes, or an activation that has     *)
(* revoked it is still to write its own.                                   *)
(***************************************************************************)
KeptInv ==
    /\ \A q \in revokers : At(q, "activating")
    /\ \/ standing = NoWill
       \/ standing \in Will /\ Status(standing) = "active"
       \/ cutOff \/ raced
       \/ revokers # {}

\* A step that takes no request between its writes away and does not end the will that
\* stands.
LEMMA KeptQuiet ==
    ASSUME TypeOK, KeptInv, UNCHANGED keeping,
           \A q \in Request : At(q, "activating") => At(q, "activating")',
           \A w \in Will : standing = w /\ Status(w) = "active" => Status(w)' = "active"
    PROVE  KeptInv'
<1>1. UNCHANGED <<standing, revokers, cutOff, raced>>
  BY DEF keeping
<1>2. \A q \in revokers' : At(q, "activating")'
  BY <1>1 DEF KeptInv, TypeOK
<1>3. CASE standing \in Will /\ Status(standing) = "active"
  <2>1. PICK w \in Will : w = standing
    BY <1>3
  <2>2. Status(w)' = "active" /\ standing' = w
    BY <1>1, <1>3, <2>1
  <2>3. QED
    BY <1>2, <2>2 DEF KeptInv, Status
<1>4. CASE ~(standing \in Will /\ Status(standing) = "active")
  BY <1>1, <1>2, <1>4 DEF KeptInv
<1>5. QED
  BY <1>3, <1>4

\* No will stands any more.
LEMMA KeptNone == Stands(NoWill) => KeptInv'
BY DEF Stands, KeptInv

\* A request ends; if it had revoked the will that stands, the loss has its cause.
LEMMA KeptLeaves ==
    ASSUME TypeOK, KeptInv, NEW r \in Request,
           will' = will, standing' = standing, revokers' = revokers \ {r},
           \A q \in Request \ {r} : request'[q] = request[q],
           cutOff => cutOff', raced => raced', r \in revokers => cutOff' \/ raced'
    PROVE  KeptInv'
<1>1. \A q \in revokers' : At(q, "activating")'
  BY DEF KeptInv, At, TypeOK
<1>2. revokers # {} => r \in revokers \/ revokers' # {}
  OBVIOUS
<1>3. QED
  BY <1>1, <1>2 DEF KeptInv, Status

LEMMA KeptEdits ==
    ASSUME TypeOK, KeptInv, NEW w \in Will,
           \/ \E signed \in BOOLEAN : CreateWill(w, signed)
           \/ \E row \in Row : row.status = Status(w) /\ Edit(w, row)
    PROVE  KeptInv'
<1>1. ASSUME NEW signed \in BOOLEAN, CreateWill(w, signed) PROVE KeptInv'
  <2>1. CASE standing = w
    BY <1>1, <2>1, KeptNone DEF CreateWill
  <2>2. CASE standing # w
    <3>1. UNCHANGED keeping
      BY <1>1, <2>2 DEF CreateWill
    <3>2. request' = request /\ \A v \in Will \ {w} : Status(v)' = Status(v)
      BY <1>1, CreateEffect DEF Status
    <3>3. QED
      BY <2>2, <3>1, <3>2, KeptQuiet DEF At
  <2>3. QED
    BY <2>1, <2>2
<1>2. ASSUME NEW row \in Row, row.status = Status(w), Edit(w, row) PROVE KeptInv'
  <2>1. UNCHANGED keeping
    BY <1>2 DEF Edit
  <2>2. request' = request /\ \A v \in Will : Status(v)' = Status(v)
    BY <1>2, EditEffect
  <2>3. QED
    BY <2>1, <2>2, KeptQuiet DEF At
<1>3. QED
  BY <1>1, <1>2

LEMMA KeptBegin ==
    ASSUME TypeOK, KeptInv, NEW r \in Request, NEW w \in Will,
           Check(r, w) \/ CheckRevoke(r, w) \/ CheckDelete(r, w)
    PROVE  KeptInv'
<1>1. UNCHANGED keeping /\ At(r, "idle")
  BY DEF Check, CheckRevoke, CheckDelete, history
<1>2. /\ \A v \in Will : Status(v)' = Status(v)
      /\ \A q \in Request \ {r} : request'[q] = request[q]
  BY BeginEffect DEF Status
<1>3. \A q \in Request : At(q, "activating") => At(q, "activating")'
  BY <1>1, <1>2 DEF At
<1>4. QED
  BY <1>1, <1>2, <1>3, KeptQuiet

LEMMA KeptActivation ==
    ASSUME TypeOK, KeptInv, NEW r \in Request,
           Validate(r) \/ RevokeOthers(r) \/ Activate(r)
    PROVE  KeptInv'
<1>1. CASE Validate(r)
  <2>1. UNCHANGED keeping /\ will' = will /\ At(r, "checked")
    BY <1>1 DEF Validate, history
  <2>2. \A q \in Request \ {r} : request'[q] = request[q]
    BY <1>1, GoesEffect, EndsEffect DEF Validate, Step, Activating
  <2>3. \A q \in Request : At(q, "activating") => At(q, "activating")'
    BY <2>1, <2>2 DEF At
  <2>4. QED
    BY <2>1, <2>3, KeptQuiet DEF Status
<1>2. CASE RevokeOthers(r)
  <2>1. /\ standing' = standing /\ cutOff' = cutOff /\ raced' = raced
        /\ revokers' = IF \E w \in Will : w = standing /\ Status(w) = "active"
                          THEN revokers \cup {r} ELSE revokers
    BY <1>2 DEF RevokeOthers
  <2>2. \A q \in revokers' : At(q, "activating")'
    BY <1>2, <2>1, RevokeOthersEffect DEF At, KeptInv, TypeOK
  <2>3. CASE standing \in Will /\ Status(standing) = "active"
    <3>1. r \in revokers'
      BY <2>1, <2>3
    <3>2. QED
      BY <2>2, <3>1 DEF KeptInv
  <2>4. CASE ~(standing \in Will /\ Status(standing) = "active")
    <3>1. revokers \subseteq revokers'
      BY <2>1
    <3>2. QED
      BY <2>1, <2>2, <2>4, <3>1 DEF KeptInv
  <2>5. QED
    BY <2>3, <2>4
<1>3. CASE Activate(r)
  <2>0. PICK w \in Will : w = request[r].will
    BY <1>3 DEF Activate, TypeOK, At
  <2>1. CASE Stands(w) /\ Status(w)' = "active"
    <3>1. standing' = w /\ revokers' = {}
      BY <2>1 DEF Stands
    <3>2. QED
      BY <2>1, <3>1 DEF KeptInv, Status
  <2>2. CASE /\ will' = will /\ standing' = standing /\ cutOff' = cutOff
             /\ revokers' = revokers \ {r} /\ raced' = (raced \/ r \in revokers)
    <3>1. \A q \in Request \ {r} : request'[q] = request[q]
      BY <1>3, <2>0, ActivateEffect
    <3>2. QED
      BY <2>2, <3>1, KeptLeaves
  <2>3. QED
    BY <1>3, <2>0, <2>1, <2>2, ActivateEffect
<1>4. QED
  BY <1>1, <1>2, <1>3

LEMMA KeptEnding ==
    ASSUME TypeOK, KeptInv, NEW r \in Request, RevokeWill(r) \/ DeleteWill(r) \/ Fail(r)
    PROVE  KeptInv'
<1>1. \A q \in Request \ {r} : request'[q] = request[q]
  BY EndsEffect DEF RevokeWill, DeleteWill, Fail
<1>2. CASE Fail(r)
  BY <1>1, <1>2, KeptLeaves DEF Fail
<1>3. CASE RevokeWill(r)
  <2>0. PICK w \in Will : w = request[r].will
    BY <1>3 DEF RevokeWill, TypeOK, At
  <2>1. CASE standing = w
    BY <1>3, <2>0, <2>1, KeptNone DEF RevokeWill
  <2>2. CASE standing # w
    <3>1. UNCHANGED keeping /\ At(r, "revoking")
      BY <1>3, <2>0, <2>2 DEF RevokeWill
    <3>2. \A v \in Will \ {w} : Status(v)' = Status(v)
      BY <1>3, <2>0, RevokeEffect DEF Status
    <3>3. \A q \in Request : At(q, "activating") => At(q, "activating")'
      BY <1>1, <3>1 DEF At
    <3>4. QED
      BY <2>2, <3>1, <3>2, <3>3, KeptQuiet
  <2>3. QED
    BY <2>1, <2>2
<1>4. CASE DeleteWill(r)
  <2>0. PICK w \in Will : w = request[r].will
    BY <1>4 DEF DeleteWill, TypeOK, At
  <2>1. /\ standing' = standing /\ revokers' = revokers /\ cutOff' = cutOff
        /\ raced' = (raced \/ standing = w) /\ At(r, "deleting")
    BY <1>4, <2>0 DEF DeleteWill
  <2>2. \A q \in Request : At(q, "activating") => At(q, "activating")'
    BY <1>1, <2>1 DEF At
  <2>3. CASE standing = w
    <3>1. raced'
      BY <2>1, <2>3
    <3>2. \A q \in revokers' : At(q, "activating")'
      BY <2>1, <2>2 DEF KeptInv, TypeOK
    <3>3. QED
      BY <3>1, <3>2 DEF KeptInv
  <2>4. CASE standing # w
    <3>1. UNCHANGED keeping
      BY <2>1, <2>4 DEF keeping, TypeOK
    <3>2. \A v \in Will \ {w} : Status(v)' = Status(v)
      BY <1>4, <2>0, DeleteEffect DEF Status
    <3>3. QED
      BY <2>2, <2>4, <3>1, <3>2, KeptQuiet
  <2>5. QED
    BY <2>3, <2>4
<1>5. QED
  BY <1>2, <1>3, <1>4

LEMMA KeptNext == TypeOK /\ KeptInv /\ [Next]_vars => KeptInv'
<1> SUFFICES ASSUME TypeOK, KeptInv, [Next]_vars PROVE KeptInv'
  OBVIOUS
<1>1. CASE UNCHANGED vars
  BY <1>1, KeptQuiet DEF vars, keeping, At, Status
<1>2. QED
  BY <1>1, KeptEdits, KeptBegin, KeptActivation, KeptEnding, Cases

\* A household loses the will it activated last, and nobody revoked, only if an
\* activation that had revoked it failed half way, or a deletion raced with it or with
\* such an activation.
THEOREM KeptCorrect == Spec => []LostOnlyIfDisturbed
<1>1. Init => KeptInv
  BY DEF Init, KeptInv
<1>2. TypeOK /\ KeptInv => LostOnlyIfDisturbed
  BY DEF KeptInv, LostOnlyIfDisturbed, At, Activating, TypeOK
<1>3. QED
  BY <1>1, <1>2, KeptNext, TypeCorrect, PTL DEF Spec

-----------------------------------------------------------------------------
(***************************************************************************)
(* An active will is complete.  What an activation has read of a will that *)
(* exists is still so, as long as the will was not edited since; a will    *)
(* that has beneficiaries whose shares do not fail to add up is balanced.  *)
(***************************************************************************)
ReadInv ==
    \A w \in Will \ edited :
        /\ Status(w) = "active" => Complete(w)
        /\ \A q \in Request : About(q, w) /\ Status(w) # "none" =>
              /\ Ready(w)
              /\ request[q].at # "checked" => Complete(w)

\* A step that edits nothing: rows are unchanged, gone, or revoked.
LEMMA ReadFewer ==
    ASSUME TypeOK, ReadInv, edited' = edited,
           \A w \in Will : \/ will'[w] = will[w]
                           \/ Status(w)' = "none"
                           \/ /\ Status(w) # "none" /\ Status(w)' = "revoked"
                              /\ will'[w] = [will[w] EXCEPT !.status = "revoked"],
           \A q \in Request, w \in Will :
              About(q, w)' => About(q, w) /\ request'[q].at = request[q].at
    PROVE  ReadInv'
<1> SUFFICES ASSUME NEW w \in Will, w \notin edited
             PROVE  /\ Status(w)' = "active" => Complete(w)'
                    /\ \A q \in Request : About(q, w)' /\ Status(w)' # "none" =>
                          /\ Ready(w)'
                          /\ request'[q].at # "checked" => Complete(w)'
  BY DEF ReadInv
<1>1. CASE will'[w] = will[w]
  BY <1>1 DEF ReadInv, Status, Complete, Ready
<1>2. CASE Status(w)' = "none"
  BY <1>2
<1>3. CASE /\ Status(w) # "none" /\ Status(w)' = "revoked"
           /\ will'[w] = [will[w] EXCEPT !.status = "revoked"]
  <2>1. (Complete(w) => Complete(w)') /\ (Ready(w) => Ready(w)')
    BY <1>3 DEF Complete, Ready, TypeOK, Row
  <2>2. QED
    BY <1>3, <2>1 DEF ReadInv
<1>4. QED
  BY <1>1, <1>2, <1>3

LEMMA ReadEdits ==
    ASSUME TypeOK, ReadInv, NEW w \in Will,
           \/ \E signed \in BOOLEAN : CreateWill(w, signed)
           \/ \E row \in Row : row.status = Status(w) /\ Edit(w, row)
    PROVE  ReadInv'
<1>1. ASSUME NEW signed \in BOOLEAN, CreateWill(w, signed) PROVE ReadInv'
  <2>1. /\ edited' = edited \ {w} /\ request' = request
        /\ \A v \in Will \ {w} : will'[v] = will[v]
        /\ Status(w)' = "draft"
        /\ \A q \in Request : request[q].will # w
    BY <1>1, CreateEffect DEF CreateWill
  <2>2. ASSUME NEW v \in Will, v \notin edited', v # w
        PROVE  /\ Status(v)' = "active" => Complete(v)'
               /\ \A q \in Request : About(q, v)' /\ Status(v)' # "none" =>
                     /\ Ready(v)'
                     /\ request'[q].at # "checked" => Complete(v)'
    BY <2>1, <2>2 DEF ReadInv, Status, Complete, Ready, About
  <2>3. QED
    BY <2>1, <2>2 DEF ReadInv, About
<1>2. ASSUME NEW row \in Row, row.status = Status(w), Edit(w, row) PROVE ReadInv'
  <2>1. /\ edited' = (IF ReliedOn(w) THEN edited \cup {w} ELSE edited)
        /\ request' = request
        /\ \A v \in Will \ {w} : will'[v] = will[v]
        /\ Status(w)' = Status(w)
    BY <1>2, EditEffect DEF Edit
  <2>2. ASSUME NEW v \in Will, v \notin edited', v # w
        PROVE  /\ Status(v)' = "active" => Complete(v)'
               /\ \A q \in Request : About(q, v)' /\ Status(v)' # "none" =>
                     /\ Ready(v)'
                     /\ request'[q].at # "checked" => Complete(v)'
    <3>1. v \notin edited
      BY <2>1, <2>2
    <3>2. QED
      BY <2>1, <2>2, <3>1 DEF ReadInv, Status, Complete, Ready, About
  <2>3. w \notin edited' => ~(Status(w)' = "active") /\ \A q \in Request : ~About(q, w)'
    BY <2>1 DEF ReliedOn, UnderWay, About
  <2>4. QED
    BY <2>2, <2>3 DEF ReadInv
<1>3. QED
  BY <1>1, <1>2

LEMMA ReadBegin ==
    ASSUME TypeOK, ReadInv, NEW r \in Request, NEW w \in Will,
           Check(r, w) \/ CheckRevoke(r, w) \/ CheckDelete(r, w)
    PROVE  ReadInv'
<1>1. /\ will' = will
      /\ \A q \in Request \ {r} : request'[q] = request[q]
      /\ request'[r].will = w
  BY BeginEffect
<1>2. CASE CheckRevoke(r, w) \/ CheckDelete(r, w)
  <2>1. edited' = edited
    BY <1>2 DEF CheckRevoke, CheckDelete, history
  <2>2. request'[r].at \notin Activating
    BY <1>2 DEF CheckRevoke, CheckDelete, TypeOK, Activating
  <2>3. QED
    BY <1>1, <2>1, <2>2, ReadFewer DEF About
<1>3. CASE Check(r, w)
  <2>1. /\ Status(w) = "draft" /\ Ready(w) /\ request'[r].at = "checked"
        /\ edited' = IF Others(r, w) # {} THEN edited ELSE edited \ {w}
    BY <1>3 DEF Check, TypeOK
  <2>2. ASSUME NEW v \in Will, v \notin edited', v # w
        PROVE  /\ Status(v)' = "active" => Complete(v)'
               /\ \A q \in Request : About(q, v)' /\ Status(v)' # "none" =>
                     /\ Ready(v)'
                     /\ request'[q].at # "checked" => Complete(v)'
    <3>1. v \notin edited /\ \A q \in Request : About(q, v)' => About(q, v) /\ q # r
      BY <1>1, <2>1, <2>2 DEF About
    <3>2. QED
      BY <1>1, <3>1 DEF ReadInv, Status, Complete, Ready
  <2>3. ASSUME w \notin edited', NEW q \in Request, About(q, w)'
        PROVE  Ready(w)' /\ (request'[q].at # "checked" => Complete(w)')
    <3>1. Ready(w)'
      BY <1>1, <2>1 DEF Ready
    <3>2. CASE q = r
      BY <2>1, <3>1, <3>2
    <3>3. CASE q # r
      <4>1. About(q, w) /\ request'[q] = request[q]
        BY <1>1, <2>3, <3>3 DEF About
      <4>2. Others(r, w) # {}
        BY <3>3, <4>1 DEF Others, About
      <4>3. w \notin edited
        BY <2>1, <2>3, <4>2
      <4>4. QED
        BY <1>1, <2>1, <3>1, <4>1, <4>3 DEF ReadInv, Complete
    <3>4. QED
      BY <3>2, <3>3
  <2>4. Status(w)' # "active"
    BY <1>1, <2>1 DEF Status
  <2>5. QED
    BY <2>2, <2>3, <2>4 DEF ReadInv
<1>4. QED
  BY <1>2, <1>3

LEMMA ReadActivation ==
    ASSUME TypeOK, ReadInv, NEW r \in Request,
           Validate(r) \/ RevokeOthers(r) \/ Activate(r)
    PROVE  ReadInv'
<1>0. PICK w \in Will : w = request[r].will
  BY DEF Validate, RevokeOthers, Activate, TypeOK, At
<1>1. CASE Validate(r)
  <2>1. will' = will /\ edited' = edited /\ At(r, "checked")
    BY <1>1 DEF Validate, history
  <2>2. /\ \A q \in Request \ {r} : request'[q] = request[q]
        /\ \/ request'[r].at = "idle"
           \/ /\ request'[r].at = "valid" /\ request'[r].will = w
              /\ will[w].shares # "off"
    BY <1>0, <1>1, GoesEffect, EndsEffect DEF Validate, Step, Activating
  <2>3. ASSUME NEW v \in Will, v \notin edited
        PROVE  /\ Status(v)' = "active" => Complete(v)'
               /\ \A q \in Request : About(q, v)' /\ Status(v)' # "none" =>
                     /\ Ready(v)'
                     /\ request'[q].at # "checked" => Complete(v)'
    <3>1. Status(v)' = "active" => Complete(v)'
      BY <2>1, <2>3 DEF ReadInv, Status, Complete
    <3>2. ASSUME NEW q \in Request, About(q, v)', Status(v)' # "none"
          PROVE  Ready(v)' /\ (request'[q].at # "checked" => Complete(v)')
      <4>1. CASE q # r
        BY <2>1, <2>2, <2>3, <3>2, <4>1 DEF ReadInv, Status, Complete, Ready, About
      <4>2. CASE q = r
        <5>1. v = w /\ About(r, v) /\ will[v].shares # "off"
          BY <1>0, <2>1, <2>2, <3>2, <4>2 DEF About, At, Activating
        <5>2. Ready(v) /\ will[v].shares \in Shares
          BY <2>1, <2>3, <3>2, <5>1 DEF ReadInv, Status, TypeOK, Row
        <5>3. Complete(v)
          BY <5>1, <5>2 DEF Ready, Complete, Shares
        <5>4. QED
          BY <2>1, <5>2, <5>3 DEF Ready, Complete
      <4>3. QED
        BY <4>1, <4>2
    <3>3. QED
      BY <3>1, <3>2
  <2>4. QED
    BY <2>1, <2>3 DEF ReadInv
<1>2. CASE RevokeOthers(r)
  <2>1. edited' = edited /\ At(r, "valid")
    BY <1>2 DEF RevokeOthers
  <2>2. \A v \in Will : \/ will'[v] = will[v]
                        \/ Status(v) # "none" /\ will'[v] = [will[v] EXCEPT !.status = "revoked"]
    BY <1>2 DEF RevokeOthers, Revoked, Status, TypeOK
  <2>3. /\ request'[r].at = "activating" /\ request'[r].will = request[r].will
        /\ \A q \in Request \ {r} : request'[q] = request[q]
    BY <1>2, RevokeOthersEffect
  <2>4. \A v \in Will : \/ will'[v] = will[v]
                        \/ /\ (Complete(v) => Complete(v)') /\ (Ready(v) => Ready(v)')
                           /\ Status(v) # "none" /\ Status(v)' = "revoked"
    <3> SUFFICES ASSUME NEW v \in Will,
                        Status(v) # "none" /\ will'[v] = [will[v] EXCEPT !.status = "revoked"]
                 PROVE  /\ (Complete(v) => Complete(v)') /\ (Ready(v) => Ready(v)')
                        /\ Status(v) # "none" /\ Status(v)' = "revoked"
      BY <2>2
    <3>1. will[v] \in Row
      BY DEF TypeOK
    <3>2. QED
      BY <3>1 DEF Complete, Ready, Status, Row
  <2>5. \A q \in Request, v \in Will :
           About(q, v)' => About(q, v) /\ (request'[q].at # "checked" => request[q].at # "checked")
    BY <2>1, <2>3 DEF About, At, Activating
  <2>6. ASSUME NEW v \in Will, v \notin edited
        PROVE  /\ Status(v)' = "active" => Complete(v)'
               /\ \A q \in Request : About(q, v)' /\ Status(v)' # "none" =>
                     /\ Ready(v)'
                     /\ request'[q].at # "checked" => Complete(v)'
    <3>1. CASE will'[v] = will[v]
      BY <2>5, <2>6, <3>1 DEF ReadInv, Status, Complete, Ready
    <3>2. CASE /\ (Complete(v) => Complete(v)') /\ (Ready(v) => Ready(v)')
               /\ Status(v) # "none" /\ Status(v)' = "revoked"
      BY <2>5, <2>6, <3>2 DEF ReadInv
    <3>3. QED
      BY <2>4, <3>1, <3>2
  <2>7. QED
    BY <2>1, <2>6 DEF ReadInv
<1>3. CASE Activate(r)
  <2>1. /\ edited' = edited /\ About(r, w) /\ request[r].at # "checked"
    BY <1>0, <1>3 DEF Activate, About, At, Activating
  <2>2. /\ request'[r].at = "idle"
        /\ \A q \in Request \ {r} : request'[q] = request[q]
        /\ \A v \in Will \ {w} : will'[v] = will[v]
        /\ \/ Status(w) # "none" /\ will'[w] = [will[w] EXCEPT !.status = "active"]
           \/ will'[w] = will[w]
    BY <1>0, <1>3, ActivateEffect
  <2>3. \A q \in Request, v \in Will :
           About(q, v)' => About(q, v) /\ request'[q].at = request[q].at
    BY <2>2 DEF About, Activating
  <2>4. CASE will'[w] = will[w]
    BY <2>1, <2>2, <2>3, <2>4, ReadFewer
  <2>5. CASE Status(w) # "none" /\ will'[w] = [will[w] EXCEPT !.status = "active"]
    <3>1. w \notin edited => Complete(w)
      BY <2>1, <2>5 DEF ReadInv
    <3>2. w \notin edited => Complete(w)' /\ Ready(w)'
      BY <2>5, <3>1 DEF Complete, Ready, Shares, TypeOK, Row
    <3>3. ASSUME NEW v \in Will, v \notin edited, v # w
          PROVE  /\ Status(v)' = "active" => Complete(v)'
                 /\ \A q \in Request : About(q, v)' /\ Status(v)' # "none" =>
                       /\ Ready(v)'
                       /\ request'[q].at # "checked" => Complete(v)'
      BY <2>2, <2>3, <3>3 DEF ReadInv, Status, Complete, Ready
    <3>4. QED
      BY <2>1, <3>2, <3>3 DEF ReadInv
  <2>6. QED
    BY <2>2, <2>4, <2>5
<1>4. QED
  BY <1>1, <1>2, <1>3

LEMMA ReadEnding ==
    ASSUME TypeOK, ReadInv, NEW r \in Request, RevokeWill(r) \/ DeleteWill(r) \/ Fail(r)
    PROVE  ReadInv'
<1>1. /\ request'[r].at = "idle" /\ edited' = edited
      /\ \A q \in Request \ {r} : request'[q] = request[q]
  BY EndsEffect DEF RevokeWill, DeleteWill, Fail, history
<1>2. \A q \in Request, v \in Will :
         About(q, v)' => About(q, v) /\ request'[q].at = request[q].at
  BY <1>1 DEF About, Activating
<1>3. \A w \in Will : \/ will'[w] = will[w]
                      \/ Status(w)' = "none"
                      \/ /\ Status(w) # "none" /\ Status(w)' = "revoked"
                         /\ will'[w] = [will[w] EXCEPT !.status = "revoked"]
  <2>1. CASE Fail(r)
    BY <2>1 DEF Fail
  <2>2. CASE DeleteWill(r)
    BY <2>2, DeleteEffect
  <2>3. CASE RevokeWill(r)
    BY <2>3 DEF RevokeWill, TypeOK, Row, Status
  <2>4. QED
    BY <2>1, <2>2, <2>3
<1>4. QED
  BY <1>1, <1>2, <1>3, ReadFewer

LEMMA ReadNext == TypeOK /\ ReadInv /\ [Next]_vars => ReadInv'
<1> SUFFICES ASSUME TypeOK, ReadInv, [Next]_vars PROVE ReadInv'
  OBVIOUS
<1>1. CASE UNCHANGED vars
  BY <1>1, ReadFewer DEF vars, About
<1>2. QED
  BY <1>1, ReadEdits, ReadBegin, ReadActivation, ReadEnding, Cases

\* An active will lacks what activation asks for only if it was edited since it was read.
THEOREM CompleteCorrect == Spec => []IncompleteOnlyIfEdited
<1>1. Init => ReadInv
  <2> SUFFICES ASSUME Init PROVE ReadInv
    OBVIOUS
  <2>1. \A w \in Will : Status(w) = "none"
    BY DEF Init, Status, NoRow
  <2>2. \A q \in Request, w \in Will : ~About(q, w)
    BY DEF Init, About, Idle, Activating
  <2>3. QED
    BY <2>1, <2>2 DEF ReadInv
<1>2. ReadInv => IncompleteOnlyIfEdited
  BY DEF ReadInv, IncompleteOnlyIfEdited
<1>3. QED
  BY <1>1, <1>2, ReadNext, TypeCorrect, PTL DEF Spec
=============================================================================
