------------------------------ MODULE DeadLetter ------------------------------
(***************************************************************************)
(* What the dead-letter queue promises of each delivery that has failed,   *)
(* whatever jobs, replicas and operators work on it at the same time.  A   *)
(* delivery is closed for good, and only after its consumer has processed  *)
(* it or by an operator; it is given up only after MaxAttempts POSTs, and  *)
(* may be taken up again.  WebhookDlq implements this, and PaymentRelay    *)
(* with the queue behind it.                                               *)
(***************************************************************************)
EXTENDS Integers

CONSTANTS Rows, MaxAttempts

VARIABLES
  phase,    \* per delivery: "none" before it has failed, "pending" while the
            \* queue is to send it, "givenUp" or "closed"
  tries,    \* POSTs sent, the one that failed first included
  accepted, \* deliveries the consumer has processed
  byHand    \* deliveries an operator has closed

letterVars == <<phase, tries, accepted, byHand>>

LetterInit ==
  /\ phase = [r \in Rows |-> "none"]
  /\ tries = [r \in Rows |-> 0]
  /\ accepted = {}
  /\ byHand = {}

Becomes(r, from, to) ==
  /\ phase[r] \in from
  /\ phase' = [phase EXCEPT ![r] = to]

(* A POST reaches the consumer or does not; an answer is no part of this.   *)
Send(r, arrived) ==
  /\ tries' = [tries EXCEPT ![r] = @ + 1]
  /\ accepted' = IF arrived THEN accepted \cup {r} ELSE accepted
  /\ UNCHANGED byHand

Enter(r, arrived) == Becomes(r, {"none"}, "pending") /\ Send(r, arrived)

SendAgain(r, arrived) ==
  /\ phase[r] # "none"
  /\ Send(r, arrived)
  /\ UNCHANGED phase

Close(r) ==
  /\ r \in accepted
  /\ Becomes(r, {"pending", "givenUp"}, "closed")
  /\ UNCHANGED <<tries, accepted, byHand>>

CloseByHand(r) ==
  /\ Becomes(r, {"pending", "givenUp", "closed"}, "closed")
  /\ byHand' = byHand \cup {r}
  /\ UNCHANGED <<tries, accepted>>

GiveUp(r) ==
  /\ tries[r] >= MaxAttempts
  /\ Becomes(r, {"pending"}, "givenUp")
  /\ UNCHANGED <<tries, accepted, byHand>>

TakeUpAgain(r) ==
  /\ Becomes(r, {"givenUp"}, "pending")
  /\ UNCHANGED <<tries, accepted, byHand>>

LetterNext ==
  \E r \in Rows :
    \/ \E arrived \in BOOLEAN : Enter(r, arrived) \/ SendAgain(r, arrived)
    \/ Close(r) \/ CloseByHand(r) \/ GiveUp(r) \/ TakeUpAgain(r)

LetterSpec == LetterInit /\ [][LetterNext]_letterVars
=============================================================================
