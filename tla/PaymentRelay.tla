----------------------------- MODULE PaymentRelay -----------------------------
(***************************************************************************)
(* The relay of Stripe Mexico payment events to the product webhooks:      *)
(* StripeMxSpeiRelayService.relay and StripeMxController (apps/api/src/    *)
(* modules/billing) over the table billing_events, with the dead-letter    *)
(* queue of WebhookDlq behind it.                                          *)
(*                                                                         *)
(* Stripe may deliver an event any number of times, to either replica, and *)
(* deliveries overlap.  Each builds an envelope with an id of its own and  *)
(* sends it to every consumer at once.  The controller answers 200         *)
(* whatever happens, so an error inside relay ends the delivery for good.  *)
(***************************************************************************)
EXTENDS WebhookDlq

CONSTANTS
  Events,        \* ids of the Stripe events
  Linked,        \* those whose customer is a user of this database
  Envelopes,     \* envelope ids a relay may draw: bounds the deliveries
  NoEnvelope,    \* not an envelope id
  Consumers,     \* products of PRODUCT_WEBHOOK_URLS
  Handlers,      \* webhook requests that may be in flight at once
  MaxRelayFaults \* bound on failed database calls and restarts in relay

ASSUME RelayAssumption ==
  /\ Linked \subseteq Events
  /\ NoEnvelope \notin Envelopes
  /\ Rows = Envelopes \X Consumers
  /\ MaxRelayFaults \in Nat

VARIABLES
  billed,      \* stripeEventId of the rows of billing_events
  relaying,    \* webhook requests in flight: handler -> what it has read
  eventOf,     \* envelope id -> the event it was built from
  relayFaults, \* failed database calls and restarts so far
  lost         \* history: deliveries <<event, consumer>> a fault cut off

relayVars == <<billed, relaying, eventOf, relayFaults, lost>>
vars == <<relayVars, dlqVars>>

-----------------------------------------------------------------------------

RelayPc == {"build", "persist", "dispatch"}

(* todo: consumers the POST to which is not answered yet; failed: those    *)
(* whose failure is not recorded yet.                                      *)
Relay == [pc : RelayPc, event : Events, envelope : Envelopes \cup {NoEnvelope},
          todo : SUBSET Consumers, failed : SUBSET Consumers]

RelayAt(h, pc) == h \in DOMAIN relaying /\ relaying[h].pc = pc

RelayTypeOK ==
  /\ billed \subseteq Linked
  /\ DOMAIN relaying \subseteq Handlers
  /\ relaying \in [DOMAIN relaying -> Relay]
  /\ DOMAIN eventOf \subseteq Envelopes
  /\ eventOf \in [DOMAIN eventOf -> Events]
  /\ relayFaults \in 0..MaxRelayFaults
  /\ lost \subseteq Events \X Consumers

Init ==
  /\ DlqInit
  /\ billed = {}
  /\ relaying = [h \in {} |-> 0]
  /\ eventOf = [v \in {} |-> 0]
  /\ relayFaults = 0
  /\ lost = {}

-----------------------------------------------------------------------------
(* relay *)

Drop(h) == relaying' = [g \in DOMAIN relaying \ {h} |-> relaying[g]]

WebhookMutant(h, e) ==
  /\ h \notin DOMAIN relaying
  /\ relaying' = [g \in DOMAIN relaying \cup {h} |->
                    IF g = h THEN [pc |-> "build", event |-> e,
                                   envelope |-> NoEnvelope, todo |-> {},
                                   failed |-> {}]
                             ELSE relaying[g]]
  /\ UNCHANGED <<billed, eventOf, relayFaults, lost, dlqVars>>

(* An event whose BillingEvent exists is acknowledged without a step; the   *)
(* others start a relay.                                                    *)
Webhook(h, e) ==
  /\ h \notin DOMAIN relaying
  /\ e \notin billed
  /\ relaying' = [g \in DOMAIN relaying \cup {h} |->
                    IF g = h THEN [pc |-> "build", event |-> e,
                                   envelope |-> NoEnvelope, todo |-> {},
                                   failed |-> {}]
                             ELSE relaying[g]]
  /\ UNCHANGED <<billed, eventOf, relayFaults, lost, dlqVars>>

(* The id of an envelope is drawn anew for each delivery of an event. *)
BuildEnvelope(h, v) ==
  /\ RelayAt(h, "build")
  /\ v \in Envelopes \ DOMAIN eventOf
  /\ eventOf' = [w \in DOMAIN eventOf \cup {v} |->
                   IF w = v THEN relaying[h].event ELSE eventOf[w]]
  /\ relaying' = [relaying EXCEPT ![h].pc = "persist", ![h].envelope = v]
  /\ UNCHANGED <<billed, relayFaults, lost, dlqVars>>

(* Another currency, no customer, or an error while the envelope is built. *)
SkipEvent(h) ==
  /\ RelayAt(h, "build")
  /\ Drop(h)
  /\ UNCHANGED <<billed, eventOf, relayFaults, lost, dlqVars>>

(* Configuration, not state: PRODUCT_WEBHOOK_URLS names the consumers, and  *)
(* DHANAM_WEBHOOK_SECRET is set. Where either is missing dispatch returns   *)
(* at once (572-584): nothing is posted and nothing becomes a dead letter.  *)
StartDispatch(h) ==
  relaying' = [relaying EXCEPT ![h].pc = "dispatch", ![h].todo = Consumers]

(* Without a local user only the audit log is written.  When another        *)
(* delivery has inserted the row the unique index refuses the insert, which *)
(* is logged and no more.                                                   *)
PersistBillingEvent(h) ==
  /\ RelayAt(h, "persist")
  /\ LET e == relaying[h].event
     IN  billed' = IF e \in Linked THEN billed \cup {e} ELSE billed
  /\ StartDispatch(h)
  /\ UNCHANGED <<eventOf, relayFaults, lost, dlqVars>>

(* The requests of dispatch run side by side: the handler ends with the    *)
(* last of them.                                                           *)
Leave(h, todo, failed) ==
  IF todo = {} /\ failed = {}
  THEN Drop(h)
  ELSE relaying' = [relaying EXCEPT ![h].todo = todo, ![h].failed = failed]

PostToConsumerMutant(h, c, arrived, answered) ==
  /\ RelayAt(h, "dispatch")
  /\ c \in relaying[h].todo
  /\ LET r == <<relaying[h].envelope, c>>
     IN  /\ tries' = [tries EXCEPT ![r] = 1]
         /\ accepted' = IF arrived THEN accepted \cup {r} ELSE accepted
  /\ Leave(h, relaying[h].todo \ {c},
           IF answered THEN relaying[h].failed ELSE relaying[h].failed \cup {c})
  /\ UNCHANGED <<billed, eventOf, relayFaults, lost,
                 dlq, replays, forces, dlqFaults, byHand>>

(* A consumer that refuses, does not answer or whose answer is lost is a   *)
(* failure.                                                                *)
PostToConsumer(h, c, arrived, answered) ==
  /\ RelayAt(h, "dispatch")
  /\ c \in relaying[h].todo
  /\ LET r == <<relaying[h].envelope, c>>
     IN  /\ tries' = [tries EXCEPT ![r] = 1]
         /\ accepted' = IF arrived THEN accepted \cup {r} ELSE accepted
  /\ Leave(h, relaying[h].todo \ {c},
           IF arrived /\ answered THEN relaying[h].failed
                                  ELSE relaying[h].failed \cup {c})
  /\ UNCHANGED <<billed, eventOf, relayFaults, lost,
                 dlq, replays, forces, dlqFaults, byHand>>

RecordForMutant(h, c) ==
  /\ RelayAt(h, "dispatch")
  /\ c \in relaying[h].todo \cup relaying[h].failed
  /\ RecordFailure(<<relaying[h].envelope, c>>)
  /\ Leave(h, relaying[h].todo, relaying[h].failed \ {c})
  /\ UNCHANGED <<billed, eventOf, relayFaults, lost,
                 replays, accepted, forces, dlqFaults, tries, byHand>>

RecordFor(h, c) ==
  /\ RelayAt(h, "dispatch")
  /\ c \in relaying[h].failed
  /\ RecordFailure(<<relaying[h].envelope, c>>)
  /\ Leave(h, relaying[h].todo, relaying[h].failed \ {c})
  /\ UNCHANGED <<billed, eventOf, relayFaults, lost,
                 replays, accepted, forces, dlqFaults, tries, byHand>>

-----------------------------------------------------------------------------
(* Failures *)

RelayFault ==
  /\ relayFaults < MaxRelayFaults
  /\ relayFaults' = relayFaults + 1
  /\ UNCHANGED <<billed, eventOf, dlqVars>>

(* The insert fails for another reason than the unique index. *)
PersistThrows(h) ==
  /\ RelayFault
  /\ RelayAt(h, "persist")
  /\ StartDispatch(h)
  /\ UNCHANGED lost

(* The dead-letter row cannot be inserted, which is only logged. *)
RecordThrows(h, c) ==
  /\ RelayFault
  /\ RelayAt(h, "dispatch")
  /\ c \in relaying[h].failed
  /\ Leave(h, relaying[h].todo, relaying[h].failed \ {c})
  /\ lost' = lost \cup {<<relaying[h].event, c>>}

(* A lookup throws before the dispatch, which the controller answers with   *)
(* 200 all the same, or the replica restarts.                               *)
RelayDies(h) ==
  /\ RelayFault
  /\ h \in DOMAIN relaying
  /\ Drop(h)
  /\ lost' = lost \cup ({relaying[h].event} \X
                        (relaying[h].todo \cup relaying[h].failed))

-----------------------------------------------------------------------------

RelayStep(h) ==
  \/ \E v \in Envelopes : BuildEnvelope(h, v)
  \/ SkipEvent(h)
  \/ PersistBillingEvent(h)
  \/ \E c \in Consumers :
       \/ \E arrived, answered \in BOOLEAN :
            PostToConsumer(h, c, arrived, answered)
       \/ RecordFor(h, c)

Next ==
  \/ \E h \in Handlers :
       \/ \E e \in Events : Webhook(h, e)
       \/ RelayStep(h)
       \/ PersistThrows(h)
       \/ RelayDies(h)
       \/ \E c \in Consumers : RecordThrows(h, c)
  \/ DlqStep /\ UNCHANGED relayVars

(* A request in flight takes its next step: its calls answer or time out.  *)
Spec == Init /\ [][Next]_vars

FairSpec == Spec /\ DlqFairness /\ \A h \in Handlers : WF_vars(RelayStep(h))

-----------------------------------------------------------------------------
(* The queue behind the relay *)

(* What the relay sends is no matter of the queue until the failure of it  *)
(* is recorded: the queue knows of the POSTs of recorded deliveries only.  *)
Queue == INSTANCE WebhookDlq WITH
  tries    <- [r \in Rows |-> IF r \in Recorded THEN tries[r] ELSE 0],
  accepted <- accepted \cap Recorded

-----------------------------------------------------------------------------
(* Properties *)

(* Whatever deliveries overlap and whichever fault cuts one off, the relay  *)
(* uses the queue as its specification allows: each delivery is recorded    *)
(* once, after one failed POST, and is POSTed by the queue alone from then  *)
(* on (dispatch 589-656).                                                   *)
QueueSpec == Queue!DlqSpec

Built(e) == {v \in DOMAIN eventOf : eventOf[v] = e}

(* A payment whose BillingEvent is stored, so that every redelivery of it  *)
(* is answered "already processed", was accepted by each consumer, or sits *)
(* in the dead-letter queue for it, or is still being sent, unless a fault *)
(* cut the first relay off (relay 250-276, dispatch 589-656).              *)
BilledIsOwed ==
  \A e \in billed, c \in Consumers :
    \/ \E v \in Built(e) : <<v, c>> \in accepted \cup Recorded
    \/ \E h \in DOMAIN relaying :
         /\ RelayAt(h, "dispatch")
         /\ relaying[h].event = e
         /\ c \in relaying[h].todo \cup relaying[h].failed
    \/ <<e, c>> \in lost

Quiet(e) == e \in billed /\ \A h \in DOMAIN relaying : relaying[h].event # e

(* Once the BillingEvent of an event is stored and the relays that were in *)
(* flight are over, no further envelope of it is ever built: redeliveries  *)
(* that do not overlap the first one are silent (relay 250-257).           *)
QuietEventStaysQuiet ==
  [][\A e \in Events : Quiet(e) => Quiet(e)' /\ Built(e)' = Built(e)]_vars

(* Every stored payment reaches each consumer, or ends in a dead letter    *)
(* that is resolved or given up, or was cut off by a fault.                *)
Reached(e, c) ==
  \/ \E v \in Built(e) :
       \/ <<v, c>> \in accepted
       \/ /\ <<v, c>> \in Recorded
          /\ dlq[<<v, c>>].resolved \/ dlq[<<v, c>>].retry = "never"
  \/ <<e, c>> \in lost

PaymentReachesConsumers ==
  \A e \in Events, c \in Consumers : e \in billed ~> Reached(e, c)
=============================================================================
