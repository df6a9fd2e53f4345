----------------------- MODULE SubscriptionBillingProofs -----------------------
(***************************************************************************)
(* Proofs that the invariants of SubscriptionBilling hold for every number *)
(* of subscriptions, replicas, failures and trials.                        *)
(***************************************************************************)
EXTENDS SubscriptionBilling, TLAPS

USE SubscriptionAssumption

(***************************************************************************)
(* Facts about events.                                                     *)
(***************************************************************************)
LEMMA EventFacts ==
    ASSUME NEW e \in Event
    PROVE  /\ e[2] \in Sub
           /\ e[1] \in {"checkout", "created", "invoice", "paid", "deleted"}
           /\ e = <<e[1], e[2]>>
           /\ ProviderOf[e[2]] \in Provider
           /\ e[1] = "paid" => ProviderOf[e[2]] = "janua"
           /\ e[1] \in {"checkout", "invoice"} => ProviderOf[e[2]] = "stripe"
<1>1. /\ e[2] \in Sub
      /\ e[1] \in {"checkout", "created", "invoice", "paid", "deleted"}
      /\ e = <<e[1], e[2]>>
      /\ e[1] \in Sends[ProviderOf[e[2]]]
  BY DEF Event
<1>2. ProviderOf[e[2]] \in Provider
  BY <1>1
<1>3. e[1] \in Kinds[ProviderOf[e[2]]]
  BY <1>1, <1>2
<1>4. CASE ProviderOf[e[2]] = "stripe"
  BY <1>1, <1>2, <1>3, <1>4 DEF Kinds
<1>5. CASE ProviderOf[e[2]] = "janua"
  BY <1>1, <1>2, <1>3, <1>5 DEF Kinds
<1>6. QED
  BY <1>2, <1>4, <1>5 DEF Provider

\* Every subscription has an event that opens it and one that ends it.
LEMMA EndEvents ==
    ASSUME NEW s \in Sub
    PROVE  <<"deleted", s>> \in Event /\ <<"created", s>> \in Event
BY DEF Event, Provider

LEMMA StepFacts ==
    ASSUME NEW e \in Event
    PROVE  /\ FirstStep(e) \in Step \ {"unsent", "acked", "answer", "waiting"}
           /\ NextStep(e)["write"] \in {"record", "answer"}
           /\ NextStep(e)["record"] \in {"write", "answer"}
BY DEF FirstStep, NextStep, Step

LEMMA RowType ==
    ASSUME TypeOK, NEW e \in Event
    PROVE  RowAfter(e) \in UserRow
<1>1. /\ user \in UserRow
      /\ user.customer \in [Provider -> Sub \cup {NoOne}]
      /\ payer[e[2]] \in Sub \cup {NoOne}
      /\ GivenTier(e[2]) \in 0 .. TopTier
      /\ 0 \in 0 .. TopTier
  BY EventFacts DEF TypeOK, UserRow, GivenTier
<1>2. CASE e[1] = "checkout"
  <2>1. [user.customer EXCEPT !["stripe"] = payer[e[2]]] \in [Provider -> Sub \cup {NoOne}]
    BY <1>1 DEF Provider
  <2>2. RowAfter(e) = [user EXCEPT !.tier = GivenTier(e[2]),
                          !.customer = [user.customer EXCEPT !["stripe"] = payer[e[2]]]]
    BY <1>1, <1>2 DEF RowAfter, UserRow
  <2>3. QED
    BY <1>1, <2>1, <2>2 DEF UserRow
<1>3. CASE e[1] # "checkout"
  <2>1. e[2] \in Sub /\ ProviderOf[e[2]] \in Provider
    BY EventFacts
  <2>2. \/ RowAfter(e) = [user EXCEPT !.tier = GivenTier(e[2]), !.subscription = e[2]]
        \/ RowAfter(e) = [user EXCEPT !.tier = 0, !.subscription = NoOne]
        \/ RowAfter(e) = [user EXCEPT !.tier = 0]
        \/ RowAfter(e) = [user EXCEPT !.tier = GivenTier(e[2])]
    BY <1>3 DEF RowAfter
  <2>3. QED
    BY <1>1, <2>1, <2>2 DEF UserRow
<1>4. QED
  BY <1>2, <1>3

-----------------------------------------------------------------------------
(* Types. *)

LEMMA InitType == Init => TypeOK
<1> SUFFICES ASSUME Init PROVE TypeOK
  OBVIOUS
<1>1. user \in UserRow
  BY DEF Init, Unset, UserRow
<1>2. QED
  BY <1>1 DEF Init, TypeOK, Step

LEMMA StageType ==
    ASSUME TypeOK, NEW e \in Event, NEW x \in Step, stage' = [stage EXCEPT ![e] = x]
    PROVE  stage' \in [Event -> Step]
BY DEF TypeOK

LEMMA ThrowsType ==
    ASSUME TypeOK, NEW e \in Event, Throws(e)
    PROVE  stage' \in [Event -> Step] /\ swallowed' \subseteq Event
BY DEF TypeOK, Throws, Step

LEMMA GoesType ==
    ASSUME TypeOK, NEW r \in Replica, NEW step \in {"idle", "found", "ending"},
           Goes(r, step)
    PROVE  job' \in [Replica -> [at : {"idle", "found", "ending"}, tier : 0 .. TopTier,
                                 card : BOOLEAN]]
BY DEF TypeOK, Goes

LEMMA CheckoutsType == TypeOK /\ Checkouts => TypeOK'
<1> SUFFICES ASSUME TypeOK, Checkouts PROVE TypeOK'
  OBVIOUS
<1>1. ASSUME NEW s \in Sub, BeginCheckout(s) PROVE TypeOK'
  <2>1. user.customer[ProviderOf[s]] \in Sub \cup {NoOne}
    BY DEF TypeOK, UserRow
  <2>2. QED
    BY <1>1, <2>1 DEF BeginCheckout, TypeOK, bounds, history
<1>2. ASSUME NEW s \in Sub, OpenCheckout(s) PROVE TypeOK'
  <2>1. [user.customer EXCEPT ![ProviderOf[s]] = s] \in [Provider -> Sub \cup {NoOne}]
    BY DEF TypeOK, UserRow
  <2>2. [user EXCEPT !.customer[ProviderOf[s]] = s]
          = [user EXCEPT !.customer = [user.customer EXCEPT ![ProviderOf[s]] = s]]
    BY DEF TypeOK, UserRow
  <2>3. user' \in UserRow
    BY <1>2, <2>1, <2>2 DEF OpenCheckout, TypeOK, UserRow
  <2>4. payer' \in [Sub -> Sub \cup {NoOne}]
    BY <1>2 DEF OpenCheckout, TypeOK
  <2>5. QED
    BY <1>2, <2>3, <2>4 DEF OpenCheckout, FoundNone, TypeOK, bounds
<1>3. ASSUME NEW s \in Sub, CheckTier(s) PROVE TypeOK'
  BY <1>3 DEF CheckTier, TypeOK, bounds, history
<1>4. QED
  BY <1>1, <1>2, <1>3 DEF Checkouts

LEMMA WorldType == TypeOK /\ World => TypeOK'
<1> SUFFICES ASSUME TypeOK, World PROVE TypeOK'
  OBVIOUS
<1>1. ASSUME NEW s \in Sub, Pay(s) PROVE TypeOK'
  BY <1>1 DEF Pay, TypeOK, Step, bounds, history
<1>2. ASSUME NEW s \in Sub, End(s) PROVE TypeOK'
  BY <1>2, EndEvents DEF End, TypeOK, Step, bounds, history
<1>3. CASE TrialRunsOut
  BY <1>3 DEF TrialRunsOut, TypeOK, UserRow, world, bounds, history
<1>4. CASE PromoRunsOut
  BY <1>4 DEF PromoRunsOut, TypeOK, UserRow, world, bounds, history
<1>5. QED
  BY <1>1, <1>2, <1>3, <1>4 DEF World

LEMMA WebhooksType == TypeOK /\ Webhooks => TypeOK'
<1> SUFFICES ASSUME TypeOK, NEW e \in Event,
                    \/ Receive(e) \/ WriteUser(e) \/ RecordEvent(e) \/ RecordRefused(e)
                    \/ StatementFails(e) \/ AnswerLost(e) \/ Answer(e)
             PROVE  TypeOK'
  BY DEF Webhooks
<1>1. CASE Receive(e)
  <2>1. stage' \in [Event -> Step]
    BY <1>1, StepFacts, StageType DEF Receive, Step
  <2>2. unmatched' \subseteq Event
    BY <1>1 DEF Receive, TypeOK
  <2>3. QED
    BY <1>1, <2>1, <2>2 DEF Receive, TypeOK, rows, world, bounds
<1>2. CASE WriteUser(e)
  <2>1. stage' \in [Event -> Step]
    BY <1>2, StepFacts, StageType DEF WriteUser, Step
  <2>2. user' \in UserRow
    BY <1>2, RowType DEF WriteUser
  <2>3. late' \subseteq Sub /\ source' \in Sub \cup {NoOne}
    BY <1>2, EventFacts DEF WriteUser, TypeOK
  <2>4. overwritten' \subseteq Sub
    BY <1>2 DEF WriteUser, TierWrittenBy, TypeOK
  <2>5. QED
    BY <1>2, <2>1, <2>2, <2>3, <2>4 DEF WriteUser, TypeOK, world, bounds
<1>3. CASE RecordEvent(e)
  <2>1. stage' \in [Event -> Step]
    BY <1>3, StepFacts, StageType DEF RecordEvent, Step
  <2>2. QED
    BY <1>3, <2>1 DEF RecordEvent, TypeOK, world, bounds, history
<1>4. CASE RecordRefused(e)
  BY <1>4, ThrowsType DEF RecordRefused, TypeOK, rows, world, bounds
<1>5. CASE StatementFails(e)
  BY <1>5, ThrowsType DEF StatementFails, TypeOK, rows, world
<1>6. CASE AnswerLost(e)
  BY <1>6, StageType DEF AnswerLost, TypeOK, Step, rows, world, history
<1>7. CASE Answer(e)
  BY <1>7, StageType DEF Answer, TypeOK, Step, rows, world, bounds, history
<1>8. QED
  BY <1>1, <1>2, <1>3, <1>4, <1>5, <1>6, <1>7

LEMMA TrialsType == TypeOK /\ Trials => TypeOK'
<1> SUFFICES ASSUME TypeOK, Trials PROVE TypeOK'
  OBVIOUS
<1>1. ASSUME NEW t \in TrialTiers, CheckStart(t) PROVE TypeOK'
  <2>1. t \in 0 .. TopTier
    BY SubscriptionAssumption
  <2>2. QED
    BY <1>1, <2>1 DEF CheckStart, TypeOK, rows, world, history
<1>2. CASE StartTrial
  <2>1. request.tier \in 0 .. TopTier /\ user \in UserRow
    BY DEF TypeOK
  <2>2. user' \in UserRow
    BY <1>2, <2>1 DEF StartTrial, UserRow
  <2>3. request' \in [op : {"none", "start", "extend"}, tier : 0 .. TopTier]
    BY <1>2 DEF StartTrial
  <2>4. QED
    BY <1>2, <2>2, <2>3 DEF StartTrial, TierWrittenBy, TypeOK, world, bounds
<1>3. CASE CheckExtend
  BY <1>3 DEF CheckExtend, TypeOK, rows, world, bounds, history
<1>4. CASE ExtendTrial
  <2>1. user' \in UserRow
    BY <1>4 DEF ExtendTrial, TypeOK, UserRow
  <2>2. request' \in [op : {"none", "start", "extend"}, tier : 0 .. TopTier]
    BY <1>4 DEF ExtendTrial
  <2>3. QED
    BY <1>4, <2>1, <2>2 DEF ExtendTrial, TypeOK, world, bounds, history
<1>5. QED
  BY <1>1, <1>2, <1>3, <1>4 DEF Trials

LEMMA JobsType == TypeOK /\ Jobs => TypeOK'
<1> SUFFICES ASSUME TypeOK, NEW r \in Replica,
                    \/ FindTrial(r) \/ ReadTrial(r) \/ EndTrial(r)
                    \/ JobFails(r) \/ ClearPromo(r)
             PROVE  TypeOK'
  BY DEF Jobs
<1>1. CASE FindTrial(r)
  BY <1>1, GoesType DEF FindTrial, TypeOK, rows, world, bounds, history
<1>2. CASE ReadTrial(r)
  <2>1. user.trial \in 0 .. TopTier /\ user.card \in BOOLEAN
    BY DEF TypeOK, UserRow
  <2>2. job' \in [Replica -> [at : {"idle", "found", "ending"}, tier : 0 .. TopTier,
                              card : BOOLEAN]]
    BY <1>2, <2>1, GoesType DEF ReadTrial, TypeOK
  <2>3. QED
    BY <1>2, <2>2 DEF ReadTrial, TypeOK, rows, world, bounds, history
<1>3. CASE EndTrial(r)
  <2>0. user \in UserRow /\ job[r].tier \in 0 .. TopTier /\ 0 \in 0 .. TopTier
    BY DEF TypeOK
  <2>1. user' \in UserRow
    <3>1. CASE job[r].card
      <4>1. user' = [user EXCEPT !.tier = job[r].tier, !.trial = 0, !.due = FALSE,
                                 !.promo = "running"]
        BY <1>3, <3>1, Zenon DEF EndTrial
      <4>2. QED
        BY <2>0, <4>1 DEF UserRow
    <3>2. CASE ~job[r].card
      <4>1. user' = [user EXCEPT !.tier = 0, !.trial = 0, !.due = FALSE]
        BY <1>3, <3>2, Zenon DEF EndTrial
      <4>2. QED
        BY <2>0, <4>1 DEF UserRow
    <3>3. QED
      BY <3>1, <3>2
  <2>2. QED
    BY <1>3, <2>1, GoesType DEF EndTrial, TierWrittenBy, TypeOK, world, bounds
<1>4. CASE JobFails(r)
  BY <1>4, GoesType DEF JobFails, TypeOK, rows, world, history
<1>5. CASE ClearPromo(r)
  BY <1>5 DEF ClearPromo, TypeOK, UserRow, world, bounds, history
<1>6. QED
  BY <1>1, <1>2, <1>3, <1>4, <1>5

LEMMA StutterType == TypeOK /\ UNCHANGED vars => TypeOK'
BY DEF TypeOK, vars

\* The variables keep their types.
THEOREM TypeCorrect == Spec => []TypeOK
<1>1. TypeOK /\ [Next]_vars => TypeOK'
  BY CheckoutsType, WorldType, WebhooksType, TrialsType, JobsType, StutterType DEF Next
<1>2. QED
  BY <1>1, InitType, PTL DEF Spec

-----------------------------------------------------------------------------
(* What the stage of an event says of its row and its write. *)

Applied(e) == e \in recorded /\ (Writes(e) => e \in written)

StageInv ==
    \A e \in Event :
        /\ stage[e] = "record" => e[1] \in {"invoice", "paid"} \/ e \in written
        /\ stage[e] = "write" => e[1] # "invoice" /\ (e[1] = "paid" => e \in recorded)
        /\ stage[e] = "answer" => Applied(e)
        /\ stage[e] = "acked" => Applied(e) \/ Dropped(e)

LEMMA StageInvInit == Init => StageInv
BY DEF Init, StageInv

\* A step that leaves the stages alone and takes no row or write back.
LEMMA StageInvKept ==
    ASSUME TypeOK, StageInv, stage' = stage, recorded \subseteq recorded',
           written \subseteq written', unmatched \subseteq unmatched',
           swallowed \subseteq swallowed'
    PROVE  StageInv'
BY DEF StageInv, Applied, Dropped

\* A step that moves one event.
LEMMA StageInvMoved ==
    ASSUME TypeOK, StageInv, NEW e \in Event, NEW x \in Step,
           stage' = [stage EXCEPT ![e] = x], recorded \subseteq recorded',
           written \subseteq written', unmatched \subseteq unmatched',
           swallowed \subseteq swallowed',
           /\ x = "record" => e[1] \in {"invoice", "paid"} \/ e \in written'
           /\ x = "write" => e[1] # "invoice" /\ (e[1] = "paid" => e \in recorded')
           /\ x = "answer" => Applied(e)'
           /\ x = "acked" => Applied(e)' \/ Dropped(e)'
    PROVE  StageInv'
<1>1. \A f \in Event : stage'[f] = IF f = e THEN x ELSE stage[f]
  BY DEF TypeOK
<1>2. QED
  BY <1>1 DEF StageInv, Applied, Dropped

LEMMA StageInvNext == TypeOK /\ StageInv /\ [Next]_vars => StageInv'
<1> SUFFICES ASSUME TypeOK, StageInv, [Next]_vars PROVE StageInv'
  OBVIOUS
<1> USE DEF Step
<1>1. CASE UNCHANGED vars
  BY <1>1, StageInvKept DEF vars
<1>2. CASE Checkouts
  BY <1>2, StageInvKept DEF Checkouts, BeginCheckout, CheckTier, OpenCheckout, history
<1>3. CASE World
  <2>1. ASSUME NEW s \in Sub, Pay(s) PROVE StageInv'
    BY <2>1 DEF Pay, StageInv, Applied, Dropped, history
  <2>2. ASSUME NEW s \in Sub, End(s) PROVE StageInv'
    BY <2>2, EndEvents, StageInvMoved DEF End, history
  <2>3. CASE TrialRunsOut \/ PromoRunsOut
    BY <2>3, StageInvKept DEF TrialRunsOut, PromoRunsOut, history
  <2>4. QED
    BY <1>3, <2>1, <2>2, <2>3 DEF World
<1>4. CASE Webhooks
  <2> SUFFICES ASSUME NEW e \in Event,
                      \/ Receive(e) \/ WriteUser(e) \/ RecordEvent(e) \/ RecordRefused(e)
                      \/ StatementFails(e) \/ AnswerLost(e) \/ Answer(e)
               PROVE  StageInv'
    BY <1>4 DEF Webhooks
  <2>1. CASE Receive(e) /\ Matches(e)
    <3>1. e[1] # "paid" \/ FirstStep(e) = "record"
      BY DEF FirstStep
    <3>2. FirstStep(e) = "record" => e[1] \in {"invoice", "paid"}
      BY DEF FirstStep
    <3>3. FirstStep(e) = "write" => e[1] # "invoice"
      BY DEF FirstStep
    <3>4. FirstStep(e) \in Step /\ FirstStep(e) \notin {"answer", "acked"}
      BY StepFacts
    <3>5. QED
      BY <2>1, <3>1, <3>2, <3>3, <3>4, StageInvMoved DEF Receive, rows
  <2>2. CASE Receive(e) /\ ~Matches(e)
    BY <2>2, StageInvMoved DEF Receive, rows, Dropped
  <2>3. CASE WriteUser(e)
    <3>1. e[1] # "invoice" /\ e \in written'
      BY <2>3 DEF WriteUser, StageInv
    <3>2. CASE e[1] = "paid"
      BY <2>3, <3>1, <3>2, StageInvMoved DEF WriteUser, NextStep, StageInv, Applied
    <3>3. CASE e[1] # "paid"
      BY <2>3, <3>1, <3>3, StageInvMoved DEF WriteUser, NextStep
    <3>4. QED
      BY <3>2, <3>3
  <2>4. CASE RecordEvent(e)
    <3>1. e \in recorded' /\ UNCHANGED written
      BY <2>4 DEF RecordEvent, history
    <3>2. CASE e[1] = "paid"
      BY <2>4, <3>1, <3>2, StageInvMoved DEF RecordEvent, NextStep, history
    <3>3. CASE e[1] # "paid"
      BY <2>4, <3>1, <3>3, StageInvMoved
         DEF RecordEvent, NextStep, StageInv, Applied, Writes, history
    <3>4. QED
      BY <3>2, <3>3
  <2>5. CASE RecordRefused(e)
    BY <2>5, StageInvMoved DEF RecordRefused, Throws, Dropped, rows
  <2>6. CASE StatementFails(e)
    BY <2>6, StageInvMoved DEF StatementFails, Throws, Dropped, rows
  <2>7. CASE AnswerLost(e)
    BY <2>7, StageInvMoved DEF AnswerLost, rows, history
  <2>8. CASE Answer(e)
    BY <2>8, StageInvMoved DEF Answer, StageInv, Applied, rows, history
  <2>9. QED
    BY <2>1, <2>2, <2>3, <2>4, <2>5, <2>6, <2>7, <2>8
<1>5. CASE Trials
  BY <1>5, StageInvKept DEF Trials, CheckStart, StartTrial, CheckExtend, ExtendTrial,
     rows, history
<1>6. CASE Jobs
  BY <1>6, StageInvKept DEF Jobs, FindTrial, ReadTrial, EndTrial, JobFails, ClearPromo,
     rows, history
<1>7. QED
  BY <1>1, <1>2, <1>3, <1>4, <1>5, <1>6 DEF Next

\* What is acknowledged has its row and its write, or was dropped.
THEOREM AckCorrect == Spec => []AcknowledgedIsApplied
<1>1. StageInv => AcknowledgedIsApplied
  BY DEF StageInv, AcknowledgedIsApplied, Applied
<1>2. QED
  BY <1>1, TypeCorrect, StageInvInit, StageInvNext, PTL DEF Spec

-----------------------------------------------------------------------------
(* Who has events, and who has customers. *)

\* Events are sent, and so applied, only for a subscription that was paid, and its
\* end only when it is over.
SentInv ==
    \A e \in Event :
        stage[e] # "unsent" \/ e \in written =>
            /\ checkout[e[2]] \in {"active", "ended"}
            /\ e[1] = "deleted" => checkout[e[2]] = "ended"

LEMMA SentInvInit == Init => SentInv
BY DEF Init, SentInv

LEMMA SentInvNext == TypeOK /\ SentInv /\ [Next]_vars => SentInv'
<1> SUFFICES ASSUME TypeOK, SentInv, [Next]_vars PROVE SentInv'
  OBVIOUS
<1>1. CASE UNCHANGED vars
  BY <1>1 DEF SentInv, vars
<1>2. CASE Checkouts
  <2>1. ASSUME NEW s \in Sub, BeginCheckout(s) PROVE SentInv'
    BY <2>1, EventFacts DEF BeginCheckout, SentInv, TypeOK, history
  <2>2. ASSUME NEW s \in Sub, CheckTier(s) \/ OpenCheckout(s) PROVE SentInv'
    BY <2>2, EventFacts DEF CheckTier, OpenCheckout, SentInv, TypeOK, history
  <2>3. QED
    BY <1>2, <2>1, <2>2 DEF Checkouts
<1>3. CASE World
  <2>1. ASSUME NEW s \in Sub, Pay(s) PROVE SentInv'
    BY <2>1, EventFacts DEF Pay, Opening, SentInv, TypeOK, history
  <2>2. ASSUME NEW s \in Sub, End(s) PROVE SentInv'
    BY <2>2, EventFacts, EndEvents DEF End, Running, SentInv, TypeOK, history
  <2>3. CASE TrialRunsOut \/ PromoRunsOut
    BY <2>3 DEF TrialRunsOut, PromoRunsOut, SentInv, world, history
  <2>4. QED
    BY <1>3, <2>1, <2>2, <2>3 DEF World
<1>4. CASE Webhooks
  <2> SUFFICES ASSUME NEW e \in Event,
                      \/ Receive(e) \/ WriteUser(e) \/ RecordEvent(e) \/ RecordRefused(e)
                      \/ StatementFails(e) \/ AnswerLost(e) \/ Answer(e)
               PROVE  SentInv'
    BY <1>4 DEF Webhooks
  <2>1. /\ stage[e] # "unsent"
        /\ \A f \in Event : f # e => stage'[f] = stage[f]
        /\ written' \subseteq written \cup {e}
        /\ checkout' = checkout
    BY DEF Receive, WriteUser, RecordEvent, RecordRefused, StatementFails, AnswerLost,
       Answer, Throws, Busy, TypeOK, world, history
  <2>2. QED
    BY <2>1 DEF SentInv
<1>5. CASE Trials
  BY <1>5 DEF Trials, CheckStart, StartTrial, CheckExtend, ExtendTrial, SentInv,
     world, history
<1>6. CASE Jobs
  BY <1>6 DEF Jobs, FindTrial, ReadTrial, EndTrial, JobFails, ClearPromo, SentInv,
     world, history
<1>7. QED
  BY <1>1, <1>2, <1>3, <1>4, <1>5, <1>6 DEF Next

\* Customer c is one that the request of a checkout of provider p has made.
Made(c, p) == c \in Sub /\ ProviderOf[c] = p /\ payer[c] = c

\* A request that made a customer of p although the user had one.
MadeAgain(u, p) == Made(u, p) /\ (u \in raced \/ ForgetsCustomer(u))

\* Once a checkout is open it has a customer, which some request made, as is the one in
\* the row; a request that read no customer and sees one by now has been overtaken; and
\* when there are two customers, one was made although the other was there.
PaysInv ==
    \A s \in Sub :
        /\ checkout[s] = "none" => payer[s] = NoOne
        /\ checkout[s] \in {"open", "active", "ended"} => payer[s] # NoOne

MadeInv ==
    /\ \A s \in Sub : payer[s] # NoOne =>
          /\ Made(payer[s], ProviderOf[s])
          /\ user.customer[ProviderOf[s]] # NoOne
    /\ \A p \in Provider : user.customer[p] # NoOne => Made(user.customer[p], p)

OvertakenInv ==
    \A s \in Sub :
        checkout[s] \in {"asked", "requested"} /\ payer[s] = NoOne
          => \/ user.customer[ProviderOf[s]] = NoOne
             \/ s \in raced
             \/ ForgetsCustomer(s)

TwoInv ==
    \A s, t \in Sub :
        /\ ProviderOf[s] = ProviderOf[t]
        /\ payer[s] # NoOne /\ payer[t] # NoOne /\ payer[s] # payer[t]
        => \E u \in Sub : MadeAgain(u, ProviderOf[s])

CustomerInv == PaysInv /\ MadeInv /\ OvertakenInv /\ TwoInv

LEMMA CustomerInvInit == Init => CustomerInv
BY DEF Init, Unset, CustomerInv, PaysInv, MadeInv, OvertakenInv, TwoInv

\* A step that leaves payers and the row's customers alone and moves checkouts on.
LEMMA CustomerInvKept ==
    ASSUME CustomerInv, payer' = payer, raced' = raced, user'.customer = user.customer,
           \A s \in Sub :
              \/ checkout'[s] = checkout[s]
              \/ checkout[s] = "asked" /\ checkout'[s] \in {"requested", "refused"}
              \/ checkout[s] \in {"open", "active"} /\ checkout'[s] \in {"active", "ended"}
    PROVE  CustomerInv'
<1>1. PaysInv'
  BY DEF CustomerInv, PaysInv
<1>2. MadeInv'
  BY DEF CustomerInv, MadeInv, Made
<1>3. OvertakenInv'
  BY DEF CustomerInv, OvertakenInv, ForgetsCustomer
<1>4. TwoInv'
  BY DEF CustomerInv, TwoInv, MadeAgain, Made, ForgetsCustomer
<1>5. QED
  BY <1>1, <1>2, <1>3, <1>4 DEF CustomerInv

LEMMA BeginCustomer ==
    ASSUME TypeOK, CustomerInv, NEW s \in Sub, BeginCheckout(s)
    PROVE  CustomerInv'
<1> DEFINE c == user.customer[ProviderOf[s]]
<1>1. /\ user' = user /\ raced' = raced
      /\ \A t \in Sub : t # s => payer'[t] = payer[t] /\ checkout'[t] = checkout[t]
      /\ payer[s] = NoOne
      /\ payer'[s] = c \/ (payer'[s] = NoOne /\ ForgetsCustomer(s))
      /\ checkout'[s] \in {"asked", "requested"}
  <2>1. payer \in [Sub -> Sub \cup {NoOne}] /\ payer[s] = NoOne
    BY DEF BeginCheckout, TypeOK, CustomerInv, PaysInv
  <2>2. user' = user /\ raced' = raced
    BY DEF BeginCheckout, history
  <2>3. \A t \in Sub : t # s => payer'[t] = payer[t] /\ checkout'[t] = checkout[t]
    BY DEF BeginCheckout, TypeOK
  <2>4. checkout'[s] \in {"asked", "requested"}
    BY DEF BeginCheckout, TypeOK
  <2>5. payer'[s] = c \/ (payer'[s] = NoOne /\ ForgetsCustomer(s))
    BY <2>1 DEF BeginCheckout, ForgetsCustomer
  <2>6. QED
    BY <2>1, <2>2, <2>3, <2>4, <2>5
<1>2. \A d, p : Made(d, p) => d # s /\ payer'[d] = payer[d]
  BY <1>1 DEF Made
<1>3. \A u, p : (u \in Sub /\ MadeAgain(u, p)) => payer'[u] = payer[u]
  BY <1>2 DEF MadeAgain
<1>4. c # NoOne => Made(c, ProviderOf[s])
  BY DEF CustomerInv, MadeInv
<1>5. PaysInv'
  BY <1>1 DEF CustomerInv, PaysInv
<1>6. MadeInv'
  <2>1. ASSUME NEW t \in Sub, payer'[t] # NoOne
        PROVE  /\ Made(payer'[t], ProviderOf[t])
               /\ user.customer[ProviderOf[t]] # NoOne
    BY <1>1, <1>4, <2>1 DEF CustomerInv, MadeInv
  <2>2. \A p \in Provider : user.customer[p] # NoOne => Made(user.customer[p], p)
    BY DEF CustomerInv, MadeInv
  <2>3. QED
    BY <1>1, <1>2, <2>1, <2>2 DEF MadeInv, Made
<1>7. OvertakenInv'
  BY <1>1 DEF CustomerInv, OvertakenInv, ForgetsCustomer
<1>8. TwoInv'
  <2> SUFFICES ASSUME NEW t \in Sub, NEW v \in Sub, ProviderOf[t] = ProviderOf[v],
                      payer'[t] # NoOne, payer'[v] # NoOne, payer'[t] # payer'[v]
               PROVE  \E u \in Sub : MadeAgain(u, ProviderOf[t])'
    BY DEF TwoInv
  <2>1. \A x \in Sub : payer'[x] # NoOne =>
            \E y \in Sub : ProviderOf[y] = ProviderOf[x] /\ payer[y] = payer'[x]
    BY <1>1, <1>4 DEF Made
  <2>2. PICK y \in Sub : ProviderOf[y] = ProviderOf[t] /\ payer[y] = payer'[t]
    BY <2>1
  <2>3. PICK z \in Sub : ProviderOf[z] = ProviderOf[v] /\ payer[z] = payer'[v]
    BY <2>1
  <2>4. PICK u \in Sub : MadeAgain(u, ProviderOf[t])
    BY <2>2, <2>3 DEF CustomerInv, TwoInv
  <2>5. QED
    BY <1>1, <1>3, <2>4 DEF MadeAgain, Made, ForgetsCustomer
<1>9. QED
  BY <1>5, <1>6, <1>7, <1>8 DEF CustomerInv

LEMMA OpenCustomer ==
    ASSUME TypeOK, CustomerInv, NEW s \in Sub, OpenCheckout(s)
    PROVE  CustomerInv'
<1>0. user \in UserRow /\ checkout[s] = "requested"
  BY DEF TypeOK, OpenCheckout
<1>1. CASE payer[s] = NoOne
  <2>1. /\ \A t \in Sub : t # s => payer'[t] = payer[t] /\ checkout'[t] = checkout[t]
        /\ payer'[s] = s /\ s # NoOne /\ checkout'[s] = "open"
        /\ raced' = raced \cup FoundNone(s)
        /\ \A p \in Provider :
              user'.customer[p] = IF p = ProviderOf[s] THEN s ELSE user.customer[p]
    BY <1>0, <1>1 DEF OpenCheckout, TypeOK, UserRow
  <2>2. \A d, p : Made(d, p) => d # s /\ payer'[d] = payer[d]
    BY <1>1, <2>1 DEF Made
  <2>3. \A u, p : MadeAgain(u, p) => MadeAgain(u, p)'
    BY <2>1, <2>2 DEF MadeAgain, Made, ForgetsCustomer
  <2>4. \A d : \A p \in Provider : Made(d, p) => Made(d, p)'
    BY <2>1, <2>2 DEF Made
  <2>5. Made(s, ProviderOf[s])'
    BY <2>1 DEF Made
  <2>6. PaysInv'
    BY <2>1 DEF CustomerInv, PaysInv
  <2>7. MadeInv'
    <3>1. ASSUME NEW t \in Sub, payer'[t] # NoOne
          PROVE  /\ Made(payer[t], ProviderOf[t])'
                 /\ user'.customer[ProviderOf[t]] # NoOne
      <4>1. CASE t = s
        BY <2>1, <2>5, <4>1
      <4>2. CASE t # s
        <5>1. /\ payer'[t] = payer[t] /\ Made(payer[t], ProviderOf[t])
              /\ user.customer[ProviderOf[t]] # NoOne /\ ProviderOf[t] \in Provider
          BY <2>1, <3>1, <4>2 DEF CustomerInv, MadeInv
        <5>2. user'.customer[ProviderOf[t]] # NoOne
          BY <2>1, <5>1
        <5>3. Made(payer[t], ProviderOf[t])'
          BY <2>2, <5>1 DEF Made
        <5>4. QED
          BY <5>2, <5>3
      <4>3. QED
        BY <4>1, <4>2
    <3>2. ASSUME NEW p \in Provider, user'.customer[p] # NoOne
          PROVE  Made(user.customer[p], p)'
      <4>1. CASE p = ProviderOf[s]
        BY <2>1, <4>1 DEF Made
      <4>2. CASE p # ProviderOf[s]
        <5>1. user'.customer[p] = user.customer[p] /\ Made(user.customer[p], p)
          BY <2>1, <3>2, <4>2 DEF CustomerInv, MadeInv
        <5>2. QED
          BY <2>2, <5>1 DEF Made
      <4>3. QED
        BY <4>1, <4>2
    <3>3. QED
      BY <3>1, <3>2 DEF MadeInv, Made
  <2>8. OvertakenInv'
    <3> SUFFICES ASSUME NEW t \in Sub, checkout'[t] \in {"asked", "requested"},
                        payer'[t] = NoOne, user'.customer[ProviderOf[t]] # NoOne
                 PROVE  t \in raced' \/ ForgetsCustomer(t)
      BY DEF OvertakenInv, ForgetsCustomer
    <3>1. t # s /\ checkout[t] = checkout'[t] /\ payer[t] = NoOne
      BY <2>1
    <3>2. CASE ProviderOf[t] = ProviderOf[s]
      BY <2>1, <3>1, <3>2 DEF FoundNone
    <3>3. CASE ProviderOf[t] # ProviderOf[s]
      <4>1. user'.customer[ProviderOf[t]] = user.customer[ProviderOf[t]]
        BY <2>1, <3>3
      <4>2. QED
        BY <2>1, <3>1, <4>1 DEF CustomerInv, OvertakenInv
    <3>4. QED
      BY <3>2, <3>3
  <2>9. TwoInv'
    <3>1. ASSUME NEW t \in Sub, t # s, ProviderOf[t] = ProviderOf[s], payer'[t] # NoOne
          PROVE  MadeAgain(s, ProviderOf[s])'
      <4>1. user.customer[ProviderOf[s]] # NoOne
        BY <2>1, <3>1 DEF CustomerInv, MadeInv
      <4>2. s \in raced \/ ForgetsCustomer(s)
        BY <1>0, <1>1, <4>1 DEF CustomerInv, OvertakenInv
      <4>3. QED
        BY <2>1, <2>5, <4>2 DEF MadeAgain, ForgetsCustomer
    <3> SUFFICES ASSUME NEW t \in Sub, NEW v \in Sub, ProviderOf[t] = ProviderOf[v],
                        payer'[t] # NoOne, payer'[v] # NoOne, payer'[t] # payer'[v]
                 PROVE  \E u \in Sub : MadeAgain(u, ProviderOf[t])'
      BY DEF TwoInv
    <3>2. CASE t = s
      BY <3>1, <3>2
    <3>3. CASE v = s
      BY <3>1, <3>3
    <3>4. CASE t # s /\ v # s
      <4>1. PICK u \in Sub : MadeAgain(u, ProviderOf[t])
        BY <2>1, <3>4 DEF CustomerInv, TwoInv
      <4>2. QED
        BY <2>3, <4>1
    <3>5. QED
      BY <3>2, <3>3, <3>4
  <2>10. QED
    BY <2>6, <2>7, <2>8, <2>9 DEF CustomerInv
<1>2. CASE payer[s] # NoOne
  <2>1. /\ payer' = payer /\ user' = user /\ raced' = raced
        /\ \A t \in Sub : t # s => checkout'[t] = checkout[t]
        /\ checkout'[s] = "open"
    BY <1>2 DEF OpenCheckout, TypeOK
  <2>2. PaysInv'
    BY <1>2, <2>1 DEF CustomerInv, PaysInv
  <2>3. MadeInv'
    BY <2>1 DEF CustomerInv, MadeInv, Made
  <2>4. OvertakenInv'
    BY <1>2, <2>1 DEF CustomerInv, OvertakenInv, ForgetsCustomer
  <2>5. TwoInv'
    BY <2>1 DEF CustomerInv, TwoInv, MadeAgain, Made, ForgetsCustomer
  <2>6. QED
    BY <2>2, <2>3, <2>4, <2>5 DEF CustomerInv
<1>3. QED
  BY <1>1, <1>2

\* The handler of a completed checkout writes the customer of that checkout back.
LEMMA CheckoutEventCustomer ==
    ASSUME TypeOK, SentInv, CustomerInv, NEW e \in Event, WriteUser(e), e[1] = "checkout"
    PROVE  CustomerInv'
<1> DEFINE s == e[2]
<1>1. s \in Sub /\ ProviderOf[s] = "stripe" /\ "stripe" \in Provider
  BY EventFacts DEF Provider
<1>2. checkout[s] \in {"active", "ended"}
  BY DEF WriteUser, SentInv
<1>3. payer[s] # NoOne
  BY <1>1, <1>2 DEF CustomerInv, PaysInv
<1>4. /\ payer' = payer /\ checkout' = checkout /\ raced' = raced
      /\ user' = [user EXCEPT !.tier = GivenTier(s), !.customer["stripe"] = payer[s]]
  BY DEF WriteUser, RowAfter, world
<1>5. \A p \in Provider :
         user'.customer[p] = IF p = "stripe" THEN payer[s] ELSE user.customer[p]
  BY <1>4 DEF TypeOK, UserRow
<1>6. Made(payer[s], "stripe") /\ user.customer["stripe"] # NoOne
  BY <1>1, <1>3 DEF CustomerInv, MadeInv
<1>7. \A p \in Provider : user'.customer[p] # NoOne <=> user.customer[p] # NoOne
  BY <1>3, <1>5, <1>6
<1>8. PaysInv' /\ TwoInv'
  BY <1>4 DEF CustomerInv, PaysInv, TwoInv, MadeAgain, Made, ForgetsCustomer
<1>9. MadeInv'
  <2>1. \A p \in Provider : user'.customer[p] # NoOne => Made(user'.customer[p], p)
    BY <1>5, <1>6, <1>7 DEF CustomerInv, MadeInv
  <2>2. \A t \in Sub : payer[t] # NoOne =>
          /\ Made(payer[t], ProviderOf[t])
          /\ user'.customer[ProviderOf[t]] # NoOne
    BY <1>7 DEF CustomerInv, MadeInv
  <2>3. QED
    BY <1>4, <2>1, <2>2 DEF MadeInv, Made
<1>10. OvertakenInv'
  BY <1>4, <1>7 DEF CustomerInv, OvertakenInv, ForgetsCustomer
<1>11. QED
  BY <1>8, <1>9, <1>10 DEF CustomerInv

LEMMA CustomerInvNext == TypeOK /\ SentInv /\ CustomerInv /\ [Next]_vars => CustomerInv'
<1> SUFFICES ASSUME TypeOK, SentInv, CustomerInv, [Next]_vars PROVE CustomerInv'
  OBVIOUS
<1>0. user \in UserRow
  BY DEF TypeOK
<1>1. CASE UNCHANGED vars
  BY <1>1, CustomerInvKept DEF vars
<1>2. CASE Checkouts
  <2>1. ASSUME NEW s \in Sub, CheckTier(s) PROVE CustomerInv'
    BY <2>1, CustomerInvKept DEF CheckTier, TypeOK, history
  <2>2. QED
    BY <1>2, <2>1, BeginCustomer, OpenCustomer DEF Checkouts
<1>3. CASE World
  <2>1. payer' = payer /\ raced' = raced /\ user'.customer = user.customer
    BY <1>0, <1>3 DEF World, Pay, End, TrialRunsOut, PromoRunsOut, world, history, UserRow
  <2>2. \A s \in Sub :
           \/ checkout'[s] = checkout[s]
           \/ checkout[s] \in {"open", "active"} /\ checkout'[s] \in {"active", "ended"}
    BY <1>3 DEF World, Pay, End, TrialRunsOut, PromoRunsOut, Running, world, TypeOK
  <2>3. QED
    BY <2>1, <2>2, CustomerInvKept
<1>4. CASE Webhooks
  <2> SUFFICES ASSUME NEW e \in Event,
                      \/ Receive(e) \/ WriteUser(e) \/ RecordEvent(e) \/ RecordRefused(e)
                      \/ StatementFails(e) \/ AnswerLost(e) \/ Answer(e)
               PROVE  CustomerInv'
    BY <1>4 DEF Webhooks
  <2>1. CASE ~(WriteUser(e) /\ e[1] = "checkout")
    <3>1. /\ checkout' = checkout /\ payer' = payer /\ raced' = raced
          /\ user'.customer = user.customer
      BY <1>0, <2>1 DEF Receive, WriteUser, RowAfter, RecordEvent, RecordRefused,
         StatementFails, AnswerLost, Answer, rows, world, history, UserRow
    <3>2. QED
      BY <3>1, CustomerInvKept
  <2>2. QED
    BY <2>1, CheckoutEventCustomer
<1>5. CASE Trials
  <2>1. /\ checkout' = checkout /\ payer' = payer /\ raced' = raced
        /\ user'.customer = user.customer
    BY <1>0, <1>5 DEF Trials, CheckStart, StartTrial, CheckExtend, ExtendTrial,
       rows, world, history, UserRow
  <2>2. QED
    BY <2>1, CustomerInvKept
<1>6. CASE Jobs
  <2>1. /\ checkout' = checkout /\ payer' = payer /\ raced' = raced
        /\ user'.customer = user.customer
    BY <1>0, <1>6 DEF Jobs, FindTrial, ReadTrial, EndTrial, JobFails, ClearPromo,
       rows, world, history, UserRow
  <2>2. QED
    BY <2>1, CustomerInvKept
<1>7. QED
  BY <1>1, <1>2, <1>3, <1>4, <1>5, <1>6 DEF Next

\* What was unmatched was sent for another customer than one the row can hold.
UnmatchedInv ==
    \A e \in unmatched :
        /\ e \in Event /\ payer[e[2]] # NoOne
        /\ \E s, u \in Sub :
              /\ ProviderOf[s] = ProviderOf[e[2]]
              /\ payer[s] \notin {NoOne, payer[e[2]]}
              /\ MadeAgain(u, ProviderOf[e[2]])

CustomersInv == TypeOK /\ SentInv /\ CustomerInv /\ UnmatchedInv

LEMMA CustomersInvInit == Init => CustomersInv
BY InitType, SentInvInit, CustomerInvInit DEF Init, CustomersInv, UnmatchedInv

\* What the steps do to the payers, and to the events dropped for want of a user.
LEMMA PayersStay ==
    ASSUME TypeOK, CustomerInv, [Next]_vars
    PROVE  /\ \A s \in Sub : payer[s] # NoOne => payer'[s] = payer[s]
           /\ raced \subseteq raced'
           /\ \/ unmatched' = unmatched
              \/ \E e \in Event : Receive(e) /\ ~Matches(e)
<1>1. CASE Checkouts
  <2>1. ASSUME NEW s \in Sub, BeginCheckout(s)
        PROVE  \A t \in Sub : payer[t] # NoOne => payer'[t] = payer[t]
    BY <2>1 DEF BeginCheckout, CustomerInv, PaysInv, TypeOK
  <2>2. ASSUME NEW s \in Sub, CheckTier(s) \/ OpenCheckout(s)
        PROVE  \A t \in Sub : payer[t] # NoOne => payer'[t] = payer[t]
    BY <2>2 DEF CheckTier, OpenCheckout, TypeOK
  <2>3. raced \subseteq raced' /\ unmatched' = unmatched
    BY <1>1 DEF Checkouts, BeginCheckout, CheckTier, OpenCheckout, history
  <2>4. QED
    BY <1>1, <2>1, <2>2, <2>3 DEF Checkouts
<1>2. CASE World
  BY <1>2 DEF World, Pay, End, TrialRunsOut, PromoRunsOut, world, history
<1>3. CASE Webhooks
  BY <1>3 DEF Webhooks, Receive, WriteUser, RecordEvent, RecordRefused, StatementFails,
     AnswerLost, Answer, world, history
<1>4. CASE Trials
  BY <1>4 DEF Trials, CheckStart, StartTrial, CheckExtend, ExtendTrial, world, history
<1>5. CASE Jobs
  BY <1>5 DEF Jobs, FindTrial, ReadTrial, EndTrial, JobFails, ClearPromo, world, history
<1>6. CASE UNCHANGED vars
  BY <1>6 DEF vars
<1>7. QED
  BY <1>1, <1>2, <1>3, <1>4, <1>5, <1>6 DEF Next

LEMMA CustomersInvNext == CustomersInv /\ [Next]_vars => CustomersInv'
<1> SUFFICES ASSUME CustomersInv, [Next]_vars PROVE CustomersInv'
  OBVIOUS
<1> USE DEF CustomersInv
<1>1. TypeOK'
  BY CheckoutsType, WorldType, WebhooksType, TrialsType, JobsType, StutterType DEF Next
<1>2. SentInv' /\ CustomerInv'
  BY SentInvNext, CustomerInvNext
<1>3. \A u \in Sub, p \in Provider : MadeAgain(u, p) => MadeAgain(u, p)'
  BY PayersStay DEF MadeAgain, Made, ForgetsCustomer
<1>4. ASSUME NEW e \in unmatched
      PROVE  /\ e \in Event /\ payer'[e[2]] # NoOne
             /\ \E s, u \in Sub : /\ ProviderOf[s] = ProviderOf[e[2]]
                                 /\ payer'[s] \notin {NoOne, payer'[e[2]]}
                                 /\ MadeAgain(u, ProviderOf[e[2]])'
  <2>1. e \in Event /\ payer[e[2]] # NoOne
    BY DEF UnmatchedInv
  <2>2. e[2] \in Sub /\ ProviderOf[e[2]] \in Provider
    BY <2>1, EventFacts
  <2>3. PICK s \in Sub, u \in Sub : /\ ProviderOf[s] = ProviderOf[e[2]]
                                    /\ payer[s] \notin {NoOne, payer[e[2]]}
                                    /\ MadeAgain(u, ProviderOf[e[2]])
    BY DEF UnmatchedInv
  <2>4. payer'[s] = payer[s] /\ payer'[e[2]] = payer[e[2]]
    BY <2>1, <2>2, <2>3, PayersStay
  <2>5. MadeAgain(u, ProviderOf[e[2]])'
    BY <1>3, <2>2, <2>3
  <2>6. QED
    BY <2>1, <2>3, <2>4, <2>5
<1>5. ASSUME unmatched' = unmatched PROVE UnmatchedInv'
  BY <1>4, <1>5 DEF UnmatchedInv
<1>6. ASSUME NEW e \in Event, Receive(e), ~Matches(e) PROVE UnmatchedInv'
  <2>1. /\ unmatched' = unmatched \cup {e} /\ payer' = payer /\ raced' = raced
        /\ stage[e] # "unsent"
    BY <1>6 DEF Receive, world
  <2>2. e[2] \in Sub /\ ProviderOf[e[2]] \in Provider
        /\ checkout[e[2]] \in {"active", "ended"}
    BY <2>1, EventFacts DEF SentInv
  <2>3. payer[e[2]] # NoOne
    BY <2>2 DEF CustomerInv, PaysInv
  <2> DEFINE c == user.customer[ProviderOf[e[2]]]
  <2>4. c # NoOne /\ c # payer[e[2]]
    BY <1>6, <2>2, <2>3 DEF CustomerInv, MadeInv, Matches
  <2>5. c \in Sub /\ ProviderOf[c] = ProviderOf[e[2]] /\ payer[c] = c
    BY <2>2, <2>4 DEF CustomerInv, MadeInv, Made
  <2>6. PICK u \in Sub : MadeAgain(u, ProviderOf[c])
    BY <2>2, <2>3, <2>4, <2>5 DEF CustomerInv, TwoInv
  <2>7. MadeAgain(u, ProviderOf[e[2]])'
    BY <2>1, <2>5, <2>6 DEF MadeAgain, Made, ForgetsCustomer
  <2>8. \E s, v \in Sub : /\ ProviderOf[s] = ProviderOf[e[2]]
                         /\ payer'[s] \notin {NoOne, payer'[e[2]]}
                         /\ MadeAgain(v, ProviderOf[e[2]])'
    BY <2>1, <2>4, <2>5, <2>7
  <2>9. QED
    BY <1>4, <2>1, <2>3, <2>8 DEF UnmatchedInv
<1>7. QED
  BY <1>1, <1>2, <1>5, <1>6, PayersStay

\* Only a request that makes a second customer, because another overtook it or because it
\* does not look, leaves an event of a paid subscription without its user.
THEOREM UnmatchedCorrect == Spec => []UnmatchedOnlyIfCustomerReplaced
<1>1. CustomersInv => UnmatchedOnlyIfCustomerReplaced
  BY DEF CustomersInv, UnmatchedInv, UnmatchedOnlyIfCustomerReplaced, MadeAgain, Made
<1>2. QED
  BY <1>1, CustomersInvInit, CustomersInvNext, PTL DEF Spec

-----------------------------------------------------------------------------
(* The tier of a paying user. *)

\* As long as nothing else wrote over it, the write of the opening event stands.
ServedInv ==
    \A s \in Sub :
        Running(s) /\ <<"created", s>> \in written
            => \/ s \in overwritten
               \/ /\ user.tier = GivenTier(s)
                  /\ ProviderOf[s] = "stripe" => user.subscription = s

LEMMA ServedInvInit == Init => ServedInv
BY DEF Init, ServedInv

\* A step that writes neither the tier nor the subscription, and starts no subscription
\* that has events applied.
LEMMA ServedInvKept ==
    ASSUME ServedInv, user'.tier = user.tier, user'.subscription = user.subscription,
           written' = written, overwritten \subseteq overwritten',
           \A s \in Sub : Running(s)' => Running(s) \/ <<"created", s>> \notin written
    PROVE  ServedInv'
BY DEF ServedInv

LEMMA ServedInvNext == TypeOK /\ SentInv /\ ServedInv /\ [Next]_vars => ServedInv'
<1> SUFFICES ASSUME TypeOK, SentInv, ServedInv, [Next]_vars PROVE ServedInv'
  OBVIOUS
<1>0. user \in UserRow
  BY DEF TypeOK
<1>1. CASE UNCHANGED vars
  BY <1>1, ServedInvKept DEF vars, Running
<1>2. CASE Checkouts
  <2>1. user'.tier = user.tier /\ user'.subscription = user.subscription
    BY <1>0, <1>2 DEF Checkouts, BeginCheckout, CheckTier, OpenCheckout, UserRow
  <2>2. \A s \in Sub : Running(s)' => Running(s)
    BY <1>2 DEF Checkouts, BeginCheckout, CheckTier, OpenCheckout, Running, TypeOK
  <2>3. QED
    BY <1>2, <2>1, <2>2, ServedInvKept
       DEF Checkouts, BeginCheckout, CheckTier, OpenCheckout, history
<1>3. CASE World
  <2>1. user'.tier = user.tier /\ user'.subscription = user.subscription
    BY <1>0, <1>3 DEF World, Pay, End, TrialRunsOut, PromoRunsOut, UserRow
  <2>2. \A s \in Sub : Running(s)' => Running(s) \/ <<"created", s>> \notin written
    <3>1. ASSUME NEW s \in Sub, checkout[s] = "open" PROVE <<"created", s>> \notin written
      BY <3>1, EndEvents DEF SentInv
    <3>2. QED
      BY <1>3, <3>1 DEF World, Pay, End, TrialRunsOut, PromoRunsOut, Running, world, TypeOK
  <2>3. QED
    BY <1>3, <2>1, <2>2, ServedInvKept DEF World, Pay, End, TrialRunsOut, PromoRunsOut, history
<1>4. ASSUME NEW e \in Event, WriteUser(e) PROVE ServedInv'
  <2> SUFFICES ASSUME NEW s \in Sub, Running(s)', <<"created", s>> \in written',
                      s \notin overwritten'
               PROVE  /\ user'.tier = GivenTier(s)
                      /\ ProviderOf[s] = "stripe" => user'.subscription = s
    BY DEF ServedInv
  <2>1. Running(s) /\ s \notin overwritten /\ e[2] = s
    BY <1>4 DEF WriteUser, TierWrittenBy, Running, world
  <2>2. e[1] # "deleted"
    BY <1>4, <2>1 DEF WriteUser, SentInv, Running
  <2>3. user' = RowAfter(e) /\ written' = written \cup {e}
    BY <1>4 DEF WriteUser
  <2>4. CASE e[1] = "created" /\ ProviderOf[s] = "stripe"
    BY <1>0, <2>1, <2>3, <2>4 DEF RowAfter, UserRow
  <2>5. CASE ~(e[1] = "created" /\ ProviderOf[s] = "stripe")
    <3>1. user'.tier = GivenTier(s) /\ user'.subscription = user.subscription
      BY <1>0, <2>1, <2>2, <2>3, <2>5 DEF RowAfter, UserRow
    <3>2. ASSUME ProviderOf[s] = "stripe" PROVE <<"created", s>> \in written
      BY <2>1, <2>3, <2>5, <3>2
    <3>3. QED
      BY <2>1, <3>1, <3>2 DEF ServedInv
  <2>6. QED
    BY <2>4, <2>5
<1>5. CASE Webhooks /\ ~\E e \in Event : WriteUser(e)
  BY <1>5, ServedInvKept DEF Webhooks, Receive, RecordEvent, RecordRefused,
     StatementFails, AnswerLost, Answer, rows, world, history, Running
<1>6. CASE StartTrial \/ \E r \in Replica : EndTrial(r)
  BY <1>6 DEF StartTrial, EndTrial, TierWrittenBy, ServedInv, Running, world,
     SubscriptionAssumption
<1>7. CASE Trials /\ ~StartTrial
  <2>1. user'.tier = user.tier /\ user'.subscription = user.subscription
    BY <1>0, <1>7 DEF Trials, CheckStart, CheckExtend, ExtendTrial, rows, UserRow
  <2>2. QED
    BY <1>7, <2>1, ServedInvKept DEF Trials, CheckStart, CheckExtend, ExtendTrial,
       Running, world, history
<1>8. CASE Jobs /\ ~\E r \in Replica : EndTrial(r)
  <2>1. user'.tier = user.tier /\ user'.subscription = user.subscription
    BY <1>0, <1>8 DEF Jobs, FindTrial, ReadTrial, JobFails, ClearPromo, rows, UserRow
  <2>2. QED
    BY <1>8, <2>1, ServedInvKept DEF Jobs, FindTrial, ReadTrial, JobFails, ClearPromo,
       Running, world, history
<1>9. QED
  BY <1>1, <1>2, <1>3, <1>4, <1>5, <1>6, <1>7, <1>8 DEF Next, Webhooks

\* A paying user whose payment was acknowledged has the tier, unless it was written over.
THEOREM ServedCorrect == Spec => []UnservedOnlyIfOverwritten
<1> DEFINE Inv == TypeOK /\ StageInv /\ SentInv /\ ServedInv
<1>1. Init => Inv
  BY InitType, StageInvInit, SentInvInit, ServedInvInit
<1>2. Inv /\ [Next]_vars => Inv'
  BY CheckoutsType, WorldType, WebhooksType, TrialsType, JobsType, StutterType,
     StageInvNext, SentInvNext, ServedInvNext DEF Next
<1>3. Inv => UnservedOnlyIfOverwritten
  BY EndEvents DEF StageInv, ServedInv, UnservedOnlyIfOverwritten, Applied, Writes, GivenTier
<1>4. QED
  BY <1>1, <1>2, <1>3, PTL DEF Spec

-----------------------------------------------------------------------------
(* The end of a subscription. *)

EndedInv == \A s \in Sub : <<"deleted", s>> \in written /\ source = s => s \in late

LEMMA EndedInvInit == Init => EndedInv
BY DEF Init, EndedInv

LEMMA EndedInvNext == TypeOK /\ EndedInv /\ [Next]_vars => EndedInv'
<1> SUFFICES ASSUME TypeOK, EndedInv, [Next]_vars PROVE EndedInv'
  OBVIOUS
<1>1. ASSUME NEW e \in Event, WriteUser(e) PROVE EndedInv'
  <2>1. e[1] = "deleted" => source' = NoOne
    <3>1. e[1] = "deleted" => user'.tier = 0
      BY <1>1, EventFacts DEF WriteUser, RowAfter, TypeOK, UserRow, Provider
    <3>2. QED
      BY <1>1, <3>1 DEF WriteUser
  <2>2. source' \in {NoOne, e[2]} /\ written' = written \cup {e} /\ late \subseteq late'
    BY <1>1 DEF WriteUser
  <2>3. CASE e[1] = "deleted"
    BY <2>1, <2>3 DEF EndedInv
  <2>4. CASE e[1] # "deleted"
    <3>1. <<"deleted", e[2]>> \in written => e[2] \in late'
      BY <1>1, <2>4 DEF WriteUser
    <3>2. <<"deleted", e[2]>> # e
      BY <2>4, EventFacts
    <3>3. QED
      BY <2>2, <3>1, <3>2 DEF EndedInv
  <2>5. QED
    BY <2>3, <2>4
<1>2. CASE StartTrial \/ \E r \in Replica : EndTrial(r)
  BY <1>2 DEF StartTrial, EndTrial, EndedInv
<1>3. CASE \/ UNCHANGED vars \/ Checkouts \/ World
           \/ Webhooks /\ ~\E e \in Event : WriteUser(e)
           \/ Trials /\ ~StartTrial
           \/ Jobs /\ ~\E r \in Replica : EndTrial(r)
  <2>1. UNCHANGED <<written, source, late>>
    BY <1>3 DEF Checkouts, BeginCheckout, CheckTier, OpenCheckout, World, Pay, End,
       TrialRunsOut, PromoRunsOut, Webhooks, Receive, RecordEvent, RecordRefused, StatementFails,
       AnswerLost, Answer, Trials, CheckStart, CheckExtend, ExtendTrial, Jobs, FindTrial,
       ReadTrial, JobFails, ClearPromo, history, vars
  <2>2. QED
    BY <2>1 DEF EndedInv
<1>4. QED
  BY <1>1, <1>2, <1>3 DEF Next, Webhooks, Trials, Jobs

\* What has ended gives no tier, unless an opening event was applied after the end.
THEOREM EndedCorrect == Spec => []EndedGivesNothingUnlessLate
<1> DEFINE Inv == TypeOK /\ StageInv /\ EndedInv
<1>1. Init => Inv
  BY InitType, StageInvInit, EndedInvInit
<1>2. Inv /\ [Next]_vars => Inv'
  BY CheckoutsType, WorldType, WebhooksType, TrialsType, JobsType, StutterType,
     StageInvNext, EndedInvNext DEF Next
<1>3. Inv => EndedGivesNothingUnlessLate
  BY EndEvents DEF StageInv, EndedInv, EndedGivesNothingUnlessLate, Applied, Writes
<1>4. QED
  BY <1>1, <1>2, <1>3, PTL DEF Spec

=============================================================================
