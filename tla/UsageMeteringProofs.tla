------------------------- MODULE UsageMeteringProofs -------------------------
(***************************************************************************)
(* Theorems about UsageMetering, for any number of organisations, reports, *)
(* requests, replicas and faults, and for any tiers.                       *)
(***************************************************************************)
EXTENDS UsageMetering, SumLemmas, TLAPS

(* A transaction that does not create the balance found it, and what a run *)
(* of the job holds are balances that exist.                               *)
MetersBacked ==
  \A t \in DOMAIN metering :
    metering[t].pc = "commit" /\ ~ metering[t].fresh
      => HasBalance(OrgOf[metering[t].key])

JobBacked(j) ==
  /\ invoicing[j].todo \subseteq DOMAIN balances
  /\ invoicing[j].pc \in {"item", "invoice", "reset"}
       => invoicing[j].org \in invoicing[j].todo
  /\ invoicing[j].pc = "event" => invoicing[j].org \in Orgs

Backed == MetersBacked /\ \A j \in DOMAIN invoicing : JobBacked(j)

Base == TypeOK /\ Backed

-----------------------------------------------------------------------------
(* What the helpers return, and what they do to the request or run of the   *)
(* job that moves, and to no other.                                         *)

LEMMA CoveredFacts ==
  ASSUME NEW credits \in Nat, NEW remaining \in Int
  PROVE  /\ Covered(credits, remaining) \in Nat
         /\ Covered(credits, remaining) <= credits
         /\ remaining >= 0 => Covered(credits, remaining) <= remaining
         /\ remaining <= 0 => Covered(credits, remaining) = 0
BY DEF Covered

LEMMA NewBalanceType ==
  ASSUME NEW included \in Nat
  PROVE  /\ NewBalance(included) \in Balance
         /\ NewBalance(included).included = included
         /\ NewBalance(included).used = 0
         /\ NewBalance(included).overage = 0
BY DEF NewBalance, Balance

LEMMA OverageType == TypeOK => \A o \in Orgs : Overage(o) \in Nat
BY DEF TypeOK, Overage, HasBalance, Balance

(* A row is put into the table. *)
LEMMA PutBalance ==
  ASSUME TypeOK, NEW o \in Orgs, NEW row \in Balance, balances' = Put(balances, o, row)
  PROVE  /\ DOMAIN balances' = DOMAIN balances \cup {o}
         /\ DOMAIN balances' \subseteq Orgs
         /\ balances' \in [DOMAIN balances' -> Balance]
         /\ balances'[o] = row
         /\ \A p \in DOMAIN balances : p # o => balances'[p] = balances[p]
BY DEF Put, TypeOK

(* A request other than t is as it was, and t is gone or as given. *)
LEMMA DropMeter ==
  ASSUME TypeOK, NEW t, metering' = Drop(metering, t)
  PROVE  /\ DOMAIN metering' = DOMAIN metering \ {t}
         /\ metering' \in [DOMAIN metering' -> Meter]
         /\ \A u \in DOMAIN metering' : metering'[u] = metering[u]
BY DEF Drop, TypeOK

LEMMA SetMeter ==
  ASSUME TypeOK, NEW t \in Tasks, NEW m \in Meter, metering' = Put(metering, t, m)
  PROVE  /\ DOMAIN metering' = DOMAIN metering \cup {t}
         /\ metering' \in [DOMAIN metering' -> Meter]
         /\ metering'[t] = m
         /\ \A u \in DOMAIN metering : u # t => metering'[u] = metering[u]
BY DEF Put, TypeOK

(* A step of a run of the job: it holds no more than before. *)
JobMoves(j) ==
  /\ j \in DOMAIN invoicing
  /\ DOMAIN invoicing' \subseteq DOMAIN invoicing
  /\ invoicing' \in [DOMAIN invoicing' -> Invoicing]
  /\ \A i \in DOMAIN invoicing :
       i # j => i \in DOMAIN invoicing' /\ invoicing'[i] = invoicing[i]
  /\ j \in DOMAIN invoicing' =>
       /\ invoicing'[j].todo \subseteq invoicing[j].todo
       /\ invoicing'[j].owed = invoicing[j].owed

(* Past its move, the run is at pc with organisation o. *)
JobIs(j, pc, o) ==
  j \in DOMAIN invoicing' /\ invoicing'[j].pc = pc /\ invoicing'[j].org = o

LEMMA NextOrgMoves ==
  ASSUME Base, NEW j \in DOMAIN invoicing, NEW o, NextOrg(j, o)
  PROVE  /\ JobMoves(j)
         /\ j \in DOMAIN invoicing' => invoicing'[j].pc = "user"
<1> DEFINE new == [invoicing[j] EXCEPT !.pc = "user", !.todo = @ \ {o}, !.org = NoOrg]
<1>1. invoicing[j] \in Invoicing
  BY DEF Base, TypeOK
<1>2. new \in Invoicing /\ new.todo \subseteq invoicing[j].todo
                        /\ new.owed = invoicing[j].owed /\ new.pc = "user"
  BY <1>1 DEF Invoicing
<1>3. CASE invoicing' = Drop(invoicing, j)
  BY <1>3 DEF Drop, JobMoves, Base, TypeOK
<1>4. CASE invoicing' = [invoicing EXCEPT ![j] = new]
  BY <1>2, <1>4 DEF JobMoves, Base, TypeOK
<1>5. QED
  BY <1>1, <1>3, <1>4 DEF NextOrg, Invoicing

LEMMA DropMoves ==
  ASSUME Base, NEW j \in DOMAIN invoicing, invoicing' = Drop(invoicing, j)
  PROVE  JobMoves(j) /\ j \notin DOMAIN invoicing'
BY DEF Drop, JobMoves, Base, TypeOK

LEMMA GoMoves ==
  ASSUME Base, NEW j \in DOMAIN invoicing,
         NEW pc \in {"user", "item", "invoice", "reset", "event"}, GoJob(j, pc)
  PROVE  /\ JobMoves(j)
         /\ JobIs(j, pc, invoicing[j].org)
         /\ invoicing'[j].todo = invoicing[j].todo
<1> DEFINE new == [invoicing[j] EXCEPT !.pc = pc]
<1>1. invoicing[j] \in Invoicing
  BY DEF Base, TypeOK
<1>2. /\ new \in Invoicing /\ new.todo = invoicing[j].todo
      /\ new.owed = invoicing[j].owed /\ new.pc = pc /\ new.org = invoicing[j].org
  BY <1>1 DEF Invoicing
<1>3. invoicing' = [invoicing EXCEPT ![j] = new]
  BY <1>1 DEF GoJob, Invoicing
<1>4. QED
  BY <1>2, <1>3 DEF JobMoves, JobIs, Base, TypeOK

(* What is in flight stays backed when no row of balances goes away: none   *)
(* does.                                                                    *)
LEMMA MetersStayBacked ==
  ASSUME Backed, DOMAIN balances \subseteq DOMAIN balances',
         \A u \in DOMAIN metering' :
           u \in DOMAIN metering /\ metering'[u] = metering[u]
  PROVE  MetersBacked'
BY DEF Backed, MetersBacked, HasBalance

LEMMA JobsStayBacked ==
  ASSUME Backed, DOMAIN balances \subseteq DOMAIN balances', UNCHANGED invoicing
  PROVE  (\A j \in DOMAIN invoicing : JobBacked(j))'
BY DEF Backed, JobBacked

(* A run of the job that goes on to another user, or to the step it is at,  *)
(* is backed, and so are the others.                                        *)
LEMMA JobMovesKeepBacked ==
  ASSUME Base, NEW j, JobMoves(j),
         DOMAIN balances \subseteq DOMAIN balances', UNCHANGED metering,
         j \in DOMAIN invoicing' =>
           \/ invoicing'[j].pc = "user"
           \/ /\ invoicing'[j].pc = "event"
              /\ invoicing'[j].org \in Orgs
           \/ invoicing'[j].org \in invoicing'[j].todo
  PROVE  /\ DOMAIN invoicing' \subseteq Jobs
         /\ invoicing' \in [DOMAIN invoicing' -> Invoicing]
         /\ Backed'
<1>1. MetersBacked'
  BY MetersStayBacked DEF Base
<1>2. ASSUME NEW i \in DOMAIN invoicing' PROVE JobBacked(i)'
  <2>1. CASE i = j
    <3>1. invoicing'[j].todo \subseteq DOMAIN balances'
      BY <2>1 DEF JobMoves, Base, Backed, JobBacked
    <3>2. invoicing'[j].todo \subseteq Orgs
      BY <1>2, <2>1 DEF JobMoves, Invoicing
    <3>3. QED
      BY <1>2, <2>1, <3>1, <3>2 DEF JobBacked
  <2>2. CASE i # j
    BY <1>2, <2>2 DEF JobMoves, Base, Backed, JobBacked
  <2>3. QED
    BY <2>1, <2>2
<1>3. QED
  BY <1>1, <1>2 DEF JobMoves, Base, TypeOK, Backed

-----------------------------------------------------------------------------
(* The base *)

LEMMA BaseInit == Init => Base
<1> USE UsageAssumption DEF Empty
<1>1. Init => TypeOK
  BY DEF Init, TypeOK
<1>2. Init => Backed
  BY DEF Init, Backed, MetersBacked
<1>3. QED
  BY <1>1, <1>2 DEF Base

(* What ReadBalance computes: the row it reads, the share of the report     *)
(* that the included credits cover, and the rest.                           *)
RowRead(t) ==
  IF HasBalance(OrgOf[metering[t].key]) THEN balances[OrgOf[metering[t].key]]
  ELSE NewBalance(Included[metering[t].tier])
UsedRead(t) ==
  Covered(CreditsOf[metering[t].key], RowRead(t).included - RowRead(t).used)
OverageRead(t) == CreditsOf[metering[t].key] - UsedRead(t)
MeterRead(t) ==
  [metering[t] EXCEPT !.pc = "commit", !.used = UsedRead(t),
                      !.overage = OverageRead(t), !.seen = RowRead(t).used,
                      !.fresh = ~ HasBalance(OrgOf[metering[t].key])]

(* Either the request goes on to its commit with them, or it ends. *)
ReadFacts(t) ==
  /\ metering[t] \in Meter /\ metering[t].pc = "read"
  /\ OrgOf[metering[t].key] \in Orgs
  /\ RowRead(t) \in Balance
  /\ UsedRead(t) \in Nat /\ OverageRead(t) \in Nat
  /\ MeterRead(t) \in Meter
  /\ metering' \in [DOMAIN metering' -> Meter]
  /\ \A u \in DOMAIN metering' \ {t} :
       u \in DOMAIN metering /\ metering'[u] = metering[u]
  /\ t \in DOMAIN metering' =>
       /\ metering'[t] = MeterRead(t)
       /\ metering[t].key \notin events
       /\ Allowed(metering[t].tier, OverageRead(t))
  /\ DOMAIN metering' \subseteq DOMAIN metering

LEMMA ReadBalanceReads ==
  ASSUME Base, NEW t \in Tasks, ReadBalance(t)
  PROVE  ReadFacts(t)
<1> USE UsageAssumption
<1> DEFINE k == metering[t].key
           o == OrgOf[k]
<1>1. metering[t] \in Meter /\ metering[t].pc = "read" /\ t \in DOMAIN metering
  BY DEF ReadBalance, MeterAt, Base, TypeOK
<1>2. k \in Keys /\ o \in Orgs /\ CreditsOf[k] \in Nat /\ Included[metering[t].tier] \in Nat
  BY <1>1 DEF Meter
<1>3. RowRead(t) \in Balance
  BY <1>2, NewBalanceType DEF RowRead, HasBalance, Base, TypeOK
<1>4. RowRead(t).included - RowRead(t).used \in Int
  BY <1>3 DEF Balance
<1>5. UsedRead(t) \in Nat /\ UsedRead(t) <= CreditsOf[k]
  BY <1>2, <1>4, CoveredFacts DEF UsedRead
<1>6. OverageRead(t) \in Nat
  BY <1>2, <1>5 DEF OverageRead
<1>7. MeterRead(t) \in Meter
  BY <1>1, <1>3, <1>5, <1>6 DEF MeterRead, Meter, Balance, HasBalance
<1>8. CASE k \notin events /\ Allowed(metering[t].tier, OverageRead(t))
  <2>1. metering' = [metering EXCEPT ![t] = MeterRead(t)]
    BY <1>8 DEF ReadBalance, MeterRead, RowRead, UsedRead, OverageRead
  <2>2. DOMAIN metering' = DOMAIN metering /\ metering'[t] = MeterRead(t)
        /\ \A u \in DOMAIN metering : u # t => metering'[u] = metering[u]
    BY <1>1, <2>1
  <2>3. metering' \in [DOMAIN metering' -> Meter]
    BY <1>7, <2>1, <2>2 DEF Base, TypeOK
  <2>4. QED
    BY <1>1, <1>2, <1>3, <1>5, <1>6, <1>7, <1>8, <2>1, <2>2, <2>3 DEF ReadFacts
<1>9. CASE ~ (k \notin events /\ Allowed(metering[t].tier, OverageRead(t)))
  <2>1. metering' = Drop(metering, t)
    BY <1>9 DEF ReadBalance, RowRead, UsedRead, OverageRead
  <2>2. QED
    BY <1>1, <1>2, <1>3, <1>5, <1>6, <1>7, <1>9, <2>1, DropMeter DEF Base, ReadFacts
<1>10. QED
  BY <1>8, <1>9

LEMMA ReadBalanceKeepsBase ==
  ASSUME Base, NEW t \in Tasks, ReadBalance(t)
  PROVE  Base'
<1>0. ReadFacts(t)
  BY ReadBalanceReads
<1>1. TypeOK'
  BY <1>0 DEF ReadFacts, ReadBalance, Base, TypeOK, stripeVars, boundVars
<1>2. MetersBacked'
  <2> SUFFICES ASSUME NEW u \in DOMAIN metering', metering'[u].pc = "commit",
                      ~ metering'[u].fresh
               PROVE  OrgOf[metering'[u].key] \in DOMAIN balances'
    BY DEF MetersBacked, HasBalance
  <2>1. CASE u = t
    BY <2>1, <1>0 DEF ReadFacts, MeterRead, Meter, ReadBalance, HasBalance, MeterAt
  <2>2. CASE u # t
    BY <2>2, <1>0 DEF ReadFacts, Base, Backed, MetersBacked, ReadBalance, HasBalance
  <2>3. QED
    BY <2>1, <2>2
<1>3. QED
  BY <1>1, <1>2, JobsStayBacked DEF ReadBalance, Base, Backed

(* The row a transaction commits: the increments on what is there by then. *)
Increased(row, used, overage) ==
  [row EXCEPT !.used = @ + used, !.overage = @ + overage]
RowFound(t) ==
  IF metering[t].fresh THEN NewBalance(Included[metering[t].tier])
  ELSE balances[OrgOf[metering[t].key]]
RowWritten(t) == Increased(RowFound(t), metering[t].used, metering[t].overage)

LEMMA AddUsage ==
  ASSUME NEW row \in Balance, NEW used \in Nat, NEW overage \in Nat
  PROVE  /\ Increased(row, used, overage) \in Balance
         /\ Increased(row, used, overage).included = row.included
         /\ Increased(row, used, overage).used = row.used + used
         /\ Increased(row, used, overage).overage = row.overage + overage
<1> DEFINE x == row.used + used
           y == row.overage + overage
<1>1. x \in Nat /\ y \in Nat
  BY DEF Balance
<1>2. Increased(row, used, overage) = [row EXCEPT !.used = x, !.overage = y]
  BY DEF Increased
<1> HIDE DEF x, y
<1>3. /\ Increased(row, used, overage) \in Balance
      /\ Increased(row, used, overage).included = row.included
      /\ Increased(row, used, overage).used = x
      /\ Increased(row, used, overage).overage = y
  BY <1>1, <1>2 DEF Balance
<1>4. QED
  BY <1>3 DEF x, y

(* Either the report and its row are stored, or nothing is. *)
CommitFacts(t) ==
  /\ metering[t] \in Meter /\ metering[t].pc = "commit"
  /\ t \in DOMAIN metering
  /\ OrgOf[metering[t].key] \in Orgs
  /\ DOMAIN metering' = DOMAIN metering \ {t}
  /\ metering' \in [DOMAIN metering' -> Meter]
  /\ \A u \in DOMAIN metering' : metering'[u] = metering[u]
  /\ \/ UNCHANGED <<events, balances, disturbed, stale>>
     \/ /\ metering[t].key \notin events
        /\ ~ (metering[t].fresh /\ HasBalance(OrgOf[metering[t].key]))
        /\ ~ metering[t].fresh => HasBalance(OrgOf[metering[t].key])
        /\ RowWritten(t) \in Balance
        /\ balances' = Put(balances, OrgOf[metering[t].key], RowWritten(t))
        /\ events' = events \cup {metering[t].key}
        /\ disturbed' =
             IF metering[t].overage > 0
                /\ \E j \in Jobs : Pending(j, OrgOf[metering[t].key])
             THEN disturbed \cup {OrgOf[metering[t].key]} ELSE disturbed
        /\ stale' =
             IF RowFound(t).used = metering[t].seen THEN stale
             ELSE [stale EXCEPT ![OrgOf[metering[t].key]] = @ + metering[t].used]

LEMMA CommitUsageCommits ==
  ASSUME Base, NEW t \in Tasks, CommitUsage(t)
  PROVE  CommitFacts(t)
<1> USE UsageAssumption
<1> DEFINE o == OrgOf[metering[t].key]
<1>1. metering[t] \in Meter /\ metering[t].pc = "commit" /\ t \in DOMAIN metering
  BY DEF CommitUsage, MeterAt, Base, TypeOK
<1>2. o \in Orgs /\ Included[metering[t].tier] \in Nat
  BY <1>1 DEF Meter
<1>3. ~ metering[t].fresh => HasBalance(o)
  BY <1>1 DEF Base, Backed, MetersBacked
<1>4. RowFound(t) \in Balance
  BY <1>2, <1>3, NewBalanceType DEF RowFound, HasBalance, Base, TypeOK
<1>5. metering[t].used \in Nat /\ metering[t].overage \in Nat
  BY <1>1 DEF Meter
<1>6. RowWritten(t) \in Balance
  BY <1>4, <1>5, AddUsage DEF RowWritten
<1>7. /\ DOMAIN metering' = DOMAIN metering \ {t}
      /\ metering' \in [DOMAIN metering' -> Meter]
      /\ \A u \in DOMAIN metering' : metering'[u] = metering[u]
  BY DropMeter DEF CommitUsage, Base
<1>8. CASE Commits(t)
  BY <1>1, <1>2, <1>3, <1>6, <1>7, <1>8
  DEF CommitUsage, Commits, RowWritten, RowFound, Increased, CommitFacts
<1>9. CASE ~ Commits(t)
  BY <1>1, <1>2, <1>7, <1>9 DEF CommitUsage, CommitFacts
<1>10. QED
  BY <1>8, <1>9

LEMMA CommitUsageKeepsBase ==
  ASSUME Base, NEW t \in Tasks, CommitUsage(t)
  PROVE  Base'
<1>0. CommitFacts(t)
  BY CommitUsageCommits
<1>1. /\ DOMAIN balances \subseteq DOMAIN balances'
      /\ DOMAIN balances' \subseteq Orgs
      /\ balances' \in [DOMAIN balances' -> Balance]
  <2> DEFINE o == OrgOf[metering[t].key]
  <2>1. CASE balances' = balances
    BY <2>1 DEF Base, TypeOK
  <2>2. CASE balances' = Put(balances, o, RowWritten(t)) /\ RowWritten(t) \in Balance
    <3>1. o \in Orgs
      BY <1>0 DEF CommitFacts
    <3>2. QED
      BY <2>2, <3>1, PutBalance DEF Base
  <2>3. QED
    BY <1>0, <2>1, <2>2 DEF CommitFacts
<1>2. events' \subseteq Keys /\ disturbed' \subseteq Orgs
  BY <1>0 DEF CommitFacts, Base, TypeOK, Meter
<1>3. stale' \in [Orgs -> Nat]
  <2>1. metering[t].used \in Nat
    BY <1>0 DEF CommitFacts, Meter
  <2>2. QED
    BY <1>0, <2>1 DEF CommitFacts, Base, TypeOK
<1>4. TypeOK'
  BY <1>1, <1>0, <1>2, <1>3 DEF CommitFacts, CommitUsage, Base, TypeOK, stripeVars, boundVars
<1>5. QED
  BY <1>1, <1>0, <1>4, MetersStayBacked, JobsStayBacked
  DEF CommitFacts, CommitUsage, Base, Backed

LEMMA RequestKeepsBase ==
  ASSUME Base, NEW t \in Tasks, Request(t)
  PROVE  Base'
<1> USE UsageAssumption
<1>1. CASE \E o \in Orgs : FindNoBalance(t, o)
  <2>1. PICK o \in Orgs : FindNoBalance(t, o)
    BY <1>1
  <2>2. TypeOK'
    BY <2>1 DEF FindNoBalance, Put, Base, TypeOK, Open, stripeVars, boundVars
  <2>3. Backed'
    BY <2>1, MetersStayBacked, JobsStayBacked DEF FindNoBalance, Base, Backed
  <2>4. QED
    BY <2>2, <2>3 DEF Base
<1>2. CASE CreateBalance(t)
  <2> DEFINE o == opening[t].org
             row == NewBalance(Included[opening[t].tier])
  <2>1. o \in Orgs /\ Included[opening[t].tier] \in Nat
    BY <1>2 DEF CreateBalance, Base, TypeOK, Open
  <2>2. row \in Balance
    BY <2>1, NewBalanceType
  <2>3. balances' = balances \/ balances' = Put(balances, o, row)
    BY <1>2 DEF CreateBalance
  <2>4. /\ DOMAIN balances \subseteq DOMAIN balances'
        /\ DOMAIN balances' \subseteq Orgs
        /\ balances' \in [DOMAIN balances' -> Balance]
    <3>1. CASE balances' = balances
      BY <3>1 DEF Base, TypeOK
    <3>2. CASE balances' = Put(balances, o, row)
      <4> HIDE DEF o, row
      <4> QED
        BY <2>1, <2>2, <3>2, PutBalance DEF Base
    <3>3. QED
      BY <2>3, <3>1, <3>2
  <2>5. TypeOK'
    BY <1>2, <2>4 DEF CreateBalance, Drop, Base, TypeOK, stripeVars, boundVars
  <2>6. Backed'
    BY <1>2, <2>4, MetersStayBacked, JobsStayBacked DEF CreateBalance, Base, Backed
  <2>7. QED
    BY <2>5, <2>6 DEF Base
<1>3. CASE \E k \in Keys : RecordUsage(t, k)
  <2>1. PICK k \in Keys : RecordUsage(t, k)
    BY <1>3
  <2> DEFINE m == [pc |-> "tier", key |-> k, tier |-> BaseTier, used |-> 0,
                   overage |-> 0, seen |-> 0, fresh |-> FALSE]
  <2>2. m \in Meter
    BY DEF Meter
  <2>3. metering' = Put(metering, t, m)
    BY <2>1 DEF RecordUsage
  <2>4. /\ DOMAIN metering' = DOMAIN metering \cup {t}
        /\ metering' \in [DOMAIN metering' -> Meter]
        /\ metering'[t] = m
        /\ \A u \in DOMAIN metering : u # t => metering'[u] = metering[u]
    BY <2>2, <2>3, SetMeter DEF Base
  <2>5. TypeOK'
    BY <2>1, <2>4 DEF RecordUsage, Base, TypeOK, stripeVars, boundVars
  <2>6. MetersBacked'
    <3> SUFFICES ASSUME NEW u \in DOMAIN metering', metering'[u].pc = "commit",
                        ~ metering'[u].fresh
                 PROVE  OrgOf[metering'[u].key] \in DOMAIN balances'
      BY DEF MetersBacked, HasBalance
    <3>1. u \in DOMAIN metering /\ metering'[u] = metering[u]
      BY <2>4
    <3>2. QED
      BY <2>1, <3>1 DEF RecordUsage, Base, Backed, MetersBacked, HasBalance
  <2>7. QED
    BY <2>1, <2>5, <2>6, JobsStayBacked DEF RecordUsage, Base, Backed
<1>4. CASE ReadTier(t)
  <2>1. metering[t] \in Meter /\ tier[OrgOf[metering[t].key]] \in Tiers
    BY <1>4 DEF ReadTier, MeterAt, Base, TypeOK, Meter
  <2>2. TypeOK'
    BY <1>4, <2>1 DEF ReadTier, MeterAt, Base, TypeOK, Meter, stripeVars, boundVars
  <2>3. MetersBacked'
    BY <1>4, <2>1 DEF ReadTier, MeterAt, Meter, Base, TypeOK, Backed, MetersBacked, HasBalance
  <2>4. QED
    BY <1>4, <2>2, <2>3, JobsStayBacked DEF ReadTier, Base, Backed
<1>5. CASE ReadBalance(t)
  BY <1>5, ReadBalanceKeepsBase
<1>6. CASE CommitUsage(t)
  BY <1>6, CommitUsageKeepsBase
<1>7. CASE MeterFails(t)
  <2>1. /\ DOMAIN metering' = DOMAIN metering \ {t}
        /\ metering' \in [DOMAIN metering' -> Meter]
        /\ \A u \in DOMAIN metering' : metering'[u] = metering[u]
    BY <1>7, DropMeter DEF MeterFails, Base
  <2>2. TypeOK'
    BY <1>7, <2>1 DEF MeterFails, Base, TypeOK, stripeVars, boundVars
  <2>3. QED
    BY <1>7, <2>1, <2>2, MetersStayBacked, JobsStayBacked
    DEF MeterFails, Base, Backed
<1>8. QED
  BY <1>1, <1>2, <1>3, <1>4, <1>5, <1>6, <1>7 DEF Request

LEMMA StartKeepsBase ==
  ASSUME Base, NEW j \in Jobs, InvoiceOverages(j)
  PROVE  Base'
<1> DEFINE new == [pc |-> "user", todo |-> Owing,
                   owed |-> [o \in Orgs |-> Overage(o)], org |-> NoOrg]
<1>1. new \in Invoicing
  BY OverageType DEF Invoicing, Owing, Base
<1>2. Owing \subseteq DOMAIN balances
  BY DEF Owing, Overage, HasBalance
<1>3. invoicing' = Put(invoicing, j, new)
  BY DEF InvoiceOverages
<1> HIDE DEF new
<1>4. /\ DOMAIN invoicing' = DOMAIN invoicing \cup {j}
      /\ invoicing' \in [DOMAIN invoicing' -> Invoicing]
      /\ invoicing'[j] = new
      /\ \A i \in DOMAIN invoicing : i # j => invoicing'[i] = invoicing[i]
  BY <1>1, <1>3 DEF Put, Base, TypeOK
<1>5. TypeOK'
  BY <1>4 DEF InvoiceOverages, Owing, Base, TypeOK, requestVars, stripeVars, boundVars
<1>6. MetersBacked'
  BY MetersStayBacked DEF InvoiceOverages, Base, requestVars
<1>7. ASSUME NEW i \in DOMAIN invoicing' PROVE JobBacked(i)'
  <2>1. CASE i = j
    BY <1>2, <1>4, <2>1 DEF JobBacked, InvoiceOverages, new
  <2>2. CASE i # j
    BY <1>4, <1>7, <2>2 DEF JobBacked, InvoiceOverages, Base, Backed
  <2>3. QED
    BY <2>1, <2>2
<1>8. QED
  BY <1>5, <1>6, <1>7 DEF Base, Backed

(* What a run of the job is about is an organisation with a balance. *)
LEMMA JobOrg ==
  ASSUME Base, NEW j, JobAt(j, "item") \/ JobAt(j, "invoice") \/ JobAt(j, "reset")
  PROVE  /\ j \in DOMAIN invoicing
         /\ invoicing[j] \in Invoicing
         /\ invoicing[j].org \in invoicing[j].todo
         /\ invoicing[j].org \in Orgs
         /\ invoicing[j].org \in DOMAIN balances
         /\ invoicing[j].owed[invoicing[j].org] \in Nat
<1>1. j \in DOMAIN invoicing /\ invoicing[j] \in Invoicing
      /\ invoicing[j].pc \in {"item", "invoice", "reset"}
  BY DEF JobAt, Base, TypeOK
<1>2. invoicing[j].org \in invoicing[j].todo
  BY <1>1 DEF Base, Backed, JobBacked
<1>3. QED
  BY <1>1, <1>2 DEF Base, Backed, JobBacked, Invoicing

LEMMA LookUpMoves ==
  ASSUME Base, NEW j \in Jobs, NEW o \in Orgs, LookUpUser(j, o)
  PROVE  /\ JobMoves(j)
         /\ j \in DOMAIN invoicing' =>
              \/ invoicing'[j].pc = "user"
              \/ /\ invoicing'[j].pc = "item"
                 /\ invoicing'[j].org = o
                 /\ o \in invoicing'[j].todo
                 /\ Chargeable(o, invoicing[j].owed[o])
<1>1. j \in DOMAIN invoicing /\ invoicing[j] \in Invoicing /\ o \in invoicing[j].todo
  BY DEF LookUpUser, JobAt, Base, TypeOK
<1>2. CASE Chargeable(o, invoicing[j].owed[o])
  <2> DEFINE new == [invoicing[j] EXCEPT !.pc = "item", !.org = o]
  <2>1. /\ new \in Invoicing /\ new.todo = invoicing[j].todo
        /\ new.owed = invoicing[j].owed /\ new.pc = "item" /\ new.org = o
    BY <1>1 DEF Invoicing
  <2>2. invoicing' = [invoicing EXCEPT ![j] = new]
    BY <1>1, <1>2 DEF LookUpUser
  <2> HIDE DEF new
  <2>3. QED
    BY <1>1, <1>2, <2>1, <2>2 DEF JobMoves, Base, TypeOK
<1>3. CASE ~ Chargeable(o, invoicing[j].owed[o])
  BY <1>1, <1>3, NextOrgMoves DEF LookUpUser
<1>4. QED
  BY <1>2, <1>3

LEMMA ResetMoves ==
  ASSUME Base, NEW j \in Jobs, ResetOverage(j)
  PROVE  /\ JobMoves(j)
         /\ JobIs(j, "event", invoicing[j].org)
         /\ invoicing'[j].todo = invoicing[j].todo \ {invoicing[j].org}
         /\ balances' \in [DOMAIN balances -> Balance]
         /\ DOMAIN balances' = DOMAIN balances
         /\ balances'[invoicing[j].org].overage = 0
         /\ balances'[invoicing[j].org].used = balances[invoicing[j].org].used
         /\ balances'[invoicing[j].org].included = balances[invoicing[j].org].included
         /\ \A p \in DOMAIN balances :
              p # invoicing[j].org => balances'[p] = balances[p]
         /\ cleared' \in [Orgs -> Nat]
<1> DEFINE o == invoicing[j].org
           new == [invoicing[j] EXCEPT !.pc = "event", !.todo = @ \ {o}]
           row == [balances[o] EXCEPT !.overage = 0]
<1>1. /\ j \in DOMAIN invoicing /\ invoicing[j] \in Invoicing
      /\ o \in Orgs /\ o \in DOMAIN balances
  BY JobOrg DEF ResetOverage
<1>2. /\ new \in Invoicing /\ new.todo = invoicing[j].todo \ {o}
      /\ new.owed = invoicing[j].owed /\ new.pc = "event" /\ new.org = o
  BY <1>1 DEF Invoicing
<1>3. invoicing' = [invoicing EXCEPT ![j] = new]
  BY <1>1 DEF ResetOverage
<1>4. /\ row \in Balance /\ row.overage = 0
      /\ row.used = balances[o].used /\ row.included = balances[o].included
  BY <1>1 DEF Balance, Base, TypeOK
<1>5. balances' = [balances EXCEPT ![o] = row]
  BY DEF ResetOverage
<1>6. cleared' \in [Orgs -> Nat]
  BY <1>1, OverageType DEF ResetOverage, Base, TypeOK
<1> HIDE DEF new, row
<1>7. JobMoves(j) /\ invoicing'[j] = new /\ j \in DOMAIN invoicing'
  BY <1>1, <1>2, <1>3 DEF JobMoves, Base, TypeOK
<1>8. /\ balances' \in [DOMAIN balances -> Balance]
      /\ DOMAIN balances' = DOMAIN balances
      /\ balances'[o] = row
      /\ \A p \in DOMAIN balances : p # o => balances'[p] = balances[p]
  BY <1>1, <1>4, <1>5 DEF Base, TypeOK
<1>9. QED
  BY <1>2, <1>4, <1>6, <1>7, <1>8 DEF JobIs

LEMMA JobKeepsBase ==
  ASSUME Base, NEW j \in Jobs,
         \/ JobStep(j) \/ InvoicingThrows(j) \/ AnswerLost(j) \/ JobDies(j)
  PROVE  Base'
<1> USE UsageAssumption
<1>1. ASSUME NEW o \in Orgs, LookUpUser(j, o) PROVE Base'
  <2>1. /\ DOMAIN invoicing' \subseteq Jobs
        /\ invoicing' \in [DOMAIN invoicing' -> Invoicing]
        /\ Backed'
    BY <1>1, LookUpMoves, JobMovesKeepBacked DEF LookUpUser, requestVars
  <2>2. QED
    BY <1>1, <2>1 DEF LookUpUser, Base, TypeOK, requestVars, stripeVars, boundVars
<1>2. ASSUME CreateInvoiceItem(j) PROVE Base'
  <2> DEFINE o == invoicing[j].org
  <2>1. /\ j \in DOMAIN invoicing /\ o \in invoicing[j].todo
        /\ o \in Orgs /\ invoicing[j].owed[o] \in Nat
    BY <1>2, JobOrg DEF CreateInvoiceItem
  <2>2. JobMoves(j) /\ JobIs(j, "invoice", o) /\ invoicing'[j].todo = invoicing[j].todo
    BY <1>2, <2>1, GoMoves DEF CreateInvoiceItem
  <2>3. /\ DOMAIN invoicing' \subseteq Jobs
        /\ invoicing' \in [DOMAIN invoicing' -> Invoicing]
        /\ Backed'
    BY <1>2, <2>1, <2>2, JobMovesKeepBacked DEF CreateInvoiceItem, JobIs, requestVars
  <2>4. items' \in [Orgs -> Nat]
    BY <1>2, <2>1 DEF CreateInvoiceItem, Base, TypeOK
  <2>5. QED
    BY <1>2, <2>3, <2>4 DEF CreateInvoiceItem, Base, TypeOK, requestVars, boundVars
<1>3. ASSUME CreateInvoice(j) PROVE Base'
  <2> DEFINE o == invoicing[j].org
  <2>1. j \in DOMAIN invoicing /\ o \in invoicing[j].todo /\ o \in Orgs
    BY <1>3, JobOrg DEF CreateInvoice
  <2>2. JobMoves(j) /\ JobIs(j, "reset", o) /\ invoicing'[j].todo = invoicing[j].todo
    BY <1>3, <2>1, GoMoves DEF CreateInvoice
  <2>3. /\ DOMAIN invoicing' \subseteq Jobs
        /\ invoicing' \in [DOMAIN invoicing' -> Invoicing]
        /\ Backed'
    BY <1>3, <2>1, <2>2, JobMovesKeepBacked DEF CreateInvoice, JobIs, requestVars
  <2>4. items' \in [Orgs -> Nat] /\ invoiced' \in [Orgs -> Nat]
    BY <1>3, <2>1 DEF CreateInvoice, TakeItems, Base, TypeOK
  <2>5. QED
    BY <1>3, <2>3, <2>4 DEF CreateInvoice, Base, TypeOK, requestVars, boundVars
<1>4. ASSUME ResetOverage(j) PROVE Base'
  <2>1. invoicing[j].org \in Orgs
    BY <1>4, JobOrg DEF ResetOverage
  <2>2. /\ DOMAIN invoicing' \subseteq Jobs
        /\ invoicing' \in [DOMAIN invoicing' -> Invoicing]
        /\ Backed'
    BY <1>4, <2>1, ResetMoves, JobMovesKeepBacked DEF ResetOverage, JobIs, requestVars
  <2>3. QED
    BY <1>4, <2>2, ResetMoves
    DEF ResetOverage, Base, TypeOK, requestVars, stripeVars, boundVars
<1>5. ASSUME RecordInvoice(j) PROVE Base'
  <2> DEFINE o == invoicing[j].org
  <2>1. j \in DOMAIN invoicing /\ o \in Orgs /\ invoicing[j].owed[o] \in Nat
    BY <1>5 DEF RecordInvoice, JobAt, Base, TypeOK, Backed, JobBacked, Invoicing
  <2>2. JobMoves(j) /\ (j \in DOMAIN invoicing' => invoicing'[j].pc = "user")
    BY <1>5, <2>1, NextOrgMoves DEF RecordInvoice
  <2>3. /\ DOMAIN invoicing' \subseteq Jobs
        /\ invoicing' \in [DOMAIN invoicing' -> Invoicing]
        /\ Backed'
    BY <1>5, <2>2, JobMovesKeepBacked DEF RecordInvoice, requestVars
  <2>4. billed' \in [Orgs -> Nat]
    BY <1>5, <2>1 DEF RecordInvoice, Base, TypeOK
  <2>5. QED
    BY <1>5, <2>3, <2>4 DEF RecordInvoice, Base, TypeOK, requestVars, boundVars
<1>6. ASSUME InvoicingThrows(j) PROVE Base'
  <2>1. PICK o \in Orgs : NextOrg(j, o)
    BY <1>6 DEF InvoicingThrows
  <2>2. JobMoves(j) /\ (j \in DOMAIN invoicing' => invoicing'[j].pc = "user")
    BY <1>6, <2>1, NextOrgMoves DEF InvoicingThrows
  <2>3. /\ DOMAIN invoicing' \subseteq Jobs
        /\ invoicing' \in [DOMAIN invoicing' -> Invoicing]
        /\ Backed'
    BY <1>6, <2>2, JobMovesKeepBacked DEF InvoicingThrows, requestVars
  <2>4. exposed' \subseteq Orgs /\ faults' \in 0..MaxFaults
    BY <1>6, JobOrg DEF InvoicingThrows, ExposeItem, Itemised, Fault, Base, TypeOK
  <2>5. QED
    BY <1>6, <2>3, <2>4 DEF InvoicingThrows, Base, TypeOK, requestVars, stripeVars
<1>7. ASSUME AnswerLost(j) PROVE Base'
  <2> DEFINE o == invoicing[j].org
  <2>1. j \in DOMAIN invoicing /\ o \in Orgs /\ invoicing[j].owed[o] \in Nat
    BY <1>7, JobOrg DEF AnswerLost
  <2>2. JobMoves(j) /\ (j \in DOMAIN invoicing' => invoicing'[j].pc = "user")
    BY <1>7, <2>1, NextOrgMoves DEF AnswerLost
  <2>3. /\ DOMAIN invoicing' \subseteq Jobs
        /\ invoicing' \in [DOMAIN invoicing' -> Invoicing]
        /\ Backed'
    BY <1>7, <2>2, JobMovesKeepBacked DEF AnswerLost, requestVars
  <2>4. items' \in [Orgs -> Nat] /\ invoiced' \in [Orgs -> Nat]
    BY <1>7, <2>1 DEF AnswerLost, TakeItems, Base, TypeOK
  <2>5. exposed' \subseteq Orgs /\ faults' \in 0..MaxFaults
    BY <1>7, <2>1 DEF AnswerLost, Fault, Base, TypeOK
  <2>6. QED
    BY <1>7, <2>3, <2>4, <2>5 DEF AnswerLost, Base, TypeOK, requestVars
<1>8. ASSUME JobDies(j) PROVE Base'
  <2>1. JobMoves(j) /\ j \notin DOMAIN invoicing'
    BY <1>8, DropMoves DEF JobDies
  <2>2. /\ DOMAIN invoicing' \subseteq Jobs
        /\ invoicing' \in [DOMAIN invoicing' -> Invoicing]
        /\ Backed'
    BY <1>8, <2>1, JobMovesKeepBacked DEF JobDies, requestVars
  <2>3. exposed' \subseteq Orgs /\ faults' \in 0..MaxFaults
    BY <1>8, JobOrg DEF JobDies, ExposeItem, Itemised, Fault, Base, TypeOK
  <2>4. QED
    BY <1>8, <2>2, <2>3 DEF JobDies, Base, TypeOK, requestVars, stripeVars
<1>9. QED
  BY <1>1, <1>2, <1>3, <1>4, <1>5, <1>6, <1>7, <1>8 DEF JobStep

LEMMA BillingKeepsBase ==
  ASSUME Base, NEW o \in Orgs, GrantCredits(o) \/ \E s \in Tiers : ChangeTier(o, s)
  PROVE  Base'
<1> USE UsageAssumption
<1>1. CASE GrantCredits(o)
  <2>1. /\ DOMAIN balances \subseteq DOMAIN balances'
        /\ DOMAIN balances' \subseteq Orgs
        /\ balances' \in [DOMAIN balances' -> Balance]
    <3>1. CASE HasBalance(o)
      <4> DEFINE x == balances[o].included + GrantSize
                 row == [balances[o] EXCEPT !.included = x]
      <4>1. x \in Nat
        BY <3>1 DEF HasBalance, Base, TypeOK, Balance
      <4>2. balances' = [balances EXCEPT ![o] = row]
        BY <1>1, <3>1 DEF GrantCredits
      <4> HIDE DEF x
      <4>3. row \in Balance
        BY <3>1, <4>1 DEF HasBalance, Base, TypeOK, Balance
      <4> HIDE DEF row
      <4>4. QED
        BY <3>1, <4>2, <4>3 DEF Base, TypeOK
    <3>2. CASE ~ HasBalance(o)
      <4> DEFINE row == NewBalance(Included[BaseTier] + GrantSize)
      <4>1. row \in Balance
        BY NewBalanceType
      <4>2. balances' = Put(balances, o, row)
        BY <1>1, <3>2 DEF GrantCredits
      <4> HIDE DEF row
      <4>3. QED
        BY <4>1, <4>2, PutBalance DEF Base
    <3>3. QED
      BY <3>1, <3>2
  <2>2. TypeOK'
    BY <1>1, <2>1 DEF GrantCredits, Base, TypeOK, requestVars, stripeVars
  <2>3. QED
    BY <1>1, <2>1, <2>2, MetersStayBacked, JobsStayBacked
    DEF GrantCredits, Base, Backed, requestVars
<1>2. CASE \E s \in Tiers : ChangeTier(o, s)
  <2>1. TypeOK'
    BY <1>2 DEF ChangeTier, Base, TypeOK, requestVars, stripeVars
  <2>2. QED
    BY <1>2, <2>1, MetersStayBacked, JobsStayBacked
    DEF ChangeTier, Base, Backed, requestVars
<1>3. QED
  BY <1>1, <1>2

LEMMA BaseStep == Base /\ [Next]_vars => Base'
<1> SUFFICES ASSUME Base, [Next]_vars PROVE Base'
  OBVIOUS
<1>1. CASE Next
  BY <1>1, RequestKeepsBase, StartKeepsBase, JobKeepsBase, BillingKeepsBase DEF Next
<1>2. CASE UNCHANGED vars
  <2>1. TypeOK'
    BY <1>2 DEF vars, Base, TypeOK, requestVars, stripeVars, boundVars
  <2>2. QED
    BY <1>2, <2>1, MetersStayBacked, JobsStayBacked DEF vars, Base, Backed
<1>3. QED
  BY <1>1, <1>2

(* Every value in the tables, in the requests in flight and in the runs of  *)
(* the job is of its type: no counter of credits becomes negative, and a    *)
(* write finds the row it updates.                                          *)
THEOREM UsageTypeCorrect == Spec => []TypeOK
<1>1. Base => TypeOK
  BY DEF Base
<1>2. QED
  BY <1>1, BaseInit, BaseStep, PTL DEF Spec

-----------------------------------------------------------------------------
(* The allowance *)

(* No balance loses credits, and a new one is untouched. *)
BalancesGrow ==
  /\ \A o \in DOMAIN balances :
       /\ o \in DOMAIN balances'
       /\ balances'[o].used = balances[o].used
       /\ balances'[o].overage = balances[o].overage
       /\ balances'[o].included >= balances[o].included
  /\ \A o \in DOMAIN balances' \ DOMAIN balances :
       balances'[o].used = 0 /\ balances'[o].overage = 0

LEMMA UnchangedGrows ==
  ASSUME Base, UNCHANGED balances
  PROVE  BalancesGrow
BY DEF BalancesGrow, Base, TypeOK, Balance

LEMMA PutGrows ==
  ASSUME Base, NEW o \in Orgs, ~ HasBalance(o), NEW included \in Nat,
         balances' = Put(balances, o, NewBalance(included))
  PROVE  BalancesGrow
<1> DEFINE row == NewBalance(included)
<1>1. row \in Balance /\ row.used = 0 /\ row.overage = 0
  BY NewBalanceType
<1>2. balances' = Put(balances, o, row)
  OBVIOUS
<1> HIDE DEF row
<1>3. /\ DOMAIN balances' = DOMAIN balances \cup {o} /\ balances'[o] = row
      /\ \A p \in DOMAIN balances : p # o => balances'[p] = balances[p]
  BY <1>1, <1>2, PutBalance DEF Base
<1>4. QED
  BY <1>1, <1>3 DEF BalancesGrow, HasBalance, Base, TypeOK, Balance

LEMMA CreateBalanceGrows ==
  ASSUME Base, NEW t \in Tasks, CreateBalance(t)
  PROVE  BalancesGrow
<1> USE UsageAssumption
<1>1. opening[t].org \in Orgs /\ Included[opening[t].tier] \in Nat
  BY DEF CreateBalance, Base, TypeOK, Open
<1>2. CASE HasBalance(opening[t].org)
  BY <1>2, UnchangedGrows DEF CreateBalance
<1>3. CASE ~ HasBalance(opening[t].org)
  BY <1>1, <1>3, PutGrows DEF CreateBalance
<1>4. QED
  BY <1>2, <1>3

LEMMA GrantCreditsGrows ==
  ASSUME Base, NEW o \in Orgs, GrantCredits(o)
  PROVE  BalancesGrow
<1> USE UsageAssumption
<1>1. CASE HasBalance(o)
  <2> DEFINE x == balances[o].included + GrantSize
             row == [balances[o] EXCEPT !.included = x]
  <2>1. x \in Nat /\ x >= balances[o].included
    BY <1>1 DEF HasBalance, Base, TypeOK, Balance
  <2>2. balances' = [balances EXCEPT ![o] = row]
    BY <1>1 DEF GrantCredits
  <2> HIDE DEF x
  <2>3. /\ row.used = balances[o].used /\ row.overage = balances[o].overage
        /\ row.included = x
    BY <1>1 DEF HasBalance, Base, TypeOK, Balance
  <2> HIDE DEF row
  <2>4. QED
    BY <1>1, <2>1, <2>2, <2>3 DEF BalancesGrow, HasBalance, Base, TypeOK, Balance
<1>2. CASE ~ HasBalance(o)
  BY <1>2, PutGrows DEF GrantCredits
<1>3. QED
  BY <1>1, <1>2

(* What a report is about to use fits in the allowance, above what was used *)
(* when it read the balance: an allowance never shrinks.                    *)
Fits ==
  \A t \in DOMAIN metering :
    LET m == metering[t]
    IN  m.pc = "commit" /\ m.used > 0
          => IF m.fresh THEN m.used <= Included[m.tier]
             ELSE m.seen + m.used <= balances[OrgOf[m.key]].included

Metered == Fits /\ OverdrawnOnlyByStaleReports

(* Nobody comes to a commit, and the allowances do not shrink. *)
LEMMA QuietKeepsFits ==
  ASSUME Base, Base', Fits,
         \A u \in DOMAIN metering' : metering'[u].pc = "commit"
           => u \in DOMAIN metering /\ metering'[u] = metering[u],
         \A o \in DOMAIN balances :
           o \in DOMAIN balances' /\ balances'[o].included >= balances[o].included
  PROVE  Fits'
<1> USE UsageAssumption
<1> SUFFICES ASSUME NEW t \in DOMAIN metering', metering'[t].pc = "commit",
                    metering'[t].used > 0
             PROVE  IF metering'[t].fresh
                    THEN metering'[t].used <= Included[metering'[t].tier]
                    ELSE metering'[t].seen + metering'[t].used
                           <= balances'[OrgOf[metering'[t].key]].included
  BY DEF Fits
<1> DEFINE o == OrgOf[metering[t].key]
<1>1. t \in DOMAIN metering /\ metering'[t] = metering[t] /\ metering[t] \in Meter
  BY DEF Base, TypeOK
<1>2. CASE metering[t].fresh
  BY <1>1, <1>2 DEF Fits
<1>3. CASE ~ metering[t].fresh
  <2>1. o \in DOMAIN balances /\ o \in DOMAIN balances'
    BY <1>1, <1>3 DEF Base, Backed, MetersBacked, HasBalance
  <2>2. balances[o] \in Balance /\ balances'[o] \in Balance
    BY <2>1 DEF Base, TypeOK
  <2>3. metering[t].seen + metering[t].used <= balances[o].included
    BY <1>1, <1>3 DEF Fits
  <2>4. QED
    BY <1>1, <1>3, <2>1, <2>2, <2>3 DEF Balance, Meter
<1>4. QED
  BY <1>2, <1>3

(* Nor does a balance use more. *)
LEMMA QuietKeepsMetered ==
  ASSUME Base, Base', Metered, UNCHANGED stale,
         \A u \in DOMAIN metering' : metering'[u].pc = "commit"
           => u \in DOMAIN metering /\ metering'[u] = metering[u],
         \A o \in DOMAIN balances :
           /\ o \in DOMAIN balances'
           /\ balances'[o].used = balances[o].used
           /\ balances'[o].included >= balances[o].included,
         \A o \in DOMAIN balances' \ DOMAIN balances : balances'[o].used = 0
  PROVE  Metered'
<1>1. Fits'
  BY QuietKeepsFits DEF Metered
<1>2. OverdrawnOnlyByStaleReports'
  <2> SUFFICES ASSUME NEW o \in DOMAIN balances'
               PROVE  balances'[o].used <= balances'[o].included + stale[o]
    BY DEF OverdrawnOnlyByStaleReports
  <2>1. balances'[o] \in Balance /\ stale[o] \in Nat
    BY DEF Base, TypeOK
  <2>2. CASE o \in DOMAIN balances
    <3>1. balances[o] \in Balance /\ balances[o].used <= balances[o].included + stale[o]
      BY <2>2 DEF Base, TypeOK, Metered, OverdrawnOnlyByStaleReports
    <3>2. QED
      BY <2>1, <2>2, <3>1 DEF Balance
  <2>3. CASE o \notin DOMAIN balances
    BY <2>1, <2>3 DEF Balance
  <2>4. QED
    BY <2>2, <2>3
<1>3. QED
  BY <1>1, <1>2 DEF Metered

(* The share of a report fits in the remainder it has read. *)
LEMMA ReadBalanceKeepsMetered ==
  ASSUME Base, Metered, NEW t \in Tasks, ReadBalance(t)
  PROVE  Metered'
<1> USE UsageAssumption
<1> DEFINE o == OrgOf[metering[t].key]
           row == RowRead(t)
           used == UsedRead(t)
<1>0. ReadFacts(t) /\ UNCHANGED <<balances, stale>>
  BY ReadBalanceReads DEF ReadBalance
<1>1. /\ metering[t] \in Meter /\ MeterRead(t) \in Meter
      /\ MeterRead(t).key = metering[t].key /\ MeterRead(t).tier = metering[t].tier
      /\ MeterRead(t).used = used /\ MeterRead(t).seen = row.used
      /\ MeterRead(t).fresh = ~ HasBalance(o)
  BY <1>0 DEF ReadFacts, MeterRead, Meter
<1>2. used > 0 => row.used + used <= row.included
  <2> DEFINE credits == CreditsOf[metering[t].key]
             remaining == row.included - row.used
  <2>1. /\ row.included \in Nat /\ row.used \in Nat /\ remaining \in Int
        /\ credits \in Nat /\ used = Covered(credits, remaining) /\ used \in Nat
    BY <1>0, <1>1 DEF ReadFacts, Balance, Meter, UsedRead
  <2>2. /\ remaining >= 0 => used <= remaining
        /\ remaining <= 0 => used = 0
    <3> HIDE DEF credits, remaining, used
    <3> QED
      BY <2>1, CoveredFacts
  <2> HIDE DEF used, row
  <2>3. QED
    BY <2>1, <2>2
<1>3. IF HasBalance(o) THEN row = balances[o]
      ELSE row.included = Included[metering[t].tier] /\ row.used = 0
  BY <1>1, NewBalanceType DEF RowRead, Meter
<1>4. Fits'
  <2> SUFFICES ASSUME NEW u \in DOMAIN metering', metering'[u].pc = "commit",
                      metering'[u].used > 0
               PROVE  IF metering'[u].fresh
                      THEN metering'[u].used <= Included[metering'[u].tier]
                      ELSE metering'[u].seen + metering'[u].used
                             <= balances[OrgOf[metering'[u].key]].included
    BY <1>0 DEF Fits
  <2>1. CASE u = t
    <3>1. metering'[u] = MeterRead(t) /\ used \in Nat /\ row.used \in Nat
      BY <1>0, <2>1 DEF ReadFacts, Balance
    <3>2. used > 0
      BY <1>1, <3>1
    <3>3. row.used + used <= row.included
      BY <1>2, <3>2
    <3>4. CASE HasBalance(o)
      <4>1. ~ metering'[u].fresh
        BY <1>1, <3>1, <3>4
      <4>2. row = balances[o]
        BY <1>3, <3>4
      <4>3. metering'[u].seen + metering'[u].used <= balances[o].included
        <5> HIDE DEF used, row
        <5> QED
          BY <1>1, <3>1, <3>3, <4>2
      <4>4. QED
        BY <1>1, <3>1, <4>1, <4>3
    <3>5. CASE ~ HasBalance(o)
      <4>1. row.included = Included[metering[t].tier] /\ row.used = 0
        BY <1>3, <3>5
      <4>2. used <= Included[metering[t].tier]
        <5> HIDE DEF used, row
        <5> QED
          BY <3>1, <3>3, <4>1
      <4>3. QED
        BY <1>1, <3>1, <3>5, <4>2
    <3>6. QED
      BY <3>4, <3>5
  <2>2. CASE u # t
    BY <1>0, <2>2 DEF ReadFacts, Metered, Fits
  <2>3. QED
    BY <2>1, <2>2
<1>5. OverdrawnOnlyByStaleReports'
  BY <1>0 DEF Metered, OverdrawnOnlyByStaleReports
<1>6. QED
  BY <1>4, <1>5 DEF Metered

(* A report that finds the row as it read it stays in the allowance; what   *)
(* another one uses is counted as stale.                                    *)
LEMMA CommitUsageKeepsMetered ==
  ASSUME Base, Base', Metered, NEW t \in Tasks, CommitUsage(t)
  PROVE  Metered'
<1> USE UsageAssumption
<1> DEFINE m == metering[t]
           o == OrgOf[m.key]
<1>0. CommitFacts(t)
  BY CommitUsageCommits
<1>1. ASSUME NEW u \in DOMAIN metering'
      PROVE  u \in DOMAIN metering /\ metering'[u] = metering[u]
  BY <1>0, <1>1 DEF CommitFacts
<1>2. CASE UNCHANGED <<events, balances, disturbed, stale>>
  BY <1>1, <1>2, QuietKeepsMetered, UnchangedGrows DEF BalancesGrow
<1>3. CASE ~ UNCHANGED <<events, balances, disturbed, stale>>
  <2>1. /\ m \in Meter /\ m.pc = "commit" /\ t \in DOMAIN metering /\ o \in Orgs
        /\ ~ m.fresh => HasBalance(o)
        /\ m.fresh => ~ HasBalance(o)
        /\ RowWritten(t) \in Balance
        /\ balances' = Put(balances, o, RowWritten(t))
        /\ stale' = IF RowFound(t).used = m.seen THEN stale
                    ELSE [stale EXCEPT ![o] = @ + m.used]
    BY <1>0, <1>3 DEF CommitFacts
  <2>2. /\ DOMAIN balances' = DOMAIN balances \cup {o} /\ balances'[o] = RowWritten(t)
        /\ \A p \in DOMAIN balances : p # o => balances'[p] = balances[p]
    BY <2>1, PutBalance DEF Base
  <2>3. RowFound(t) \in Balance /\ Included[m.tier] \in Nat
    BY <2>1, NewBalanceType DEF RowFound, HasBalance, Base, TypeOK, Meter
  <2>4. /\ balances'[o].included = RowFound(t).included
        /\ balances'[o].used = RowFound(t).used + m.used
    <3> DEFINE row == RowFound(t)
               used == m.used
               overage == m.overage
    <3>1. used \in Nat /\ overage \in Nat
      BY <2>1 DEF Meter
    <3>2. balances'[o] = Increased(row, used, overage)
      BY <2>2 DEF RowWritten
    <3>3. row \in Balance
      BY <2>3
    <3> HIDE DEF row, used, overage
    <3>4. /\ Increased(row, used, overage).included = row.included
          /\ Increased(row, used, overage).used = row.used + used
      BY <3>1, <3>3, AddUsage, Zenon
    <3>5. QED
      BY <3>2, <3>4 DEF row, used
  <2>5. RowFound(t).used <= RowFound(t).included + stale[o]
    <3>1. stale[o] \in Nat
      BY <2>1 DEF Base, TypeOK
    <3>2. CASE m.fresh
      BY <2>3, <3>1, <3>2, NewBalanceType DEF RowFound
    <3>3. CASE ~ m.fresh
      BY <2>1, <3>3 DEF RowFound, HasBalance, Metered, OverdrawnOnlyByStaleReports
    <3>4. QED
      BY <3>2, <3>3
  <2>6. balances'[o].used <= balances'[o].included + stale'[o]
    <3> DEFINE row == RowFound(t)
               used == m.used
               seen == m.seen
    <3>1. /\ row.used \in Nat /\ row.included \in Nat
          /\ used \in Nat /\ seen \in Nat /\ stale[o] \in Nat
      BY <2>1, <2>3 DEF Balance, Meter, Base, TypeOK
    <3>2. CASE row.used = seen
      <4>1. stale'[o] = stale[o]
        BY <2>1, <3>2
      <4>2. used > 0 => row.used + used <= row.included
        <5>1. CASE m.fresh
          <6>1. row.included = Included[m.tier] /\ row.used = 0
            BY <2>3, <5>1, NewBalanceType DEF RowFound
          <6>2. used > 0 => used <= Included[m.tier]
            BY <2>1, <5>1 DEF Metered, Fits
          <6> HIDE DEF row, used
          <6>3. QED
            BY <3>1, <6>1, <6>2
        <5>2. CASE ~ m.fresh
          <6>1. row = balances[o]
            BY <5>2 DEF RowFound
          <6>2. used > 0 => seen + used <= balances[o].included
            BY <2>1, <5>2 DEF Metered, Fits
          <6> HIDE DEF row, used, seen
          <6>3. QED
            BY <3>2, <6>1, <6>2
        <5>3. QED
          BY <5>1, <5>2
      <4>3. row.used <= row.included + stale[o]
        BY <2>5
      <4>4. balances'[o].used = row.used + used /\ balances'[o].included = row.included
        BY <2>4
      <4> HIDE DEF row, used, seen, o
      <4>5. QED
        BY <3>1, <4>1, <4>2, <4>3, <4>4
    <3>3. CASE row.used # seen
      <4>1. stale'[o] = stale[o] + used
        BY <2>1, <3>3 DEF Base, TypeOK
      <4>2. row.used <= row.included + stale[o]
        BY <2>5
      <4>3. balances'[o].used = row.used + used /\ balances'[o].included = row.included
        BY <2>4
      <4> HIDE DEF row, used, seen, o
      <4>4. QED
        BY <3>1, <4>1, <4>2, <4>3
    <3>4. QED
      BY <3>2, <3>3
  <2>7. Fits'
    <3>1. ASSUME NEW p \in DOMAIN balances
          PROVE  p \in DOMAIN balances' /\ balances'[p].included >= balances[p].included
      <4>1. CASE p = o
        <5>1. ~ m.fresh
          BY <2>1, <4>1 DEF HasBalance
        <5>2. balances'[p].included = balances[p].included /\ balances[p].included \in Nat
          BY <2>3, <2>4, <4>1, <5>1 DEF RowFound, Balance
        <5>3. QED
          BY <2>2, <5>2
      <4>2. CASE p # o
        BY <2>2, <4>2 DEF Base, TypeOK, Balance
      <4>3. QED
        BY <4>1, <4>2
    <3>2. QED
      BY <1>1, <3>1, QuietKeepsFits DEF Metered
  <2>8. OverdrawnOnlyByStaleReports'
    <3> SUFFICES ASSUME NEW p \in DOMAIN balances'
                 PROVE  balances'[p].used <= balances'[p].included + stale'[p]
      BY DEF OverdrawnOnlyByStaleReports
    <3>1. CASE p = o
      BY <2>6, <3>1
    <3>2. CASE p # o
      <4>1. p \in DOMAIN balances /\ balances'[p] = balances[p]
        BY <2>2, <3>2
      <4>2. stale'[p] = stale[p]
        BY <2>1, <3>2, <4>1 DEF Base, TypeOK
      <4>3. QED
        BY <4>1, <4>2 DEF Metered, OverdrawnOnlyByStaleReports
    <3>3. QED
      BY <3>1, <3>2
  <2>9. QED
    BY <2>7, <2>8 DEF Metered
<1>4. QED
  BY <1>2, <1>3

LEMMA MeteredStep == Base /\ Base' /\ Metered /\ [Next]_vars => Metered'
<1> SUFFICES ASSUME Base, Base', Metered, [Next]_vars PROVE Metered'
  OBVIOUS
<1> DEFINE
      Quiet == \A u \in DOMAIN metering' : metering'[u].pc = "commit"
                 => u \in DOMAIN metering /\ metering'[u] = metering[u]
<1>1. ASSUME NEW t \in Tasks, Request(t) PROVE Metered'
  <2>1. CASE \E o \in Orgs : FindNoBalance(t, o)
    BY <2>1, UnchangedGrows, QuietKeepsMetered DEF FindNoBalance, BalancesGrow
  <2>2. CASE CreateBalance(t)
    BY <2>2, CreateBalanceGrows, QuietKeepsMetered DEF CreateBalance, BalancesGrow
  <2>3. CASE \E k \in Keys : RecordUsage(t, k)
    <3>1. Quiet
      BY <2>3 DEF RecordUsage, Put
    <3>2. QED
      BY <2>3, <3>1, UnchangedGrows, QuietKeepsMetered DEF RecordUsage, BalancesGrow
  <2>4. CASE ReadTier(t)
    <3>1. Quiet
      BY <2>4 DEF ReadTier, MeterAt, Base, TypeOK, Meter
    <3>2. QED
      BY <2>4, <3>1, UnchangedGrows, QuietKeepsMetered DEF ReadTier, BalancesGrow
  <2>5. CASE ReadBalance(t)
    BY <2>5, ReadBalanceKeepsMetered
  <2>6. CASE CommitUsage(t)
    BY <2>6, CommitUsageKeepsMetered
  <2>7. CASE MeterFails(t)
    <3>1. Quiet
      BY <2>7 DEF MeterFails, Drop
    <3>2. QED
      BY <2>7, <3>1, UnchangedGrows, QuietKeepsMetered DEF MeterFails, BalancesGrow
  <2>8. QED
    BY <1>1, <2>1, <2>2, <2>3, <2>4, <2>5, <2>6, <2>7 DEF Request
<1>2. ASSUME NEW j \in Jobs, ResetOverage(j) PROVE Metered'
  BY <1>2, ResetMoves, QuietKeepsMetered DEF ResetOverage, requestVars, Base, TypeOK, Balance
<1>3. ASSUME NEW o \in Orgs, GrantCredits(o) PROVE Metered'
  BY <1>3, GrantCreditsGrows, QuietKeepsMetered DEF GrantCredits, requestVars, BalancesGrow
<1>4. ASSUME UNCHANGED <<metering, balances, stale>> PROVE Metered'
  BY <1>4, UnchangedGrows, QuietKeepsMetered DEF BalancesGrow
<1>5. ASSUME NEW j \in Jobs,
             \/ InvoiceOverages(j) \/ JobStep(j) \/ InvoicingThrows(j)
             \/ AnswerLost(j) \/ JobDies(j)
      PROVE  ResetOverage(j) \/ UNCHANGED <<metering, balances, stale>>
  BY <1>5 DEF JobStep, InvoiceOverages, LookUpUser, CreateInvoiceItem, CreateInvoice,
              RecordInvoice, InvoicingThrows, AnswerLost, JobDies, requestVars
<1>6. ASSUME NEW o \in Orgs, NEW s \in Tiers, ChangeTier(o, s)
      PROVE  UNCHANGED <<metering, balances, stale>>
  BY <1>6 DEF ChangeTier, requestVars
<1>7. CASE UNCHANGED vars
  BY <1>4, <1>7 DEF vars
<1>8. QED
  BY <1>1, <1>2, <1>3, <1>4, <1>5, <1>6, <1>7 DEF Next

(* No balance uses more than its included credits, but by what reports used *)
(* of a remainder that another report had changed since they read it: one   *)
(* that finds the row as it read it uses no more than was left (recordUsage *)
(* 133-181).                                                                *)
THEOREM OverdrawnOnlyByStaleReportsHolds == Spec => []OverdrawnOnlyByStaleReports
<1>1. Init => Metered
  BY DEF Init, Metered, Fits, OverdrawnOnlyByStaleReports, Empty
<1>2. Metered => OverdrawnOnlyByStaleReports
  BY DEF Metered
<1>3. QED
  BY <1>1, <1>2, BaseInit, BaseStep, MeteredStep, PTL DEF Spec

-----------------------------------------------------------------------------
(* What is charged *)

(* Run j has put the overage of o on an item and not reset it. *)
ItemisedFor(j, o) == Itemised(j) /\ invoicing[j].org = o

(* Every run holds what it held, or less of it. *)
JobsHoldLess ==
  \A i \in DOMAIN invoicing' :
    /\ i \in DOMAIN invoicing
    /\ invoicing'[i].todo \subseteq invoicing[i].todo
    /\ invoicing'[i].owed = invoicing[i].owed

(* A run puts nothing on an item, and gives up no item unexposed. *)
ItemsStay ==
  \A i \in Jobs, o \in Orgs :
    /\ ItemisedFor(i, o)' => ItemisedFor(i, o)
    /\ ItemisedFor(i, o) /\ o \notin exposed' => ItemisedFor(i, o)'

(* A step that neither begins a run, nor makes an item, nor resets. *)
ChargesStay ==
  /\ JobsHoldLess
  /\ ItemsStay
  /\ UNCHANGED cleared
  /\ exposed \subseteq exposed'
  /\ disturbed \subseteq disturbed'
  /\ \A o \in Orgs :
       /\ items'[o] + invoiced'[o] >= items[o] + invoiced[o]
       /\ o \notin exposed' => items'[o] + invoiced'[o] = items[o] + invoiced[o]
       /\ Overage(o)' >= Overage(o)
       /\ \A j \in DOMAIN invoicing :
            o \in invoicing[j].todo /\ o \notin disturbed' => Overage(o)' = Overage(o)

LEMMA GrowsOverage ==
  ASSUME BalancesGrow, NEW o \in Orgs
  PROVE  Overage(o)' = Overage(o)
BY DEF BalancesGrow, Overage, HasBalance

LEMMA StripeTypes ==
  ASSUME Base
  PROVE  \A o \in Orgs : /\ items[o] \in Nat /\ invoiced[o] \in Nat
                         /\ cleared[o] \in Nat /\ Overage(o) \in Nat
BY OverageType DEF Base, TypeOK

LEMMA MovesHoldLess ==
  ASSUME NEW j, JobMoves(j)
  PROVE  JobsHoldLess
<1> SUFFICES ASSUME NEW i \in DOMAIN invoicing'
             PROVE  /\ i \in DOMAIN invoicing
                    /\ invoicing'[i].todo \subseteq invoicing[i].todo
                    /\ invoicing'[i].owed = invoicing[i].owed
  BY DEF JobsHoldLess
<1>1. i \in DOMAIN invoicing
  BY DEF JobMoves
<1>2. CASE i = j
  BY <1>2 DEF JobMoves
<1>3. CASE i # j
  BY <1>1, <1>3 DEF JobMoves
<1>4. QED
  BY <1>1, <1>2, <1>3

(* Steps that touch neither the runs nor Stripe. *)
LEMMA OtherChargesStay ==
  ASSUME Base, UNCHANGED <<invoicing, items, invoiced, cleared, exposed>>,
         disturbed \subseteq disturbed',
         \A o \in Orgs :
           /\ Overage(o)' \in Nat /\ Overage(o)' >= Overage(o)
           /\ \A j \in DOMAIN invoicing :
                o \in invoicing[j].todo /\ o \notin disturbed'
                  => Overage(o)' = Overage(o)
  PROVE  ChargesStay
<1>1. JobsHoldLess
  BY DEF JobsHoldLess
<1>2. ItemsStay
  BY DEF ItemsStay, ItemisedFor, Itemised, JobAt
<1>3. QED
  BY <1>1, <1>2, StripeTypes DEF ChargesStay

LEMMA GrowsChargesStay ==
  ASSUME Base, UNCHANGED <<invoicing, items, invoiced, cleared, exposed, disturbed>>,
         BalancesGrow
  PROVE  ChargesStay
<1>1. \A o \in Orgs : Overage(o)' = Overage(o) /\ Overage(o) \in Nat
  BY GrowsOverage, StripeTypes
<1>2. QED
  BY <1>1, OtherChargesStay

LEMMA CommitUsageChargesStay ==
  ASSUME Base, Base', NEW t \in Tasks, CommitUsage(t)
  PROVE  ChargesStay
<1> DEFINE m == metering[t]
           o == OrgOf[m.key]
<1>0. CommitFacts(t) /\ UNCHANGED <<invoicing, items, invoiced, cleared, exposed>>
  BY CommitUsageCommits DEF CommitUsage, stripeVars
<1>1. CASE UNCHANGED <<events, balances, disturbed>>
  BY <1>0, <1>1, UnchangedGrows, GrowsChargesStay
<1>2. CASE ~ UNCHANGED <<events, balances, disturbed>>
  <2>1. /\ m \in Meter /\ o \in Orgs
        /\ ~ m.fresh => HasBalance(o)
        /\ m.fresh => ~ HasBalance(o)
        /\ RowWritten(t) \in Balance
        /\ balances' = Put(balances, o, RowWritten(t))
        /\ disturbed' = IF m.overage > 0 /\ \E j \in Jobs : Pending(j, o)
                        THEN disturbed \cup {o} ELSE disturbed
    BY <1>0, <1>2 DEF CommitFacts
  <2>2. /\ DOMAIN balances' = DOMAIN balances \cup {o} /\ balances'[o] = RowWritten(t)
        /\ \A p \in DOMAIN balances : p # o => balances'[p] = balances[p]
    BY <2>1, PutBalance DEF Base
  <2>3. m.overage \in Nat /\ m.used \in Nat /\ Overage(o) \in Nat
    BY <2>1, StripeTypes DEF Meter
  <2>4. RowFound(t) \in Balance /\ RowFound(t).overage = Overage(o)
    <3>1. CASE m.fresh
      <4>1. Included[m.tier] \in Nat
        BY <2>1, UsageAssumption DEF Meter
      <4>2. QED
        BY <2>1, <3>1, <4>1, NewBalanceType DEF RowFound, Overage
    <3>2. CASE ~ m.fresh
      BY <2>1, <3>2 DEF RowFound, Overage, HasBalance, Base, TypeOK
    <3>3. QED
      BY <3>1, <3>2
  <2>5. ASSUME NEW p \in Orgs, p = o PROVE Overage(p)' = Overage(p) + m.overage
    <3> DEFINE row == RowFound(t)
               used == m.used
               overage == m.overage
    <3>1. used \in Nat /\ overage \in Nat /\ row \in Balance
      BY <2>3, <2>4
    <3>2. balances'[o] = Increased(row, used, overage)
      BY <2>2 DEF RowWritten
    <3> HIDE DEF row, used, overage
    <3>3. Increased(row, used, overage).overage = row.overage + overage
      BY <3>1, AddUsage, Zenon
    <3>4. Overage(p)' = balances'[p].overage
      BY <2>2, <2>5 DEF Overage, HasBalance
    <3>5. row.overage = Overage(p)
      BY <2>4, <2>5 DEF row
    <3>6. QED
      BY <2>5, <3>2, <3>3, <3>4, <3>5 DEF overage
  <2>6. ASSUME NEW p \in Orgs, p # o PROVE Overage(p)' = Overage(p)
    BY <2>2, <2>6 DEF Overage, HasBalance
  <2>7. ASSUME NEW j \in DOMAIN invoicing, o \in invoicing[j].todo, o \notin disturbed'
        PROVE  m.overage = 0
    BY <2>1, <2>3, <2>7 DEF Pending, Base, TypeOK
  <2>8. ASSUME NEW p \in Orgs
        PROVE  /\ Overage(p)' \in Nat /\ Overage(p)' >= Overage(p)
               /\ \A j \in DOMAIN invoicing :
                    p \in invoicing[j].todo /\ p \notin disturbed'
                      => Overage(p)' = Overage(p)
    <3>1. CASE p = o
      BY <2>3, <2>5, <2>7, <3>1
    <3>2. CASE p # o
      BY <2>6, <3>2, StripeTypes
    <3>3. QED
      BY <3>1, <3>2
  <2>9. disturbed \subseteq disturbed'
    BY <2>1
  <2>10. QED
    BY <1>0, <2>8, <2>9, OtherChargesStay
<1>3. QED
  BY <1>1, <1>2

(* Steps of a run, other than the ones that make an item or reset. *)
LEMMA RunChargesStay ==
  ASSUME Base, Base', NEW j \in Jobs, JobMoves(j),
         UNCHANGED <<balances, cleared, disturbed>>, exposed \subseteq exposed',
         \A o \in Orgs :
           /\ items'[o] + invoiced'[o] >= items[o] + invoiced[o]
           /\ o \notin exposed' => items'[o] + invoiced'[o] = items[o] + invoiced[o],
         \A o \in Orgs :
           /\ ItemisedFor(j, o)' => ItemisedFor(j, o)
           /\ ItemisedFor(j, o) /\ o \notin exposed' => ItemisedFor(j, o)'
  PROVE  ChargesStay
<1>1. JobsHoldLess
  BY MovesHoldLess
<1>2. ItemsStay
  <2> SUFFICES ASSUME NEW i \in Jobs, NEW o \in Orgs, i # j
               PROVE  ItemisedFor(i, o)' <=> ItemisedFor(i, o)
    BY DEF ItemsStay
  <2>1. CASE i \in DOMAIN invoicing
    BY <2>1 DEF JobMoves, ItemisedFor, Itemised, JobAt
  <2>2. CASE i \notin DOMAIN invoicing
    BY <2>2 DEF JobMoves, ItemisedFor, Itemised, JobAt
  <2>3. QED
    BY <2>1, <2>2
<1>3. \A o \in Orgs : Overage(o)' = Overage(o) /\ Overage(o) \in Nat
  BY StripeTypes DEF Overage, HasBalance
<1>4. QED
  BY <1>1, <1>2, <1>3 DEF ChargesStay

LEMMA JobChargesStay ==
  ASSUME Base, Base', NEW j \in Jobs,
         \/ \E o \in Orgs : LookUpUser(j, o)
         \/ CreateInvoice(j) \/ RecordInvoice(j)
         \/ InvoicingThrows(j) \/ AnswerLost(j) \/ JobDies(j)
  PROVE  ChargesStay
<1>0. ASSUME UNCHANGED <<items, invoiced>>
      PROVE  \A o \in Orgs :
               /\ items'[o] + invoiced'[o] >= items[o] + invoiced[o]
               /\ o \notin exposed' => items'[o] + invoiced'[o] = items[o] + invoiced[o]
  BY <1>0, StripeTypes
<1>1. ASSUME NEW o \in Orgs, LookUpUser(j, o) PROVE ChargesStay
  <2>1. JobMoves(j) /\ (j \in DOMAIN invoicing' => invoicing'[j].pc \in {"user", "item"})
    BY <1>1, LookUpMoves
  <2>2. \A p \in Orgs : ~ ItemisedFor(j, p)' /\ ~ ItemisedFor(j, p)
    BY <1>1, <2>1 DEF LookUpUser, ItemisedFor, Itemised, JobAt
  <2>3. QED
    BY <1>0, <1>1, <2>1, <2>2, RunChargesStay DEF LookUpUser, stripeVars
<1>2. ASSUME CreateInvoice(j) PROVE ChargesStay
  <2> DEFINE o == invoicing[j].org
  <2>1. j \in DOMAIN invoicing /\ o \in Orgs
    BY <1>2, JobOrg DEF CreateInvoice
  <2>2. JobMoves(j) /\ JobIs(j, "reset", o)
    BY <1>2, <2>1, GoMoves DEF CreateInvoice
  <2>3. \A p \in Orgs : ItemisedFor(j, p)' <=> ItemisedFor(j, p)
    BY <1>2, <2>1, <2>2 DEF CreateInvoice, JobIs, ItemisedFor, Itemised, JobAt
  <2>4. \A p \in Orgs : items'[p] + invoiced'[p] = items[p] + invoiced[p]
                         /\ items[p] \in Nat /\ invoiced[p] \in Nat
    BY <1>2, <2>1 DEF CreateInvoice, TakeItems, Base, TypeOK
  <2>5. QED
    BY <1>2, <2>2, <2>3, <2>4, RunChargesStay DEF CreateInvoice
<1>3. ASSUME RecordInvoice(j) PROVE ChargesStay
  <2>1. j \in DOMAIN invoicing
    BY <1>3 DEF RecordInvoice, JobAt
  <2>2. JobMoves(j) /\ (j \in DOMAIN invoicing' => invoicing'[j].pc = "user")
    BY <1>3, <2>1, NextOrgMoves DEF RecordInvoice
  <2>3. \A p \in Orgs : ~ ItemisedFor(j, p)' /\ ~ ItemisedFor(j, p)
    BY <1>3, <2>2 DEF RecordInvoice, ItemisedFor, Itemised, JobAt
  <2>4. QED
    BY <1>0, <1>3, <2>2, <2>3, RunChargesStay DEF RecordInvoice
<1>4. ASSUME InvoicingThrows(j) PROVE ChargesStay
  <2>1. PICK o \in Orgs : NextOrg(j, o)
    BY <1>4 DEF InvoicingThrows
  <2>2. JobMoves(j) /\ (j \in DOMAIN invoicing' => invoicing'[j].pc = "user")
    BY <1>4, <2>1, NextOrgMoves DEF InvoicingThrows
  <2>3. \A p \in Orgs : ~ ItemisedFor(j, p)' /\ (ItemisedFor(j, p) => p \in exposed')
    BY <1>4, <2>2 DEF InvoicingThrows, ExposeItem, ItemisedFor, Itemised, JobAt
  <2>4. exposed \subseteq exposed'
    BY <1>4 DEF InvoicingThrows, ExposeItem
  <2>5. QED
    BY <1>0, <1>4, <2>2, <2>3, <2>4, RunChargesStay DEF InvoicingThrows, stripeVars
<1>5. ASSUME AnswerLost(j) PROVE ChargesStay
  <2> DEFINE o == invoicing[j].org
  <2>1. j \in DOMAIN invoicing /\ o \in Orgs /\ invoicing[j].owed[o] \in Nat
    BY <1>5, JobOrg DEF AnswerLost
  <2>2. JobMoves(j) /\ (j \in DOMAIN invoicing' => invoicing'[j].pc = "user")
    BY <1>5, <2>1, NextOrgMoves DEF AnswerLost
  <2>3. exposed' = exposed \cup {o}
    BY <1>5 DEF AnswerLost
  <2>4. \A p \in Orgs : ~ ItemisedFor(j, p)' /\ (ItemisedFor(j, p) => p \in exposed')
    BY <1>5, <2>2, <2>3 DEF ItemisedFor, Itemised, JobAt
  <2>5. ASSUME NEW p \in Orgs
        PROVE  /\ items'[p] + invoiced'[p] >= items[p] + invoiced[p]
               /\ p # o => items'[p] + invoiced'[p] = items[p] + invoiced[p]
    <3>1. CASE items' = [items EXCEPT ![o] = @ + invoicing[j].owed[o]] /\ UNCHANGED invoiced
      BY <2>1, <3>1, StripeTypes DEF Base, TypeOK
    <3>2. CASE TakeItems(o)
      BY <2>1, <3>2, StripeTypes DEF TakeItems, Base, TypeOK
    <3>3. QED
      BY <1>5, <3>1, <3>2 DEF AnswerLost
  <2>6. QED
    BY <1>5, <2>2, <2>3, <2>4, <2>5, RunChargesStay DEF AnswerLost
<1>6. ASSUME JobDies(j) PROVE ChargesStay
  <2>1. JobMoves(j) /\ j \notin DOMAIN invoicing'
    BY <1>6, DropMoves DEF JobDies
  <2>2. \A p \in Orgs : ~ ItemisedFor(j, p)' /\ (ItemisedFor(j, p) => p \in exposed')
    BY <1>6, <2>1 DEF JobDies, ExposeItem, ItemisedFor, Itemised, JobAt
  <2>3. exposed \subseteq exposed'
    BY <1>6 DEF JobDies, ExposeItem
  <2>4. QED
    BY <1>0, <1>6, <2>1, <2>2, <2>3, RunChargesStay DEF JobDies, stripeVars
<1>7. QED
  BY <1>1, <1>2, <1>3, <1>4, <1>5, <1>6

(* Every step keeps the charges, or begins a run, makes an item or resets. *)
LEMMA StepsChargesStay ==
  ASSUME Base, Base', [Next]_vars
  PROVE  \/ ChargesStay
         \/ \E j \in Jobs : InvoiceOverages(j) \/ CreateInvoiceItem(j) \/ ResetOverage(j)
<1>1. ASSUME NEW t \in Tasks, Request(t) PROVE ChargesStay
  <2>1. CASE CommitUsage(t)
    BY <2>1, CommitUsageChargesStay
  <2>2. CASE CreateBalance(t)
    BY <2>2, CreateBalanceGrows, GrowsChargesStay DEF CreateBalance, stripeVars
  <2>3. CASE ~ CommitUsage(t) /\ ~ CreateBalance(t)
    <3>1. UNCHANGED <<balances, invoicing, items, invoiced, cleared, exposed, disturbed>>
      BY <1>1, <2>3 DEF Request, FindNoBalance, RecordUsage, ReadTier, ReadBalance,
                        MeterFails, stripeVars
    <3>2. QED
      BY <3>1, UnchangedGrows, GrowsChargesStay
  <2>4. QED
    BY <2>1, <2>2, <2>3
<1>2. ASSUME NEW o \in Orgs, GrantCredits(o) PROVE ChargesStay
  BY <1>2, GrantCreditsGrows, GrowsChargesStay DEF GrantCredits, stripeVars
<1>3. ASSUME NEW o \in Orgs, NEW s \in Tiers, ChangeTier(o, s) PROVE ChargesStay
  BY <1>3, UnchangedGrows, GrowsChargesStay DEF ChangeTier, stripeVars
<1>4. CASE UNCHANGED vars
  BY <1>4, UnchangedGrows, GrowsChargesStay DEF vars
<1>5. QED
  BY <1>1, <1>2, <1>3, <1>4, JobChargesStay DEF Next, JobStep

(* What the three steps that change the charges do. *)
StartFacts(j) ==
  /\ UNCHANGED <<balances, items, invoiced, cleared, disturbed>>
  /\ exposed' = exposed \cup {o \in Owing : \E i \in Jobs : Pending(i, o)}
  /\ j \in DOMAIN invoicing' /\ j \notin DOMAIN invoicing
  /\ invoicing'[j].todo = Owing
  /\ \A o \in Orgs : invoicing'[j].owed[o] = Overage(o)
  /\ \A i \in DOMAIN invoicing' : i # j => i \in DOMAIN invoicing /\ invoicing'[i] = invoicing[i]
  /\ \A i \in Jobs, o \in Orgs : ItemisedFor(i, o)' <=> ItemisedFor(i, o)

LEMMA StartCharges ==
  ASSUME Base, NEW j \in Jobs, InvoiceOverages(j)
  PROVE  StartFacts(j)
<1> DEFINE new == [pc |-> "user", todo |-> Owing,
                   owed |-> [o \in Orgs |-> Overage(o)], org |-> NoOrg]
<1>1. /\ new.pc = "user" /\ new.todo = Owing
      /\ \A o \in Orgs : new.owed[o] = Overage(o)
  OBVIOUS
<1>2. invoicing' = Put(invoicing, j, new) /\ j \notin DOMAIN invoicing
  BY DEF InvoiceOverages
<1> HIDE DEF new
<1>3. /\ DOMAIN invoicing' = DOMAIN invoicing \cup {j} /\ invoicing'[j] = new
      /\ \A i \in DOMAIN invoicing : invoicing'[i] = invoicing[i]
  BY <1>2 DEF Put
<1>4. \A i \in Jobs, o \in Orgs : ItemisedFor(i, o)' <=> ItemisedFor(i, o)
  BY <1>1, <1>2, <1>3 DEF ItemisedFor, Itemised, JobAt
<1>5. QED
  BY <1>1, <1>2, <1>3, <1>4 DEF InvoiceOverages, StartFacts, stripeVars

ItemFacts(j, o) ==
  /\ o \in Orgs /\ j \in DOMAIN invoicing /\ o \in invoicing[j].todo
  /\ invoicing[j].owed[o] \in Nat
  /\ UNCHANGED <<balances, invoiced, cleared, exposed, disturbed>>
  /\ items'[o] = items[o] + invoicing[j].owed[o]
  /\ \A p \in Orgs : p # o => items'[p] = items[p]
  /\ JobsHoldLess
  /\ ItemisedFor(j, o)' /\ \A p \in Orgs : ~ ItemisedFor(j, p)
  /\ \A p \in Orgs : p # o => ~ ItemisedFor(j, p)'
  /\ \A i \in Jobs, p \in Orgs : i # j => (ItemisedFor(i, p)' <=> ItemisedFor(i, p))

LEMMA OthersItemised ==
  ASSUME NEW j, JobMoves(j), NEW i \in Jobs, i # j, NEW o \in Orgs
  PROVE  ItemisedFor(i, o)' <=> ItemisedFor(i, o)
<1>1. CASE i \in DOMAIN invoicing
  BY <1>1 DEF JobMoves, ItemisedFor, Itemised, JobAt
<1>2. CASE i \notin DOMAIN invoicing
  BY <1>2 DEF JobMoves, ItemisedFor, Itemised, JobAt
<1>3. QED
  BY <1>1, <1>2

LEMMA ItemCharges ==
  ASSUME Base, NEW j \in Jobs, CreateInvoiceItem(j)
  PROVE  \E o \in Orgs : ItemFacts(j, o)
<1>1. PICK o \in Orgs : o = invoicing[j].org
  BY JobOrg DEF CreateInvoiceItem
<1>2. /\ j \in DOMAIN invoicing /\ o \in invoicing[j].todo
      /\ invoicing[j].owed[o] \in Nat
  BY <1>1, JobOrg DEF CreateInvoiceItem
<1>3. JobMoves(j) /\ JobIs(j, "invoice", o)
  BY <1>1, <1>2, GoMoves DEF CreateInvoiceItem
<1>4. items'[o] = items[o] + invoicing[j].owed[o] /\ \A p \in Orgs : p # o => items'[p] = items[p]
  BY <1>1 DEF CreateInvoiceItem, Base, TypeOK
<1>5. /\ ItemisedFor(j, o)' /\ \A p \in Orgs : ~ ItemisedFor(j, p)
      /\ \A p \in Orgs : p # o => ~ ItemisedFor(j, p)'
  BY <1>3 DEF CreateInvoiceItem, JobIs, ItemisedFor, Itemised, JobAt
<1>6. UNCHANGED <<balances, invoiced, cleared, exposed, disturbed>>
  BY DEF CreateInvoiceItem
<1>7. ItemFacts(j, o)
  BY <1>2, <1>3, <1>4, <1>5, <1>6, MovesHoldLess, OthersItemised DEF ItemFacts
<1>8. QED
  BY <1>7

ResetFacts(j, o) ==
  /\ o \in Orgs /\ j \in DOMAIN invoicing /\ o \in invoicing[j].todo
  /\ ItemisedFor(j, o)
  /\ UNCHANGED <<items, invoiced, exposed, disturbed>>
  /\ cleared'[o] = cleared[o] + Overage(o)
  /\ Overage(o)' = 0
  /\ \A p \in Orgs : p # o => cleared'[p] = cleared[p] /\ Overage(p)' = Overage(p)
  /\ JobsHoldLess
  /\ o \notin invoicing'[j].todo
  /\ \A p \in Orgs : ~ ItemisedFor(j, p)' /\ (p # o => ~ ItemisedFor(j, p))
  /\ \A i \in Jobs, p \in Orgs : i # j => (ItemisedFor(i, p)' <=> ItemisedFor(i, p))

LEMMA ResetCharges ==
  ASSUME Base, NEW j \in Jobs, ResetOverage(j)
  PROVE  \E o \in Orgs : ResetFacts(j, o)
<1>1. PICK o \in Orgs : o = invoicing[j].org
  BY JobOrg DEF ResetOverage
<1>2. j \in DOMAIN invoicing /\ o \in invoicing[j].todo /\ o \in DOMAIN balances
  BY <1>1, JobOrg DEF ResetOverage
<1>3. JobMoves(j) /\ JobIs(j, "event", o) /\ invoicing'[j].todo = invoicing[j].todo \ {o}
  BY <1>1, ResetMoves
<1>4. Overage(o)' = 0 /\ \A p \in Orgs : p # o => Overage(p)' = Overage(p)
  BY <1>1, <1>2, ResetMoves DEF Overage, HasBalance
<1>5. /\ cleared'[o] = cleared[o] + Overage(o)
      /\ \A p \in Orgs : p # o => cleared'[p] = cleared[p]
  BY <1>1 DEF ResetOverage, Base, TypeOK
<1>6. /\ ItemisedFor(j, o)
      /\ \A p \in Orgs : ~ ItemisedFor(j, p)' /\ (p # o => ~ ItemisedFor(j, p))
  BY <1>1, <1>3 DEF ResetOverage, JobIs, ItemisedFor, Itemised, JobAt
<1>7. UNCHANGED <<items, invoiced, exposed, disturbed>>
  BY DEF ResetOverage, stripeVars
<1>8. ResetFacts(j, o)
  BY <1>2, <1>3, <1>4, <1>5, <1>6, <1>7, MovesHoldLess, OthersItemised DEF ResetFacts
<1>9. QED
  BY <1>8

(* An itemised overage is one the run still holds. *)
LEMMA ItemisedIsHeld ==
  ASSUME Base, NEW j \in Jobs, NEW o \in Orgs, ItemisedFor(j, o)
  PROVE  j \in DOMAIN invoicing /\ o \in invoicing[j].todo /\ invoicing[j].owed[o] \in Nat
BY JobOrg DEF ItemisedFor, Itemised

-----------------------------------------------------------------------------
(* Nothing is charged twice *)

(* Two runs that hold one overage have exposed it. *)
SoloJob ==
  \A i, j \in DOMAIN invoicing, o \in Orgs :
    i # j /\ o \in invoicing[i].todo /\ o \in invoicing[j].todo => o \in exposed

(* An overage that one run holds does not become less. *)
StillOwed ==
  \A j \in DOMAIN invoicing, o \in Orgs :
    o \in invoicing[j].todo /\ o \notin exposed => invoicing[j].owed[o] <= Overage(o)

(* What is on items and invoices was reset, but for what a run is about to  *)
(* reset.                                                                   *)
Tally ==
  \A o \in Orgs \ exposed :
    /\ (\A j \in Jobs : ~ ItemisedFor(j, o)) => items[o] + invoiced[o] <= cleared[o]
    /\ \A j \in Jobs : ItemisedFor(j, o)
         => items[o] + invoiced[o] <= cleared[o] + invoicing[j].owed[o]

Charged == SoloJob /\ StillOwed /\ Tally

LEMMA ChargedOnce == Base /\ Charged => InvoicedTwiceOnlyIfExposed
<1> SUFFICES ASSUME Base, Charged, NEW o \in Orgs, o \notin exposed
             PROVE  items[o] + invoiced[o] <= cleared[o] + Overage(o)
  BY DEF InvoicedTwiceOnlyIfExposed
<1>1. /\ items[o] \in Nat /\ invoiced[o] \in Nat
      /\ cleared[o] \in Nat /\ Overage(o) \in Nat
  BY StripeTypes
<1>2. CASE \A j \in Jobs : ~ ItemisedFor(j, o)
  BY <1>1, <1>2 DEF Charged, Tally
<1>3. ASSUME NEW j \in Jobs, ItemisedFor(j, o)
      PROVE  items[o] + invoiced[o] <= cleared[o] + Overage(o)
  <2>1. /\ j \in DOMAIN invoicing /\ o \in invoicing[j].todo
        /\ invoicing[j].owed[o] \in Nat
    BY <1>3, ItemisedIsHeld
  <2>2. invoicing[j].owed[o] <= Overage(o)
    BY <2>1 DEF Charged, StillOwed
  <2>3. items[o] + invoiced[o] <= cleared[o] + invoicing[j].owed[o]
    BY <1>3 DEF Charged, Tally
  <2>4. QED
    BY <1>1, <2>1, <2>2, <2>3
<1>4. QED
  BY <1>2, <1>3

LEMMA StayKeepsCharged ==
  ASSUME Base, Base', Charged, ChargesStay
  PROVE  Charged'
<1>1. SoloJob'
  BY DEF ChargesStay, JobsHoldLess, Charged, SoloJob
<1>2. StillOwed'
  <2> SUFFICES ASSUME NEW j \in DOMAIN invoicing', NEW o \in Orgs,
                      o \in invoicing'[j].todo, o \notin exposed'
               PROVE  invoicing'[j].owed[o] <= Overage(o)'
    BY DEF StillOwed
  <2>1. /\ j \in DOMAIN invoicing /\ o \in invoicing[j].todo /\ o \notin exposed
        /\ invoicing'[j].owed = invoicing[j].owed
    BY DEF ChargesStay, JobsHoldLess
  <2>2. invoicing[j].owed[o] <= Overage(o) /\ Overage(o)' >= Overage(o)
    BY <2>1 DEF Charged, StillOwed, ChargesStay
  <2>3. invoicing[j].owed[o] \in Nat /\ Overage(o) \in Nat /\ Overage(o)' \in Nat
    BY <2>1, StripeTypes DEF Base, TypeOK, Invoicing, Overage, HasBalance, Balance
  <2>4. QED
    BY <2>1, <2>2, <2>3
<1>3. Tally'
  <2> SUFFICES ASSUME NEW o \in Orgs, o \notin exposed'
               PROVE  /\ (\A j \in Jobs : ~ ItemisedFor(j, o)')
                            => items'[o] + invoiced'[o] <= cleared'[o]
                      /\ \A j \in Jobs : ItemisedFor(j, o)'
                           => items'[o] + invoiced'[o] <= cleared'[o] + invoicing'[j].owed[o]
    BY DEF Tally
  <2>1. /\ o \notin exposed /\ cleared' = cleared
        /\ items'[o] + invoiced'[o] = items[o] + invoiced[o]
        /\ \A j \in Jobs : ItemisedFor(j, o)' <=> ItemisedFor(j, o)
    BY DEF ChargesStay, ItemsStay
  <2>2. ASSUME NEW j \in Jobs, ItemisedFor(j, o)'
        PROVE  invoicing'[j].owed = invoicing[j].owed
    BY <2>2 DEF ChargesStay, JobsHoldLess, ItemisedFor, Itemised, JobAt
  <2>3. QED
    BY <2>1, <2>2 DEF Charged, Tally
<1>4. QED
  BY <1>1, <1>2, <1>3 DEF Charged

LEMMA StartKeepsCharged ==
  ASSUME Base, Charged, NEW j \in Jobs, InvoiceOverages(j)
  PROVE  Charged'
<1>0. StartFacts(j)
  BY StartCharges
<1>1. SoloJob'
  <2> SUFFICES ASSUME NEW i \in DOMAIN invoicing', NEW k \in DOMAIN invoicing', NEW o \in Orgs,
                      i # k, o \in invoicing'[i].todo, o \in invoicing'[k].todo
               PROVE  o \in exposed'
    BY DEF SoloJob
  <2>1. CASE i # j /\ k # j
    BY <1>0, <2>1 DEF StartFacts, Charged, SoloJob
  <2>2. CASE i = j \/ k = j
    BY <1>0, <2>2 DEF StartFacts, Pending, Base, TypeOK
  <2>3. QED
    BY <2>1, <2>2
<1>2. StillOwed'
  <2> SUFFICES ASSUME NEW i \in DOMAIN invoicing', NEW o \in Orgs,
                      o \in invoicing'[i].todo, o \notin exposed'
               PROVE  invoicing'[i].owed[o] <= Overage(o)
    BY <1>0 DEF StillOwed, StartFacts, Overage, HasBalance
  <2>1. CASE i = j
    BY <1>0, <2>1, StripeTypes DEF StartFacts
  <2>2. CASE i # j
    BY <1>0, <2>2 DEF StartFacts, Charged, StillOwed
  <2>3. QED
    BY <2>1, <2>2
<1>3. Tally'
  <2>1. ASSUME NEW i \in Jobs, NEW o \in Orgs, ItemisedFor(i, o)'
        PROVE  invoicing'[i].owed = invoicing[i].owed
    BY <1>0, <2>1 DEF StartFacts, ItemisedFor, Itemised, JobAt
  <2>2. QED
    BY <1>0, <2>1 DEF StartFacts, Charged, Tally
<1>4. QED
  BY <1>1, <1>2, <1>3 DEF Charged

LEMMA ItemKeepsCharged ==
  ASSUME Base, Base', Charged, NEW j \in Jobs, CreateInvoiceItem(j)
  PROVE  Charged'
<1>0. PICK o \in Orgs : ItemFacts(j, o)
  BY ItemCharges
<1>1. SoloJob'
  BY <1>0 DEF ItemFacts, JobsHoldLess, Charged, SoloJob
<1>2. StillOwed'
  BY <1>0 DEF ItemFacts, JobsHoldLess, Charged, StillOwed, Overage, HasBalance
<1>3. Tally'
  <2> SUFFICES ASSUME NEW p \in Orgs, p \notin exposed
               PROVE  /\ (\A i \in Jobs : ~ ItemisedFor(i, p)')
                            => items'[p] + invoiced[p] <= cleared[p]
                      /\ \A i \in Jobs : ItemisedFor(i, p)'
                           => items'[p] + invoiced[p] <= cleared[p] + invoicing'[i].owed[p]
    BY <1>0 DEF Tally, ItemFacts
  <2>1. ASSUME NEW i \in Jobs, ItemisedFor(i, p)'
        PROVE  invoicing'[i].owed = invoicing[i].owed
    BY <1>0, <2>1 DEF ItemFacts, JobsHoldLess, ItemisedFor, Itemised, JobAt
  <2>2. CASE p = o
    <3>1. ASSUME NEW i \in Jobs, ItemisedFor(i, o) PROVE FALSE
      <4>1. i \in DOMAIN invoicing /\ o \in invoicing[i].todo
        BY <3>1, ItemisedIsHeld
      <4>2. i # j
        BY <1>0, <3>1 DEF ItemFacts
      <4>3. QED
        BY <1>0, <2>2, <4>1, <4>2 DEF ItemFacts, Charged, SoloJob
    <3>2. items[o] + invoiced[o] <= cleared[o]
      BY <2>2, <3>1 DEF Charged, Tally
    <3>3. \A i \in Jobs : ItemisedFor(i, o)' => i = j
      BY <1>0, <3>1 DEF ItemFacts
    <3>4. items'[o] + invoiced[o] <= cleared[o] + invoicing[j].owed[o]
      BY <1>0, <3>2, StripeTypes DEF ItemFacts
    <3>5. QED
      BY <1>0, <2>1, <2>2, <3>3, <3>4 DEF ItemFacts
  <2>3. CASE p # o
    BY <1>0, <2>1, <2>3 DEF ItemFacts, Charged, Tally
  <2>4. QED
    BY <2>2, <2>3
<1>4. QED
  BY <1>1, <1>2, <1>3 DEF Charged

LEMMA ResetKeepsCharged ==
  ASSUME Base, Base', Charged, NEW j \in Jobs, ResetOverage(j)
  PROVE  Charged'
<1>0. PICK o \in Orgs : ResetFacts(j, o)
  BY ResetCharges
<1>1. SoloJob'
  BY <1>0 DEF ResetFacts, JobsHoldLess, Charged, SoloJob
<1>2. ASSUME NEW i \in DOMAIN invoicing, i # j, o \in invoicing[i].todo PROVE o \in exposed
  BY <1>0, <1>2 DEF ResetFacts, Charged, SoloJob
<1>3. StillOwed'
  <2> SUFFICES ASSUME NEW i \in DOMAIN invoicing', NEW p \in Orgs,
                      p \in invoicing'[i].todo, p \notin exposed
               PROVE  invoicing'[i].owed[p] <= Overage(p)'
    BY <1>0 DEF StillOwed, ResetFacts
  <2>1. /\ i \in DOMAIN invoicing /\ p \in invoicing[i].todo
        /\ invoicing'[i].owed = invoicing[i].owed
    BY <1>0 DEF ResetFacts, JobsHoldLess
  <2>2. p # o
    BY <1>0, <1>2, <2>1 DEF ResetFacts
  <2>3. QED
    BY <1>0, <2>1, <2>2 DEF ResetFacts, Charged, StillOwed
<1>4. Tally'
  <2> SUFFICES ASSUME NEW p \in Orgs, p \notin exposed
               PROVE  /\ (\A i \in Jobs : ~ ItemisedFor(i, p)')
                            => items[p] + invoiced[p] <= cleared'[p]
                      /\ \A i \in Jobs : ItemisedFor(i, p)'
                           => items[p] + invoiced[p] <= cleared'[p] + invoicing'[i].owed[p]
    BY <1>0 DEF Tally, ResetFacts
  <2>1. ASSUME NEW i \in Jobs, ItemisedFor(i, p)'
        PROVE  invoicing'[i].owed = invoicing[i].owed
    BY <1>0, <2>1 DEF ResetFacts, JobsHoldLess, ItemisedFor, Itemised, JobAt
  <2>2. CASE p = o
    <3>1. \A i \in Jobs : ~ ItemisedFor(i, o)'
      BY <1>0, <1>2, <2>2, ItemisedIsHeld DEF ResetFacts
    <3>2. /\ invoicing[j].owed[o] <= Overage(o)
          /\ items[o] + invoiced[o] <= cleared[o] + invoicing[j].owed[o]
          /\ invoicing[j].owed[o] \in Nat
      BY <1>0, <2>2, ItemisedIsHeld DEF ResetFacts, Charged, StillOwed, Tally
    <3>3. items[o] + invoiced[o] <= cleared'[o]
      BY <1>0, <3>2, StripeTypes DEF ResetFacts
    <3>4. QED
      BY <2>2, <3>1, <3>3
  <2>3. CASE p # o
    <3>1. \A i \in Jobs : ItemisedFor(i, p)' <=> ItemisedFor(i, p)
      BY <1>0, <2>3 DEF ResetFacts
    <3>2. QED
      BY <1>0, <2>1, <2>3, <3>1 DEF ResetFacts, Charged, Tally
  <2>4. QED
    BY <2>2, <2>3
<1>5. QED
  BY <1>1, <1>3, <1>4 DEF Charged

LEMMA ChargedStep == Base /\ Base' /\ Charged /\ [Next]_vars => Charged'
BY StepsChargesStay, StayKeepsCharged, StartKeepsCharged, ItemKeepsCharged, ResetKeepsCharged

(* No credit of overage is invoiced twice, unless two runs of the job held  *)
(* the overage at once, or one made the item and did not come to the reset  *)
(* (invoiceOverages 69-84).                                                 *)
THEOREM InvoicedTwiceOnlyIfExposedHolds == Spec => []InvoicedTwiceOnlyIfExposed
<1>1. Init => Charged
  BY DEF Init, Charged, SoloJob, StillOwed, Tally, ItemisedFor, Itemised, JobAt, Empty
<1>2. QED
  BY <1>1, BaseInit, BaseStep, ChargedStep, ChargedOnce, PTL DEF Spec

-----------------------------------------------------------------------------
(* Nothing is written off *)

(* A run that nobody disturbed holds all of the overage. *)
AllOwed ==
  \A j \in DOMAIN invoicing, o \in Orgs :
    o \in invoicing[j].todo /\ o \notin disturbed => Overage(o) <= invoicing[j].owed[o]

(* What was reset, and what a run is about to reset, is on items and        *)
(* invoices.                                                                *)
Booked ==
  \A o \in Orgs \ disturbed :
    /\ cleared[o] <= items[o] + invoiced[o]
    /\ \A j \in Jobs : ItemisedFor(j, o)
         => cleared[o] + Overage(o) <= items[o] + invoiced[o]

Kept == AllOwed /\ Booked

LEMMA StayKeepsKept ==
  ASSUME Base, Base', Kept, ChargesStay
  PROVE  Kept'
<1>1. AllOwed'
  BY DEF ChargesStay, JobsHoldLess, Kept, AllOwed
<1>2. Booked'
  <2> SUFFICES ASSUME NEW o \in Orgs, o \notin disturbed'
               PROVE  /\ cleared[o] <= items'[o] + invoiced'[o]
                      /\ \A j \in Jobs : ItemisedFor(j, o)'
                           => cleared[o] + Overage(o)' <= items'[o] + invoiced'[o]
    BY DEF Booked, ChargesStay
  <2>1. /\ items[o] \in Nat /\ invoiced[o] \in Nat /\ cleared[o] \in Nat
        /\ Overage(o) \in Nat /\ items'[o] \in Nat /\ invoiced'[o] \in Nat
    BY StripeTypes DEF Base, TypeOK
  <2>2. items'[o] + invoiced'[o] >= items[o] + invoiced[o] /\ o \notin disturbed
    BY DEF ChargesStay
  <2>3. ASSUME NEW j \in Jobs, ItemisedFor(j, o)'
        PROVE  /\ cleared[o] + Overage(o) <= items[o] + invoiced[o]
               /\ Overage(o)' = Overage(o)
    <3>1. ItemisedFor(j, o)
      BY <2>3 DEF ChargesStay, ItemsStay
    <3>2. QED
      BY <2>2, <3>1, ItemisedIsHeld DEF Kept, Booked, ChargesStay
  <2>4. QED
    BY <2>1, <2>2, <2>3 DEF Kept, Booked
<1>3. QED
  BY <1>1, <1>2 DEF Kept

LEMMA StartKeepsKept ==
  ASSUME Base, Kept, NEW j \in Jobs, InvoiceOverages(j)
  PROVE  Kept'
<1>0. StartFacts(j)
  BY StartCharges
<1>1. \A o \in Orgs : Overage(o)' = Overage(o) /\ Overage(o) \in Nat
  BY <1>0, StripeTypes DEF StartFacts, Overage, HasBalance
<1>2. AllOwed'
  <2> SUFFICES ASSUME NEW i \in DOMAIN invoicing', NEW o \in Orgs,
                      o \in invoicing'[i].todo, o \notin disturbed
               PROVE  Overage(o) <= invoicing'[i].owed[o]
    BY <1>0, <1>1 DEF AllOwed, StartFacts
  <2>1. CASE i = j
    BY <1>0, <1>1, <2>1 DEF StartFacts
  <2>2. CASE i # j
    BY <1>0, <2>2 DEF StartFacts, Kept, AllOwed
  <2>3. QED
    BY <2>1, <2>2
<1>3. Booked'
  BY <1>0, <1>1 DEF StartFacts, Kept, Booked
<1>4. QED
  BY <1>2, <1>3 DEF Kept

LEMMA ItemKeepsKept ==
  ASSUME Base, Base', Kept, NEW j \in Jobs, CreateInvoiceItem(j)
  PROVE  Kept'
<1>0. PICK o \in Orgs : ItemFacts(j, o)
  BY ItemCharges
<1>1. \A p \in Orgs : /\ Overage(p)' = Overage(p) /\ Overage(p) \in Nat /\ items[p] \in Nat
                      /\ invoiced[p] \in Nat /\ cleared[p] \in Nat
  BY <1>0, StripeTypes DEF ItemFacts, Overage, HasBalance
<1>2. AllOwed'
  BY <1>0, <1>1 DEF ItemFacts, JobsHoldLess, Kept, AllOwed
<1>3. Booked'
  <2> SUFFICES ASSUME NEW p \in Orgs, p \notin disturbed
               PROVE  /\ cleared[p] <= items'[p] + invoiced[p]
                      /\ \A i \in Jobs : ItemisedFor(i, p)'
                           => cleared[p] + Overage(p) <= items'[p] + invoiced[p]
    BY <1>0, <1>1 DEF Booked, ItemFacts
  <2>1. cleared[p] <= items[p] + invoiced[p]
    BY DEF Kept, Booked
  <2>2. CASE p = o
    <3>1. Overage(o) <= invoicing[j].owed[o]
      BY <1>0, <2>2 DEF ItemFacts, Kept, AllOwed
    <3>2. QED
      BY <1>0, <1>1, <2>1, <2>2, <3>1 DEF ItemFacts
  <2>3. CASE p # o
    <3>1. items'[p] = items[p] /\ \A i \in Jobs : ItemisedFor(i, p)' => ItemisedFor(i, p)
      BY <1>0, <2>3 DEF ItemFacts
    <3>2. QED
      BY <2>1, <3>1 DEF Kept, Booked
  <2>4. QED
    BY <2>2, <2>3
<1>4. QED
  BY <1>2, <1>3 DEF Kept

LEMMA ResetKeepsKept ==
  ASSUME Base, Base', Kept, NEW j \in Jobs, ResetOverage(j)
  PROVE  Kept'
<1>0. PICK o \in Orgs : ResetFacts(j, o)
  BY ResetCharges
<1>1. \A p \in Orgs : /\ Overage(p) \in Nat /\ items[p] \in Nat
                      /\ invoiced[p] \in Nat /\ cleared[p] \in Nat
  BY StripeTypes
<1>2. AllOwed'
  <2> SUFFICES ASSUME NEW i \in DOMAIN invoicing', NEW p \in Orgs,
                      p \in invoicing'[i].todo, p \notin disturbed
               PROVE  Overage(p)' <= invoicing'[i].owed[p]
    BY <1>0 DEF AllOwed, ResetFacts
  <2>1. /\ i \in DOMAIN invoicing /\ p \in invoicing[i].todo
        /\ invoicing'[i].owed = invoicing[i].owed
    BY <1>0 DEF ResetFacts, JobsHoldLess
  <2>2. invoicing[i].owed[p] \in Nat
    BY <2>1 DEF Base, TypeOK, Invoicing
  <2>3. CASE p = o
    BY <1>0, <2>1, <2>2, <2>3 DEF ResetFacts
  <2>4. CASE p # o
    BY <1>0, <2>1, <2>4 DEF ResetFacts, Kept, AllOwed
  <2>5. QED
    BY <2>3, <2>4
<1>3. Booked'
  <2> SUFFICES ASSUME NEW p \in Orgs, p \notin disturbed
               PROVE  /\ cleared'[p] <= items[p] + invoiced[p]
                      /\ \A i \in Jobs : ItemisedFor(i, p)'
                           => cleared'[p] + Overage(p)' <= items[p] + invoiced[p]
    BY <1>0 DEF Booked, ResetFacts
  <2>1. CASE p = o
    BY <1>0, <1>1, <2>1 DEF ResetFacts, Kept, Booked
  <2>2. CASE p # o
    <3>1. /\ cleared'[p] = cleared[p] /\ Overage(p)' = Overage(p)
          /\ \A i \in Jobs : ItemisedFor(i, p)' => ItemisedFor(i, p)
      BY <1>0, <2>2 DEF ResetFacts
    <3>2. QED
      BY <3>1 DEF Kept, Booked
  <2>3. QED
    BY <2>1, <2>2
<1>4. QED
  BY <1>2, <1>3 DEF Kept

LEMMA KeptStep == Base /\ Base' /\ Kept /\ [Next]_vars => Kept'
BY StepsChargesStay, StayKeepsKept, StartKeepsKept, ItemKeepsKept, ResetKeepsKept

(* No overage is written off: what a reset takes out is on an item or an    *)
(* invoice, unless more was run up while the run held it (invoiceOverages   *)
(* 27-84).                                                                  *)
THEOREM WrittenOffOnlyIfDisturbedHolds == Spec => []WrittenOffOnlyIfDisturbed
<1>1. Init => Kept
  BY DEF Init, Kept, AllOwed, Booked, ItemisedFor, Itemised, JobAt, Empty
<1>2. Kept => WrittenOffOnlyIfDisturbed
  BY DEF Kept, Booked, WrittenOffOnlyIfDisturbed
<1>3. QED
  BY <1>1, <1>2, BaseInit, BaseStep, KeptStep, PTL DEF Spec

-----------------------------------------------------------------------------
(* The ledger *)

(* What a transaction is about to add is the whole report. *)
Shared ==
  \A t \in DOMAIN metering : metering[t].pc = "commit" =>
    metering[t].used + metering[t].overage = CreditsOf[metering[t].key]

Credited == IsFiniteSet(events) /\ Shared /\ CreditsAreConserved

LEMMA RecordedType == ASSUME Base, NEW o \in Orgs PROVE Recorded(o) \in Nat
BY DEF Base, TypeOK, Recorded, HasBalance, Balance

LEMMA StoredSum ==
  ASSUME Base, Credited, NEW o \in Orgs
  PROVE  /\ IsFiniteSet(Stored(o))
         /\ SumFunctionOnSet(CreditsOf, Stored(o)) \in Nat
<1> USE UsageAssumption
<1>1. Stored(o) \in SUBSET events
  BY DEF Stored
<1>2. IsFiniteSet(Stored(o))
  BY <1>1, FS_Subset DEF Credited
<1>3. \A k \in Stored(o) : CreditsOf[k] \in Nat
  BY <1>1 DEF Base, TypeOK
<1> QED
  BY <1>2, <1>3, SumType

(* Nothing is stored, nobody comes to a commit, and no balance or reset     *)
(* changes.                                                                *)
LEMMA QuietKeepsCredited ==
  ASSUME Base, Credited, UNCHANGED <<events, cleared>>, BalancesGrow,
         \A u \in DOMAIN metering' : metering'[u].pc = "commit"
           => u \in DOMAIN metering /\ metering'[u] = metering[u]
  PROVE  Credited'
<1>1. Shared'
  BY DEF Credited, Shared
<1>2. \A o \in Orgs : Recorded(o)' = Recorded(o)
  BY DEF BalancesGrow, Recorded, HasBalance
<1> QED
  BY <1>1, <1>2 DEF Credited, CreditsAreConserved, Stored

LEMMA ReadBalanceKeepsCredited ==
  ASSUME Base, Credited, NEW t \in Tasks, ReadBalance(t)
  PROVE  Credited'
<1> USE UsageAssumption
<1>1. ReadFacts(t) /\ UNCHANGED <<events, balances, cleared>>
  BY ReadBalanceReads DEF ReadBalance
<1>2. Shared'
  <2> SUFFICES ASSUME NEW u \in DOMAIN metering', metering'[u].pc = "commit"
               PROVE  metering'[u].used + metering'[u].overage
                        = CreditsOf[metering'[u].key]
    BY DEF Shared
  <2>1. CASE u # t
    BY <1>1, <2>1 DEF ReadFacts, Credited, Shared
  <2>2. CASE u = t
    <3>1. metering'[t] = MeterRead(t) /\ metering[t] \in Meter
      BY <1>1, <2>2 DEF ReadFacts
    <3>2. /\ metering'[t].key = metering[t].key
          /\ metering'[t].used = UsedRead(t)
          /\ metering'[t].overage = OverageRead(t)
      BY <3>1 DEF MeterRead, Meter
    <3>3. UsedRead(t) \in Nat /\ CreditsOf[metering[t].key] \in Nat
      BY <1>1, <3>1 DEF ReadFacts, Meter
    <3>4. UsedRead(t) + OverageRead(t) = CreditsOf[metering[t].key]
      BY <3>3 DEF OverageRead
    <3> QED
      BY <2>2, <3>2, <3>4
  <2> QED
    BY <2>1, <2>2
<1>3. CreditsAreConserved'
  BY <1>1 DEF Credited, CreditsAreConserved, Stored, Recorded, HasBalance
<1> QED
  BY <1>1, <1>2, <1>3 DEF Credited

(* The sum of an organisation's reports grows by the one that is stored. *)
LEMMA StoredAdds ==
  ASSUME Base, Credited, NEW k \in Keys \ events, events' = events \cup {k},
         UNCHANGED cleared,
         \A p \in Orgs : Recorded(p)' =
           Recorded(p) + (IF p = OrgOf[k] THEN CreditsOf[k] ELSE 0)
  PROVE  IsFiniteSet(events') /\ CreditsAreConserved'
<1> USE UsageAssumption
<1>1. ASSUME NEW p \in Orgs
      PROVE  SumFunctionOnSet(CreditsOf, Stored(p)') = cleared[p] + Recorded(p)'
  <2>1. SumFunctionOnSet(CreditsOf, Stored(p)) = cleared[p] + Recorded(p)
    BY DEF Credited, CreditsAreConserved
  <2>2. cleared[p] \in Nat /\ Recorded(p) \in Nat /\ CreditsOf[k] \in Nat
    BY RecordedType DEF Base, TypeOK
  <2>3. CASE p = OrgOf[k]
    <3>1. Stored(p)' = Stored(p) \cup {k} /\ k \notin Stored(p)
      BY <2>3 DEF Stored
    <3>2. \A l \in Stored(p) \cup {k} : CreditsOf[l] \in Nat
      BY DEF Stored, Base, TypeOK
    <3>3. IsFiniteSet(Stored(p))
      BY StoredSum
    <3>4. SumFunctionOnSet(CreditsOf, Stored(p) \cup {k}) =
            CreditsOf[k] + SumFunctionOnSet(CreditsOf, Stored(p))
      BY <3>1, <3>2, <3>3, SumAdds
    <3> QED
      BY <2>1, <2>2, <2>3, <3>1, <3>4
  <2>4. CASE p # OrgOf[k]
    <3>1. Stored(p)' = Stored(p)
      BY <2>4 DEF Stored
    <3> QED
      BY <2>1, <2>2, <2>4, <3>1
  <2> QED
    BY <2>3, <2>4
<1>2. IsFiniteSet(events')
  BY FS_AddElement DEF Credited
<1> QED
  BY <1>1, <1>2 DEF CreditsAreConserved

(* The row a commit writes has the credits it found and its own. *)
LEMMA RowAdds ==
  ASSUME Base, Shared, NEW t \in DOMAIN metering, metering[t].pc = "commit",
         NEW o \in Orgs, o = OrgOf[metering[t].key],
         metering[t].fresh <=> ~ HasBalance(o),
         RowWritten(t) \in Balance,
         balances' = Put(balances, o, RowWritten(t))
  PROVE  \A p \in Orgs : Recorded(p)' =
           Recorded(p) + (IF p = o THEN CreditsOf[metering[t].key] ELSE 0)
<1> USE UsageAssumption
<1> DEFINE row == RowFound(t)
           used == metering[t].used
           overage == metering[t].overage
<1>1. metering[t] \in Meter
  BY DEF Base, TypeOK
<1>2. /\ DOMAIN balances' = DOMAIN balances \cup {o} /\ balances'[o] = RowWritten(t)
      /\ \A p \in DOMAIN balances : p # o => balances'[p] = balances[p]
  BY PutBalance DEF Base
<1>3. row \in Balance /\ row.used + row.overage = Recorded(o)
  <2>1. CASE metering[t].fresh
    <3>1. Included[metering[t].tier] \in Nat
          /\ row = NewBalance(Included[metering[t].tier])
      BY <1>1, <2>1 DEF RowFound, Meter
    <3> QED
      BY <2>1, <3>1, NewBalanceType DEF Recorded
  <2>2. CASE ~ metering[t].fresh
    BY <2>2 DEF RowFound, Recorded, HasBalance, Base, TypeOK
  <2> QED
    BY <2>1, <2>2
<1>4. used \in Nat /\ overage \in Nat /\ used + overage = CreditsOf[metering[t].key]
  BY <1>1 DEF Meter, Shared
<1>5. Recorded(o)' = Recorded(o) + CreditsOf[metering[t].key]
  <2>1. balances'[o] = Increased(row, used, overage)
    BY <1>2 DEF RowWritten
  <2>2. row.used \in Nat /\ row.overage \in Nat
    BY <1>3 DEF Balance
  <2>3. Recorded(o)' = balances'[o].used + balances'[o].overage
    BY <1>2 DEF Recorded, HasBalance
  <2> HIDE DEF row, used, overage
  <2>4. /\ Increased(row, used, overage).used = row.used + used
        /\ Increased(row, used, overage).overage = row.overage + overage
    BY <1>3, <1>4, AddUsage, Zenon
  <2>5. Recorded(o)' = (row.used + row.overage) + (used + overage)
    BY <1>4, <2>1, <2>2, <2>3, <2>4
  <2> QED
    BY <1>3, <1>4, <2>5
<1>6. ASSUME NEW p \in Orgs, p # o PROVE Recorded(p)' = Recorded(p)
  BY <1>2, <1>6 DEF Recorded, HasBalance
<1> QED
  BY <1>5, <1>6, RecordedType

(* A report that is stored for the first time adds its credits to both      *)
(* sides of the ledger of its organisation.                                *)
LEMMA CommitUsageKeepsCredited ==
  ASSUME Base, Credited, NEW t \in Tasks, CommitUsage(t)
  PROVE  Credited'
<1> USE UsageAssumption
<1>1. CommitFacts(t) /\ UNCHANGED cleared
  BY CommitUsageCommits DEF CommitUsage
<1>2. ASSUME NEW u \in DOMAIN metering'
      PROVE  u \in DOMAIN metering /\ u # t /\ metering'[u] = metering[u]
  BY <1>1, <1>2 DEF CommitFacts
<1>3. Shared'
  BY <1>2 DEF Credited, Shared
<1>4. CASE UNCHANGED <<events, balances, disturbed>>
  BY <1>1, <1>3, <1>4 DEF Credited, CreditsAreConserved, Stored, Recorded, HasBalance
<1>5. CASE ~ UNCHANGED <<events, balances, disturbed>>
  <2>1. PICK k \in Keys, o \in Orgs : k = metering[t].key /\ o = OrgOf[k]
    BY <1>1 DEF CommitFacts, Meter
  <2>2. /\ metering[t].pc = "commit" /\ t \in DOMAIN metering
        /\ k \notin events
        /\ metering[t].fresh <=> ~ HasBalance(o)
        /\ RowWritten(t) \in Balance
        /\ balances' = Put(balances, o, RowWritten(t))
        /\ events' = events \cup {k}
    BY <1>1, <1>5, <2>1 DEF CommitFacts, Meter
  <2>3. \A p \in Orgs : Recorded(p)' =
          Recorded(p) + (IF p = o THEN CreditsOf[k] ELSE 0)
    BY <2>1, <2>2, RowAdds DEF Credited
  <2> QED
    BY <1>1, <1>3, <2>1, <2>2, <2>3, StoredAdds DEF Credited
<1> QED
  BY <1>4, <1>5

(* A reset moves the overage it finds out of the balance. *)
LEMMA ResetKeepsCredited ==
  ASSUME Base, Credited, NEW j \in Jobs, ResetOverage(j)
  PROVE  Credited'
<1>1. UNCHANGED <<events, metering>>
  BY DEF ResetOverage, requestVars
<1>2. PICK o \in Orgs : /\ o = invoicing[j].org
                        /\ o \in DOMAIN balances
  <2>1. PICK p \in Orgs : p = invoicing[j].org
    BY JobOrg DEF ResetOverage
  <2>2. p \in DOMAIN balances
    BY <2>1, JobOrg DEF ResetOverage
  <2> QED
    BY <2>1, <2>2
<1>3. /\ balances' = [balances EXCEPT ![o].overage = 0]
      /\ cleared' = [cleared EXCEPT ![o] = @ + Overage(o)]
  BY <1>2 DEF ResetOverage
<1>4. balances[o] \in Balance /\ cleared \in [Orgs -> Nat]
  BY <1>2 DEF Base, TypeOK
<1>5. ASSUME NEW p \in Orgs
      PROVE  cleared'[p] + Recorded(p)' = cleared[p] + Recorded(p)
  <2>1. CASE p = o
    <3>1. Recorded(o) = balances[o].used + balances[o].overage
          /\ Recorded(o)' = balances[o].used
      BY <1>2, <1>3, <1>4 DEF Recorded, HasBalance, Balance
    <3>2. cleared'[o] = cleared[o] + balances[o].overage
      BY <1>2, <1>3, <1>4 DEF Overage, HasBalance
    <3> QED
      BY <1>4, <2>1, <3>1, <3>2 DEF Balance
  <2>2. CASE p # o
    <3>1. cleared'[p] = cleared[p] /\ Recorded(p)' = Recorded(p)
      BY <1>3, <1>4, <2>2 DEF Recorded, HasBalance
    <3> QED
      BY <3>1
  <2> QED
    BY <2>1, <2>2
<1>6. CreditsAreConserved'
  BY <1>1, <1>5 DEF Credited, CreditsAreConserved, Stored
<1> QED
  BY <1>1, <1>6 DEF Credited, Shared

LEMMA CreditedStep == Base /\ Base' /\ Credited /\ [Next]_vars => Credited'
<1> SUFFICES ASSUME Base, Base', Credited, [Next]_vars PROVE Credited'
  OBVIOUS
<1> DEFINE
      Quiet == \A u \in DOMAIN metering' : metering'[u].pc = "commit"
                 => u \in DOMAIN metering /\ metering'[u] = metering[u]
<1>1. ASSUME NEW t \in Tasks, Request(t) PROVE Credited'
  <2>1. CASE \E o \in Orgs : FindNoBalance(t, o)
    BY <2>1, UnchangedGrows, QuietKeepsCredited DEF FindNoBalance
  <2>2. CASE CreateBalance(t)
    BY <2>2, CreateBalanceGrows, QuietKeepsCredited DEF CreateBalance
  <2>3. CASE \E k \in Keys : RecordUsage(t, k)
    <3>1. Quiet
      BY <2>3 DEF RecordUsage, Put
    <3> QED
      BY <2>3, <3>1, UnchangedGrows, QuietKeepsCredited DEF RecordUsage
  <2>4. CASE ReadTier(t)
    <3>1. Quiet
      BY <2>4 DEF ReadTier, MeterAt, Base, TypeOK, Meter
    <3> QED
      BY <2>4, <3>1, UnchangedGrows, QuietKeepsCredited DEF ReadTier
  <2>5. CASE ReadBalance(t)
    BY <2>5, ReadBalanceKeepsCredited
  <2>6. CASE CommitUsage(t)
    BY <2>6, CommitUsageKeepsCredited
  <2>7. CASE MeterFails(t)
    <3>1. Quiet
      BY <2>7 DEF MeterFails, Drop
    <3> QED
      BY <2>7, <3>1, UnchangedGrows, QuietKeepsCredited DEF MeterFails
  <2> QED
    BY <1>1, <2>1, <2>2, <2>3, <2>4, <2>5, <2>6, <2>7 DEF Request
<1>2. ASSUME NEW o \in Orgs, GrantCredits(o) PROVE Credited'
  BY <1>2, GrantCreditsGrows, QuietKeepsCredited DEF GrantCredits, requestVars
<1>3. ASSUME UNCHANGED <<metering, balances, events, cleared>> PROVE Credited'
  BY <1>3, UnchangedGrows, QuietKeepsCredited
<1>4. ASSUME NEW j \in Jobs,
             \/ InvoiceOverages(j) \/ JobStep(j) \/ InvoicingThrows(j)
             \/ AnswerLost(j) \/ JobDies(j)
      PROVE  ResetOverage(j) \/ UNCHANGED <<metering, balances, events, cleared>>
  BY <1>4 DEF JobStep, InvoiceOverages, LookUpUser, CreateInvoiceItem, CreateInvoice,
              RecordInvoice, InvoicingThrows, AnswerLost, JobDies, requestVars
<1>5. ASSUME NEW o \in Orgs, NEW s \in Tiers, ChangeTier(o, s)
      PROVE  UNCHANGED <<metering, balances, events, cleared>>
  BY <1>5 DEF ChangeTier, requestVars
<1>6. CASE UNCHANGED vars
  BY <1>3, <1>6 DEF vars
<1> QED
  BY <1>1, <1>2, <1>3, <1>4, <1>5, <1>6, ResetKeepsCredited DEF Next

(* Every reported credit is in the balance exactly once, as used or as      *)
(* overage, or was taken out by a reset, for any reports and however the    *)
(* transactions, the grants and the runs of the job overlap (recordUsage    *)
(* 101-181, resetOverage).                                                 *)
THEOREM CreditsAreConservedHolds == Spec => []CreditsAreConserved
<1>1. Init => Credited
  <2> SUFFICES ASSUME Init PROVE Credited
    OBVIOUS
  <2>1. events = {} /\ IsFiniteSet(events)
    BY FS_EmptySet DEF Init
  <2>2. Shared
    BY DEF Init, Shared, Empty
  <2>3. \A o \in Orgs : Stored(o) = {} /\ cleared[o] + Recorded(o) = 0
    BY <2>1 DEF Init, Stored, Recorded, HasBalance, Empty
  <2>4. CreditsAreConserved
    BY <2>3, SumEmpty DEF CreditsAreConserved
  <2> QED
    BY <2>1, <2>2, <2>4 DEF Credited
<1>2. Credited => CreditsAreConserved
  BY DEF Credited
<1> QED
  BY <1>1, <1>2, BaseInit, BaseStep, CreditedStep, PTL DEF Spec

-----------------------------------------------------------------------------
(* The tiers without a rate *)

(* Whoever is, or was read to be, on a tier with a rate has been on one, as *)
(* has whoever is about to get overage or an invoice item.                  *)
RatedTier == \A o \in Orgs : tier[o] \in Billable => o \in paid
RatedMeter ==
  \A t \in DOMAIN metering :
    /\ metering[t].pc = "read" /\ metering[t].tier \in Billable
         => OrgOf[metering[t].key] \in paid
    /\ metering[t].pc = "commit" /\ metering[t].overage > 0
         => OrgOf[metering[t].key] \in paid
RatedJob == \A j \in DOMAIN invoicing : invoicing[j].pc = "item" => invoicing[j].org \in paid

Rated == RatedTier /\ RatedMeter /\ RatedJob /\ FreeTierOwesNothing

(* Steps other than the following ones: no request and no run comes closer  *)
(* to a charge.                                                             *)
LEMMA QuietKeepsRated ==
  ASSUME Rated, UNCHANGED <<tier, paid>>,
         \A t \in DOMAIN metering' :
           \/ metering'[t].pc = "tier"
           \/ t \in DOMAIN metering /\ metering'[t] = metering[t],
         \A j \in DOMAIN invoicing' : invoicing'[j].pc = "item"
           => j \in DOMAIN invoicing /\ invoicing'[j] = invoicing[j],
         \A o \in Orgs \ paid : Overage(o)' = 0 /\ items'[o] = 0 /\ invoiced'[o] = 0
  PROVE  Rated'
<1>1. RatedTier'
  BY DEF Rated, RatedTier
<1>2. RatedMeter'
  BY DEF Rated, RatedMeter
<1>3. RatedJob'
  BY DEF Rated, RatedJob
<1>4. FreeTierOwesNothing'
  BY DEF FreeTierOwesNothing
<1>5. QED
  BY <1>1, <1>2, <1>3, <1>4 DEF Rated

LEMMA ReadTierKeepsRated ==
  ASSUME Base, Rated, NEW t \in Tasks, ReadTier(t)
  PROVE  Rated'
<1>1. /\ UNCHANGED <<tier, paid, invoicing, balances, items, invoiced>>
      /\ t \in DOMAIN metering /\ metering[t] \in Meter
      /\ OrgOf[metering[t].key] \in Orgs
  BY UsageAssumption DEF ReadTier, MeterAt, stripeVars, Base, TypeOK, Meter
<1>2. /\ DOMAIN metering' = DOMAIN metering
      /\ metering'[t].pc = "read" /\ metering'[t].key = metering[t].key
      /\ metering'[t].tier = tier[OrgOf[metering[t].key]]
      /\ \A u \in DOMAIN metering : u # t => metering'[u] = metering[u]
  BY <1>1 DEF ReadTier, Base, TypeOK, Meter
<1>3. RatedMeter'
  <2> SUFFICES ASSUME NEW u \in DOMAIN metering'
               PROVE  /\ metering'[u].pc = "read" /\ metering'[u].tier \in Billable
                           => OrgOf[metering'[u].key] \in paid
                      /\ metering'[u].pc = "commit" /\ metering'[u].overage > 0
                           => OrgOf[metering'[u].key] \in paid
    BY <1>1 DEF RatedMeter
  <2>1. CASE u = t
    BY <1>1, <1>2, <2>1 DEF Rated, RatedTier
  <2>2. CASE u # t
    BY <1>2, <2>2 DEF Rated, RatedMeter
  <2>3. QED
    BY <2>1, <2>2
<1>4. QED
  BY <1>1, <1>3 DEF Rated, RatedTier, RatedJob, FreeTierOwesNothing, Overage, HasBalance

LEMMA ReadBalanceKeepsRated ==
  ASSUME Base, Rated, NEW t \in Tasks, ReadBalance(t)
  PROVE  Rated'
<1>0. ReadFacts(t) /\ UNCHANGED <<tier, paid, invoicing, balances, items, invoiced>>
  BY ReadBalanceReads DEF ReadBalance, stripeVars
<1>1. /\ metering[t] \in Meter /\ t \in DOMAIN metering /\ metering[t].pc = "read"
      /\ MeterRead(t).pc = "commit" /\ MeterRead(t).key = metering[t].key
      /\ MeterRead(t).overage = OverageRead(t) /\ OverageRead(t) \in Nat
  BY <1>0 DEF ReadBalance, MeterAt, ReadFacts, MeterRead, Meter
<1>2. RatedMeter'
  <2> SUFFICES ASSUME NEW u \in DOMAIN metering'
               PROVE  /\ metering'[u].pc = "read" /\ metering'[u].tier \in Billable
                           => OrgOf[metering'[u].key] \in paid
                      /\ metering'[u].pc = "commit" /\ metering'[u].overage > 0
                           => OrgOf[metering'[u].key] \in paid
    BY <1>0 DEF RatedMeter
  <2>1. CASE u = t
    <3>1. metering'[t] = MeterRead(t) /\ Allowed(metering[t].tier, OverageRead(t))
      BY <1>0, <2>1 DEF ReadFacts
    <3>2. OverageRead(t) > 0 => metering[t].tier \in Billable
      BY <1>1, <3>1 DEF Allowed
    <3>3. QED
      BY <1>1, <2>1, <3>1, <3>2 DEF Rated, RatedMeter
  <2>2. CASE u # t
    <3>1. u \in DOMAIN metering /\ metering'[u] = metering[u]
      BY <1>0, <2>2 DEF ReadFacts
    <3>2. QED
      BY <3>1 DEF Rated, RatedMeter
  <2>3. QED
    BY <2>1, <2>2
<1>3. QED
  BY <1>0, <1>2 DEF Rated, RatedTier, RatedJob, FreeTierOwesNothing, Overage, HasBalance

LEMMA CommitUsageKeepsRated ==
  ASSUME Base, Base', Rated, NEW t \in Tasks, CommitUsage(t)
  PROVE  Rated'
<1>0. CommitFacts(t) /\ UNCHANGED <<tier, paid, invoicing, items, invoiced>>
  BY CommitUsageCommits DEF CommitUsage, stripeVars
<1>1. ASSUME NEW o \in Orgs, o \notin paid PROVE Overage(o)' = 0
  <2>1. Overage(o) = 0
    BY <1>1 DEF Rated, FreeTierOwesNothing
  <2>2. CASE balances' = balances
    BY <2>1, <2>2 DEF Overage, HasBalance
  <2>3. CASE balances' # balances
    <3> DEFINE row == RowFound(t)
               used == metering[t].used
               overage == metering[t].overage
    <3>1. /\ metering[t] \in Meter /\ metering[t].pc = "commit" /\ t \in DOMAIN metering
          /\ ~ metering[t].fresh => HasBalance(OrgOf[metering[t].key])
          /\ RowWritten(t) \in Balance /\ OrgOf[metering[t].key] \in Orgs
          /\ balances' = Put(balances, OrgOf[metering[t].key], RowWritten(t))
      BY <1>0, <2>3 DEF CommitFacts
    <3>2. /\ balances'[OrgOf[metering[t].key]] = RowWritten(t)
          /\ DOMAIN balances' = DOMAIN balances \cup {OrgOf[metering[t].key]}
          /\ \A p \in DOMAIN balances : p # OrgOf[metering[t].key] => balances'[p] = balances[p]
      BY <3>1, PutBalance DEF Base
    <3>3. CASE o = OrgOf[metering[t].key]
      <4>1. overage = 0 /\ used \in Nat
        BY <1>1, <3>1, <3>3 DEF Rated, RatedMeter, Meter
      <4>2. row \in Balance /\ row.overage = 0
        <5>1. CASE metering[t].fresh
          <6>1. Included[metering[t].tier] \in Nat
            BY <3>1, UsageAssumption DEF Meter
          <6>2. QED
            BY <5>1, <6>1, NewBalanceType DEF RowFound
        <5>2. CASE ~ metering[t].fresh
          BY <2>1, <3>1, <3>3, <5>2 DEF RowFound, Overage, HasBalance, Base, TypeOK
        <5>3. QED
          BY <5>1, <5>2
      <4>3. balances'[o] = Increased(row, used, overage)
        BY <3>2, <3>3 DEF RowWritten
      <4>4. o \in DOMAIN balances'
        BY <3>2, <3>3
      <4> HIDE DEF row, used, overage
      <4>5. Increased(row, used, overage).overage = row.overage + overage
        BY <4>1, <4>2, AddUsage
      <4>6. QED
        BY <4>1, <4>2, <4>3, <4>4, <4>5 DEF Overage, HasBalance
    <3>4. CASE o # OrgOf[metering[t].key]
      BY <2>1, <3>2, <3>4 DEF Overage, HasBalance
    <3>5. QED
      BY <3>3, <3>4
  <2>4. QED
    BY <2>2, <2>3
<1>2. QED
  BY <1>0, <1>1, QuietKeepsRated DEF CommitFacts, Rated, FreeTierOwesNothing

LEMMA JobKeepsRated ==
  ASSUME Base, Base', Rated, NEW j \in Jobs,
         \/ InvoiceOverages(j) \/ JobStep(j) \/ InvoicingThrows(j)
         \/ AnswerLost(j) \/ JobDies(j)
  PROVE  Rated'
<1>0. ASSUME UNCHANGED <<balances, items, invoiced>>
      PROVE  \A o \in Orgs \ paid : Overage(o)' = 0 /\ items'[o] = 0 /\ invoiced'[o] = 0
  BY <1>0 DEF Rated, FreeTierOwesNothing, Overage, HasBalance
<1>1. UNCHANGED <<tier, paid, metering>>
  BY DEF JobStep, InvoiceOverages, LookUpUser, CreateInvoiceItem, CreateInvoice, ResetOverage,
         RecordInvoice, InvoicingThrows, AnswerLost, JobDies, requestVars
<1>2. ASSUME JobMoves(j), j \in DOMAIN invoicing' => invoicing'[j].pc # "item"
      PROVE  \A i \in DOMAIN invoicing' : invoicing'[i].pc = "item"
               => i \in DOMAIN invoicing /\ invoicing'[i] = invoicing[i]
  BY <1>2 DEF JobMoves
<1>3. ASSUME InvoiceOverages(j) PROVE Rated'
  <2>1. StartFacts(j) /\ invoicing'[j].pc = "user"
    BY <1>3, StartCharges DEF InvoiceOverages, Put
  <2>2. QED
    BY <1>0, <1>1, <2>1, QuietKeepsRated DEF StartFacts
<1>4. ASSUME NEW o \in Orgs, LookUpUser(j, o) PROVE Rated'
  <2>1. UNCHANGED <<balances, items, invoiced>>
    BY <1>4 DEF LookUpUser, stripeVars
  <2>2. /\ JobMoves(j)
        /\ j \in DOMAIN invoicing' =>
             invoicing'[j].pc = "user" \/ (invoicing'[j].org = o /\ tier[o] \in Billable)
    BY <1>4, LookUpMoves DEF Chargeable
  <2>3. RatedJob'
    <3> SUFFICES ASSUME NEW i \in DOMAIN invoicing', invoicing'[i].pc = "item"
                 PROVE  invoicing'[i].org \in paid
      BY <1>1 DEF RatedJob
    <3>1. CASE i = j
      BY <2>2, <3>1 DEF Rated, RatedTier
    <3>2. CASE i # j
      BY <2>2, <3>2 DEF JobMoves, Rated, RatedJob
    <3>3. QED
      BY <3>1, <3>2
  <2>4. QED
    BY <1>1, <2>1, <2>3
    DEF Rated, RatedTier, RatedMeter, FreeTierOwesNothing, Overage, HasBalance
<1>5. ASSUME CreateInvoiceItem(j) PROVE Rated'
  <2>1. PICK o \in Orgs : o = invoicing[j].org
    BY <1>5, JobOrg DEF CreateInvoiceItem
  <2>2. /\ UNCHANGED <<balances, invoiced>>
        /\ \A p \in Orgs : p # o => items'[p] = items[p]
    BY <1>5, <2>1 DEF CreateInvoiceItem, Base, TypeOK
  <2>3. o \in paid /\ j \in DOMAIN invoicing
    BY <1>5, <2>1 DEF CreateInvoiceItem, JobAt, Rated, RatedJob
  <2>4. JobMoves(j) /\ JobIs(j, "invoice", o)
    BY <1>5, <2>1, <2>3, GoMoves DEF CreateInvoiceItem
  <2>5. \A p \in Orgs \ paid : Overage(p)' = 0 /\ items'[p] = 0 /\ invoiced'[p] = 0
    BY <2>2, <2>3 DEF Rated, FreeTierOwesNothing, Overage, HasBalance
  <2>6. QED
    BY <1>1, <1>2, <2>4, <2>5, QuietKeepsRated DEF JobIs
<1>6. ASSUME CreateInvoice(j) PROVE Rated'
  <2>1. PICK o \in Orgs : o = invoicing[j].org
    BY <1>6, JobOrg DEF CreateInvoice
  <2>2. UNCHANGED balances /\ TakeItems(o) /\ j \in DOMAIN invoicing
    BY <1>6, <2>1 DEF CreateInvoice, JobAt
  <2>3. JobMoves(j) /\ JobIs(j, "reset", o)
    BY <1>6, <2>1, <2>2, GoMoves DEF CreateInvoice
  <2>4. \A p \in Orgs \ paid : Overage(p)' = 0 /\ items'[p] = 0 /\ invoiced'[p] = 0
    BY <2>2 DEF TakeItems, Rated, FreeTierOwesNothing, Overage, HasBalance, Base, TypeOK
  <2>5. QED
    BY <1>1, <1>2, <2>3, <2>4, QuietKeepsRated DEF JobIs
<1>7. ASSUME ResetOverage(j) PROVE Rated'
  <2>1. PICK o \in Orgs : ResetFacts(j, o)
    BY <1>7, ResetCharges
  <2>2. \A p \in Orgs \ paid : Overage(p)' = 0 /\ items'[p] = 0 /\ invoiced'[p] = 0
    BY <2>1 DEF ResetFacts, Rated, FreeTierOwesNothing
  <2>3. JobMoves(j) /\ JobIs(j, "event", invoicing[j].org)
    BY <1>7, ResetMoves
  <2>4. QED
    BY <1>1, <1>2, <2>2, <2>3, QuietKeepsRated DEF JobIs
<1>8. ASSUME NEW o, NextOrg(j, o), j \in DOMAIN invoicing, UNCHANGED <<balances, items, invoiced>>
      PROVE  Rated'
  BY <1>0, <1>1, <1>2, <1>8, NextOrgMoves, QuietKeepsRated
<1>9. ASSUME RecordInvoice(j) PROVE Rated'
  BY <1>8, <1>9 DEF RecordInvoice, JobAt
<1>10. ASSUME InvoicingThrows(j) PROVE Rated'
  BY <1>8, <1>10 DEF InvoicingThrows, stripeVars
<1>11. ASSUME AnswerLost(j) PROVE Rated'
  <2>1. PICK o \in Orgs : o = invoicing[j].org
    BY <1>11, JobOrg DEF AnswerLost
  <2>2. /\ UNCHANGED balances /\ j \in DOMAIN invoicing /\ NextOrg(j, o)
        /\ \/ /\ JobAt(j, "item")
              /\ items' = [items EXCEPT ![o] = @ + invoicing[j].owed[o]]
              /\ UNCHANGED invoiced
           \/ TakeItems(o)
    BY <1>11, <2>1 DEF AnswerLost, JobAt
  <2>3. JobMoves(j) /\ (j \in DOMAIN invoicing' => invoicing'[j].pc = "user")
    BY <2>2, NextOrgMoves
  <2>4. ASSUME NEW p \in Orgs, p \notin paid
        PROVE  Overage(p)' = 0 /\ items'[p] = 0 /\ invoiced'[p] = 0
    <3>1. Overage(p)' = 0 /\ items[p] = 0 /\ invoiced[p] = 0
      BY <2>2, <2>4 DEF Rated, FreeTierOwesNothing, Overage, HasBalance
    <3>2. CASE TakeItems(o)
      BY <3>1, <3>2 DEF TakeItems, Base, TypeOK
    <3>3. CASE JobAt(j, "item") /\ items' = [items EXCEPT ![o] = @ + invoicing[j].owed[o]]
               /\ UNCHANGED invoiced
      <4>1. p # o
        BY <2>1, <2>2, <2>4, <3>3 DEF JobAt, Rated, RatedJob
      <4>2. QED
        BY <3>1, <3>3, <4>1 DEF Base, TypeOK
    <3>4. QED
      BY <2>2, <3>2, <3>3
  <2>5. QED
    BY <1>1, <1>2, <2>3, <2>4, QuietKeepsRated
<1>12. ASSUME JobDies(j) PROVE Rated'
  <2>1. JobMoves(j) /\ j \notin DOMAIN invoicing'
    BY <1>12, DropMoves DEF JobDies
  <2>2. QED
    BY <1>0, <1>1, <1>2, <1>12, <2>1, QuietKeepsRated DEF JobDies, stripeVars
<1>13. QED
  BY <1>3, <1>4, <1>5, <1>6, <1>7, <1>9, <1>10, <1>11, <1>12 DEF JobStep

LEMMA RatedStep == Base /\ Base' /\ Rated /\ [Next]_vars => Rated'
<1> SUFFICES ASSUME Base, Base', Rated, [Next]_vars PROVE Rated'
  OBVIOUS
<1>0. ASSUME BalancesGrow, UNCHANGED <<tier, paid, invoicing, items, invoiced>>,
             \A t \in DOMAIN metering' :
               \/ metering'[t].pc = "tier"
               \/ t \in DOMAIN metering /\ metering'[t] = metering[t]
      PROVE  Rated'
  <2>1. \A o \in Orgs \ paid : Overage(o)' = 0 /\ items'[o] = 0 /\ invoiced'[o] = 0
    BY <1>0, GrowsOverage DEF Rated, FreeTierOwesNothing
  <2>2. QED
    BY <1>0, <2>1, QuietKeepsRated
<1>1. ASSUME NEW t \in Tasks, Request(t) PROVE Rated'
  <2>1. CASE \E o \in Orgs : FindNoBalance(t, o)
    BY <1>0, <2>1, UnchangedGrows DEF FindNoBalance, stripeVars
  <2>2. CASE CreateBalance(t)
    BY <1>0, <2>2, CreateBalanceGrows DEF CreateBalance, stripeVars
  <2>3. CASE \E k \in Keys : RecordUsage(t, k)
    BY <1>0, <2>3, UnchangedGrows DEF RecordUsage, Put, stripeVars
  <2>4. CASE MeterFails(t)
    BY <1>0, <2>4, UnchangedGrows DEF MeterFails, Drop, stripeVars
  <2>5. QED
    BY <1>1, <2>1, <2>2, <2>3, <2>4, ReadTierKeepsRated, ReadBalanceKeepsRated,
       CommitUsageKeepsRated DEF Request
<1>2. ASSUME NEW o \in Orgs, GrantCredits(o) PROVE Rated'
  BY <1>0, <1>2, GrantCreditsGrows DEF GrantCredits, requestVars, stripeVars
<1>3. ASSUME NEW o \in Orgs, NEW s \in Tiers, ChangeTier(o, s) PROVE Rated'
  <2>1. /\ UNCHANGED <<balances, metering, invoicing, items, invoiced>>
        /\ paid \subseteq paid' /\ (s \in Billable => o \in paid')
        /\ \A p \in Orgs : p # o => tier'[p] = tier[p]
        /\ tier'[o] = s
    BY <1>3 DEF ChangeTier, requestVars, stripeVars, Base, TypeOK
  <2>2. RatedTier'
    BY <2>1 DEF Rated, RatedTier
  <2>3. QED
    BY <2>1, <2>2 DEF Rated, RatedMeter, RatedJob, FreeTierOwesNothing, Overage, HasBalance
<1>4. CASE UNCHANGED vars
  BY <1>0, <1>4, UnchangedGrows DEF vars
<1>5. QED
  BY <1>1, <1>2, <1>3, <1>4, JobKeepsRated DEF Next

(* An organisation that was never on a tier with a rate is never owed, nor  *)
(* charged, overage, although the refusal of a report and the job's skip    *)
(* both see a tier that may have changed (recordUsage 136-161,              *)
(* invoiceOverages 52-57).                                                  *)
THEOREM FreeTierOwesNothingHolds == Spec => []FreeTierOwesNothing
<1>1. Init => Rated
  BY DEF Init, Rated, RatedTier, RatedMeter, RatedJob, FreeTierOwesNothing, Overage, HasBalance,
         Empty
<1>2. Rated => FreeTierOwesNothing
  BY DEF Rated
<1>3. QED
  BY <1>1, <1>2, BaseInit, BaseStep, RatedStep, PTL DEF Spec
=============================================================================
