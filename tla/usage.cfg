SPECIFICATION FairSpec
CONSTANTS
  Orgs = {o1}
  NoOrg = NoOrg
  Keys = {k1, k2}
  OrgOf <- OneOrg
  CreditsOf <- LargeAndSmall
  free = free
  pro = pro
  Tiers = {free, pro}
  Billable = {pro}
  Included <- Allowance
  MinInvoice <- Smallest
  BaseTier = free
  GrantSize = 2
  Customers = {o1}
  Tasks = {t1, t2}
  Jobs = {j1, j2}
  MaxChanges = 1
  MaxFaults = 1
INVARIANTS
  CreditsAreConserved
  OverdrawnOnlyByStaleReports
  FreeTierOwesNothing
  InvoicedTwiceOnlyIfExposed
  WrittenOffOnlyIfDisturbed
PROPERTY
  OverageIsInvoiced
CHECK_DEADLOCK FALSE
