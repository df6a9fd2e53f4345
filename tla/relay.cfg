SPECIFICATION FairSpec
CONSTANTS
  Events = {e1, e2}
  Linked = {e1}
  Envelopes = {v1, v2}
  NoEnvelope = NoEnvelope
  Consumers = {c1}
  Handlers = {h1, h2}
  MaxRelayFaults = 1
  Rows <- Deliveries
  NoRow = NoRow
  Jobs = {j1}
  MaxAttempts = 2
  BatchSize = 50
  MaxForces = 0
  MaxDlqFaults = 1
INVARIANTS
  BilledIsOwed
PROPERTIES
  QueueSpec
  QuietEventStaysQuiet
  PaymentReachesConsumers
CHECK_DEADLOCK FALSE
