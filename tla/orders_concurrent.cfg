SPECIFICATION Spec
CONSTANTS
  OrderIds = {o1}
  NoOrder = NoOrder
  Keys = {k1}
  Bodies <- TwoBodies
  NewAmounts = {2}
  Tasks = {t1, t2}
  Threshold = 2
  Currencies = {"MXN", "USD"}
  Limits = {"daily", "monthly"}
  CurrencyOf <- TwoCurrencies
  MaxAmount <- TwoMaxima
  MaxFaults = 1
SYMMETRY TaskSymmetry
INVARIANTS
  SuccessAnswersOwnOrder
  OtpSkippedOnlyIfRaised
  CompletedWasExecuted
  CompletedHasRecord
  ExecutingIsOwned
  LimitsAreBookedOnce
PROPERTIES
  SettledIsFinal
  LifecycleSpec
