SPECIFICATION Spec
CONSTANTS
  OrderIds = {o1}
  NoOrder = NoOrder
  Keys = {k1}
  Bodies <- OneBody
  NewAmounts = {}
  Tasks = {t1, t2}
  Threshold = 2
  Currencies = {"MXN", "USD"}
  Limits = {"daily", "monthly"}
  CurrencyOf <- TwoCurrencies
  MaxAmount <- TwoMaxima
  MaxFaults = 0
INVARIANT
  ExecutedAtMostOnce
