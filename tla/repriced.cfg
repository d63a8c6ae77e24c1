SPECIFICATION BillingSpec
CONSTANTS
  e1 = e1 e2 = e2 e3 = e3 e4 = e4
  Events = {e1, e2, e3, e4}
  At <- Seconds
  Relevant = {e1, e2, e3}
  Unpriced = {e3}
  Handlers = {h1, h2}
  DeliveryMax = 2
  FaultMax = 1
  None = None
  low = low high = high
  Operators = {h1, h2}
  Keys = {1, 2}
  Ceilings = {low, high}
  Bodies <- SomeBodies
  p1 = p1 p2 = p2
  Prices = {p1, p2}
  PriceIds = {p1, p2, p3}
  AtStripe <- StripesPrices
  Amounts = {1, 2}
  SaveMax = 2
  Omitted = Omitted
  NoRow = NoRow
  MoveMax = 3
  Meters = {h1, h2}
  Rates = {1}
  NoRate = NoRate
  NoEntry = NoEntry
  Spenders = {t1}
  Asker <- Askers
  Nobody = Nobody
  NoPage = NoPage
  Days = {1}
  Platform = Platform
  PriceTtl = 1
  Longest = 1
  DayMax = 3
  CallMax = 3
  EditMax = 2
SYMMETRY Symmetry
CHECK_DEADLOCK FALSE
INVARIANT CancellationBites
