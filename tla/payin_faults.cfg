CONSTANTS
  p1 = p1
  p2 = p2
  e1 = e1
  h1 = h1
  h2 = h2
  Payments = {p1}
  Entries = {e1}
  EntryOf <- OneEntry
  Fee = 101
  Split <- DesignSplit
  Groups <- GroupIds
  Handlers = {h1, h2}
  Live <- FirstLive
  Redelivers = TRUE
  MaxCrashes = 1
  MaxFailures = 1
  Cents <- SmallCents
  Splits <- OddSplits
  PercentPlaces <- Percents
  FixedPlaces <- Fixed
SPECIFICATION Spec
CHECK_DEADLOCK FALSE
SYMMETRY Symmetric
INVARIANTS CentsAreKept CreditsSumToPayment CreditBackedByCharge
