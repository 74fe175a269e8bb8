SPECIFICATION Spec
CONSTANTS
  w1 = w1
  w2 = w2
  p1 = p1
  p2 = p2
  Workers = {w1, w2}
  Payments = {p1, p2}
  Trace <- OneEach
  Amount <- Both
  Caller <- AllUntil
  Lookers = {}
  Wallet <- Short
  DepositAmount = 2
  MaxDeposits = 1
  ListLimit = 3
  MaxFaults = 0
INVARIANT UntilSufficientWaits
