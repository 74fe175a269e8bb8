SPECIFICATION SpecWallet
CONSTANTS
  w1 = w1
  Workers = {w1}
  Amount <- Three
  Fee <- OneOrTwo
  Wallet <- Mixed
  ListLimit = 3
  MaxFaults = 1
  MaxOthers = 1
  PageSize = 2
  Wanted = "asset"
INVARIANTS TypeOK FeeFollows ToldMeansWithdrawn WithdrawnExactly NothingMissed CountedOnce
PROPERTIES EventuallyWithdrawn BalanceReturns
