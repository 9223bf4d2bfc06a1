SPECIFICATION Spec
CONSTANTS
  sell = sell
  w1 = w1
  w2 = w2
  Workers = {w1, w2}
  Sweeper = Sweeper
  t1 = t1
  Takers = {t1}
  Merchant = Merchant
  buy = buy
  tx1 = tx1
  tx2 = tx2
  Ads = {sell, buy}
  SellAds = {sell}
  PostedAds = {sell, buy}
  Exact = 100
  Capacity <- ContestedCapacity
  Amounts = {1}
  addr = addr
  padded = padded
  Addresses = {padded}
  Trimmed <- Trim
  Txs = {tx1}
  DepositAmount <- OneUnitDeposits
  CreditAmounts = {1}
  EditAmounts = {}
  EditStatuses = {}
  Absent = Absent
  NoOrder = NoOrder
  NoAd = NoAd
  NoDispute = NoDispute
  NoAddress = NoAddress
  NoTx = NoTx
  Overlap = "otherOrders"
  ListLimit = 2
  MaxOrders = 2
  MaxDisputes = 2
  MaxEntries = 2
  MaxFunded = 1
  MaxFailures = 0
SYMMETRY WorkerSymmetry
INVARIANTS
  SettledExactlyOnce
  DisputeMatchesOrder
  CreditsAreBacked
  AdNeverOversold
PROPERTIES
  StatusMovesForward
  ImplementsSettlement
CHECK_DEADLOCK FALSE
