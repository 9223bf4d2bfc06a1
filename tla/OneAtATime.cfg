SPECIFICATION Spec
CONSTANTS
  sell = sell
  w1 = w1
  w2 = w2
  Workers = {w1}
  Sweeper = Sweeper
  t1 = t1
  Takers = {t1}
  Merchant = Merchant
  buy = buy
  tx1 = tx1
  tx2 = tx2
  Ads = {sell, buy}
  SellAds = {sell}
  PostedAds = {sell}
  Exact = 16
  Capacity <- RoundedCapacity
  Amounts = {9, 16}
  addr = addr
  padded = padded
  Addresses = {padded}
  Trimmed <- Trim
  Txs = {tx1}
  DepositAmount <- OneUnitDeposits
  CreditAmounts = {18}
  EditAmounts = {Absent}
  EditStatuses = {"closed"}
  Absent = Absent
  NoOrder = NoOrder
  NoAd = NoAd
  NoDispute = NoDispute
  NoAddress = NoAddress
  NoTx = NoTx
  Overlap = "none"
  ListLimit = 2
  MaxOrders = 2
  MaxDisputes = 2
  MaxEntries = 2
  MaxFunded = 18
  MaxFailures = 0
INVARIANTS
  LockedIsLiveOrders
  NeverOverdrawn
  AdCapacityConserved
PROPERTIES
  ClosedAdStaysClosed
CHECK_DEADLOCK FALSE
