SPECIFICATION FairSpec
CONSTANTS
  sell = sell
  w1 = w1
  w2 = w2
  Workers = {w1}
  Sweeper = Sweeper
  t1 = t1
  Takers = {t1}
  Merchant = Merchant
  buy = buy
  tx1 = tx1
  tx2 = tx2
  Ads = {buy}
  SellAds = {}
  PostedAds = {}
  Exact = 100
  Capacity <- SellCapacity
  Amounts = {1}
  addr = addr
  padded = padded
  Addresses = {}
  Trimmed <- Trim
  Txs = {tx1}
  DepositAmount <- OneUnitDeposits
  CreditAmounts = {}
  EditAmounts <- NegativeAmount
  EditStatuses = {"frozen"}
  Absent = Absent
  NoOrder = NoOrder
  NoAd = NoAd
  NoDispute = NoDispute
  NoAddress = NoAddress
  NoTx = NoTx
  Overlap = "anyOrder"
  ListLimit = 2
  MaxOrders = 2
  MaxDisputes = 0
  MaxEntries = 2
  MaxFunded = 1
  MaxFailures = 1
INVARIANTS
  TypeOK
  CreditsAreBacked
PROPERTIES
  OverdueIsCancelled
CHECK_DEADLOCK FALSE
