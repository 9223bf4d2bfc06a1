SPECIFICATION Spec
CONSTANTS
  sell = sell
  w1 = w1
  w2 = w2
  Workers = {w1, w2}
  Sweeper = Sweeper
  t1 = t1
  Takers = {t1}
  Merchant = Merchant
  buy = buy
  tx1 = tx1
  tx2 = tx2
  Ads = {sell}
  SellAds = {sell}
  PostedAds = {}
  Exact = 100
  Capacity <- SellCapacity
  Amounts = {1}
  addr = addr
  padded = padded
  Addresses = {padded}
  Trimmed <- Trim
  Txs = {}
  DepositAmount <- OneUnitDeposits
  CreditAmounts = {1}
  EditAmounts = {}
  EditStatuses = {}
  Absent = Absent
  NoOrder = NoOrder
  NoAd = NoAd
  NoDispute = NoDispute
  NoAddress = NoAddress
  NoTx = NoTx
  Overlap = "anyOrder"
  ListLimit = 2
  MaxOrders = 1
  MaxDisputes = 1
  MaxEntries = 2
  MaxFunded = 1
  MaxFailures = 1
SYMMETRY WorkerSymmetry
INVARIANTS
  IInv
  CompletedIsSettled
  CancelledIsUnlocked
  DebitsArePaidOut
  PayoutsAreWhitelisted
  ResolvedDisputeIsSettled
PROPERTIES
  AgreementIsFinal
CHECK_DEADLOCK FALSE
