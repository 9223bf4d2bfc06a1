SPECIFICATION FairSpec
CONSTANTS
  trader = trader
  merchant = merchant
  other = other
  console = console
  o1 = o1
  o2 = o2
  Clients = {trader, merchant}
  Admins = {}
  Orders = {o1, o2}
  Room <- TwoRooms
  Traders = {trader}
  Fetchers = {trader, merchant}
  BufferSize = 1
  MaxMessages = 2
INVARIANTS
  NoSendAfterClose
  DeliveryIsSound
  NothingMissed
PROPERTIES
  NoWriterLeaks
CHECK_DEADLOCK FALSE
