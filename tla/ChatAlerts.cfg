SPECIFICATION FairSpec
CONSTANTS
  trader = trader
  merchant = merchant
  other = other
  console = console
  o1 = o1
  o2 = o2
  Clients = {trader, other}
  Admins = {console}
  Orders = {o1, o2}
  Room <- TwoRooms
  Traders = {trader, other}
  Fetchers = {}
  BufferSize = 1
  MaxMessages = 2
INVARIANTS
  TypeOK
  NoSendAfterClose
  DeliveryIsSound
PROPERTIES
  BroadcastFinishes
  NoWriterLeaks
CHECK_DEADLOCK FALSE
