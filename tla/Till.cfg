SPECIFICATION Spec
CONSTANTS
  till1 = till1
  x = x
  y = y
  blockX = blockX
  blockY = blockY
  carrier = carrier
  alice = alice
  carol = carol
  bob = bob
  change = change
  NoMessage = NoMessage
  NoAnchor = NoAnchor
  Tills = {till1}
  Coins = {x, y}
  Blocks = {blockX, blockY, carrier}
  BlockOf <- Mined
  Views <- Headers
  Wirings <- WiredAnyhow
  ValueOf <- Worth
  Pubkeys = {alice, carol}
  Messages <- Handed
  Template <- Requested
  Tau = 5
  Window = 1
  ValueLimit = 8
  MaxClock = 1
  MaxAlerts = 1
  MaxReorgs = 1
  MaxPayments = 2
INVARIANTS TypeOK
PROPERTIES AcceptedWasUnopposed RefusedForCause
CHECK_DEADLOCK FALSE
