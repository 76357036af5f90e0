SPECIFICATION Spec
CONSTANTS
  x = x  y = y  kx = kx  ky = ky  bob = bob  change1 = change1  change2 = change2
  Coins = {x, y}
  Owned <- MayOwn
  BundleLists <- Lists
  Changes <- ChangeOutputs
  NoChange = NoChange
  Requests <- Received
  Unwritten = Unwritten
  MaxFills = 3
  MaxSent = 1
INVARIANTS FilledStaysSigned ExportedSatisfiesTill
CHECK_DEADLOCK FALSE
