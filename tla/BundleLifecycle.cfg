SPECIFICATION FairSpec
CONSTANTS
  ta = ta
  tb = tb
  tc = tc
  bytes1 = bytes1
  bytes2 = bytes2
  bytes3 = bytes3
  Marker = Marker
  NoBundle = NoBundle
  NoAnchor = NoAnchor
  Txs = {ta, tb, tc}
  FieldsOf <- Fields
  Batches <- Mined
  Coin = ta
  SubtreeSize = 2
  MaxBlocks = 3
  MaxReorgs = 2
INVARIANTS TypeOK FetchFailsSafe VerifyIsExact MaintenanceAgrees
PROPERTIES SettledCoinVerifies
