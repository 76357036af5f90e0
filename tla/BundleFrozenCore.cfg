SPECIFICATION Spec
CONSTANTS
  ta = ta
  tb = tb
  tc = tc
  bytes1 = bytes1
  bytes2 = bytes2
  bytes3 = bytes3
  Marker = Marker
  NoBundle = NoBundle
  NoAnchor = NoAnchor
  Txs = {ta, tb, tc}
  FieldsOf <- Fields
  Batches <- MinedFew
  Coin = ta
  SubtreeSize = 2
  MaxBlocks = 3
  MaxReorgs = 3
PROPERTIES FrozenCore
