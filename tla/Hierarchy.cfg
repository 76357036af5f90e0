SPECIFICATION PullSpec
CONSTANTS
  a = a
  b = b
  c = c
  w = w
  bytes1 = bytes1
  bytes2 = bytes2
  bytes3 = bytes3
  half1 = half1
  half2 = half2
  Txs = {a, b, c, w}
  FieldsOf <- Fields
  Mined = {a, b, w}
  Sizes = {1, 2, 3, 4}
  MaxTxs = 6
  Lanes = 2
  Calls <- PullCalls
INVARIANTS EveryFieldProvable PathsProveMembership RootsMeetOnlyByPadding LaneTreeIsMerkleTree TamperedProofAloneFails PullCountsOnlyProven PanicHasCause
CHECK_DEADLOCK FALSE
