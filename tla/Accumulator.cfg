CONSTANTS
  ha = ha  hb = hb
  Headers = {ha, hb}
  Carriers = {ha}
  NoProof = NoProof
  MaxHeaders = 7
SPECIFICATION AccSpec
INVARIANTS AccTypeOK EveryHeightProvable ProofBindsHeaderAndRoot RootCommitsHistory GapsAreHonest
CHECK_DEADLOCK FALSE
