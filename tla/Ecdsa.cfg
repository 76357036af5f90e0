SPECIFICATION EcdsaSpec
CONSTANTS
  LimbBits = 3
  Base = 8
  P = 4091
  feC = 5
  curveN = 31
  curveG <- Generator
  Seeds = {0, 1, 11, 29, 30, 4095}
  RawKeys = {0, 31, 40}
  Hashes = {0, 1, 30, 31, 2047, 4095}
  Samples = {0, 1, 2, 4, 5, 6, 7, 8, 9, 63, 64, 511, 512, 819, 2045, 2046, 2047, 2048, 3579, 4080, 4083, 4084, 4086, 4088, 4089, 4090}
  Scalars = {0, 1, 2, 3, 15, 16, 30, 31, 32, 62, 63, 4094}
  MaxTries = 3
INVARIANTS FieldOpsExact LaddersAgree VerifyIsExact SignedIsCanonical
CHECK_DEADLOCK FALSE
