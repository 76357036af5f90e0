SPECIFICATION WireSpec
CONSTANTS
  PathLimit = 2
  BatchLimit = 4
  StackLimit = 2
  CountMod = 8
  Bundles <- SomeBundles
  Messages <- SomeMessages
  ProofBatches <- SomeBatches
  Noise = {0, 1, 5}
  MaxDamage = 2
INVARIANTS RoundTrip CutOrExtendedIsNoticed AcceptedIsReencodable ParsersAgree
CHECK_DEADLOCK FALSE
