CONSTANTS
  p1 = p1  p2 = p2  c1 = c1  c2 = c2
  k1 = k1  k2 = k2  k3 = k3  o1 = o1  o2 = o2  s1 = s1  s2 = s2
  Zero = Zero
  NoKey = NoKey
  NoAlert = NoAlert
  Publishers = {p1, p2}
  Subscribers = {c1, c2}
  Keys = {k1, k2, k3}
  Outpoints = {o1, o2}
  Spends = {s1, s2, Zero}
  Signed <- TwoConflicts
  Inputs <- Offered
  ChanCap = 1
  MaxClock = 1
  MaxPublish = 2
SPECIFICATION FairSpec
INVARIANTS TypeOK NoForgedAlarm ObservationsInOrder HeardMeansNotQuiet
PROPERTIES AlarmsOnlyAge PublisherReturns ImplementsAlertService
CHECK_DEADLOCK FALSE
