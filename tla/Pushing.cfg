SPECIFICATION FairSpec
CONSTANTS
  u1 = u1  u2 = u2  u3 = u3  o1 = o1  o2 = o2
  Uploads = {u1, u2, u3}
  Objects = {o1, o2}
  ObjectOf <- TwoShared
  PartSize = 2
  MaxParts = 3
  Jobs <- AllJobs
  MaxFaults = 2
INVARIANTS PushInv WholeObjects DoneLeavesNothing FailedLeavesNothing
PROPERTIES KeepsPromise PushEnds PushSucceeds
CHECK_DEADLOCK FALSE
