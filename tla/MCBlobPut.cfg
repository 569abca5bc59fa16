CONSTANTS
  Nobody = Nobody
  Clients = {c1, c2}
  Size = 2
  MaxSize = 3
  MaxFaults = 3
SPECIFICATION UploadFairSpec
INVARIANTS PublishedGood OkMeansPublished NoMutualHarm
PROPERTIES EventuallyPublished
CHECK_DEADLOCK FALSE
