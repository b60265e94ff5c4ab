SPECIFICATION Spec
CONSTANTS
  k1 = k1
  k2 = k2
  None = None
  Keys = {k1, k2}
  NShards = 3
  ShardOf <- MCShardOf
  NProcs = 2
  Requests = {"c1"}
  Locks = {2}
  Signal = "sig"
  Ttls = {0, 1}
  Files <- MCFiles
  MaxClock = 2
  MaxWrites = 1
  MaxCrashes = 1
  MaxCalls = 2
INVARIANTS SaveCovers PathWhole Durable LoadExact ServesWhole ExpiryKept NoStrayWork
CHECK_DEADLOCK FALSE
