CONSTANTS
  Null = Null
  Shard = {sa}
  Code = {ca}
  Request = {q1}
  Client = {k1}
  Capacity = 2
  Ttl = 2
  MaxBegun = 3
  MaxNotices = 1
  FaultBound = 2
SPECIFICATION FairSpec
PROPERTIES
  DeadShardsAreForgotten
  UnusedCodesAreFreed
  LiveRoomsAreProjected
