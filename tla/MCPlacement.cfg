CONSTANTS
  Null = Null
  Shard = {sa, sb}
  Code = {ca}
  Request = {q1, q2}
  Client = {k1}
  Capacity = 1
  Ttl = 2
  MaxBegun = 2
  MaxNotices = 1
  FaultBound = 1
SPECIFICATION Spec
SYMMETRY Alike
INVARIANT
  SplitNeedsLoss
