\* creates and deletes, and one request or job that fails
SPECIFICATION Spec
CONSTANTS
  Call = {c1, c2}
  Prior = {}
  n1 = n1
  n2 = n2
  Name = {n1}
  RawSize <- SomeSizes
  MaxInt64 = 25
  gib = 10
  Config <- PlainConfig
  NoOverride = NoOverride
  NoUUID = NoUUID
  MaxFaults = 1
CHECK_DEADLOCK FALSE
INVARIANT ExhaustedMeansRejected
