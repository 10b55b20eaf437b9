\* one RPC is given up, nothing else fails
SPECIFICATION SidecarSpec
CONSTANTS
  Call = {c1, c2, c3}
  Prior = {}
  Name = {n1}
  RawSize <- SomeSizes
  MaxInt64 = 25
  gib = 10
  Config <- TenantConfig
  NoOverride = NoOverride
  NoUUID = NoUUID
  NoCall = NoCall
  MaxFaults = 0
  MaxGiveUps = 1
CHECK_DEADLOCK FALSE
INVARIANT GoneMeansNoBucket
