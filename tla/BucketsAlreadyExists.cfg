\* a create and a delete of the overridden bucket, without failures
SPECIFICATION FairSpec
CONSTANTS
  Call = {c1, c2}
  Prior = {p1}
  n1 = n1
  n2 = n2
  Name = {n1}
  RawSize <- SomeSizes
  MaxInt64 = 25
  gib = 10
  Config <- OverrideConfig
  NoOverride = NoOverride
  NoUUID = NoUUID
  MaxFaults = 0
CHECK_DEADLOCK FALSE
PROPERTY AlreadyExistsMeansDiffers
