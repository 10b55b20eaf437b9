\* one Bucket object and three RPC identities, used again when settled
SPECIFICATION SidecarFairSpec
CONSTANTS
  Call = {c1, c2, c3}
  Prior = {}
  Name = {n1}
  RawSize <- SomeSizes
  MaxInt64 = 25
  gib = 10
  Config <- TenantConfig
  NoOverride = NoOverride
  NoUUID = NoUUID
  NoCall = NoCall
  MaxFaults = 2
  MaxGiveUps = 1
CHECK_DEADLOCK FALSE
INVARIANTS ReadyIsBacked OrphanOnlyFromGivenUpCreate
PROPERTIES WantedSettles DeletionCompletes
