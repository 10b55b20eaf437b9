\* overrides.bucketID is n1: calls for n1 and n2 work on the same bucket
SPECIFICATION FairSpec
CONSTANTS
  Call = {c1, c2}
  Prior = {p1}
  n1 = n1
  n2 = n2
  Name = {n1, n2}
  RawSize <- AllSizes
  MaxInt64 = 25
  gib = 10
  Config <- OverrideConfig
  NoOverride = NoOverride
  NoUUID = NoUUID
  MaxFaults = 2
CHECK_DEADLOCK FALSE
INVARIANTS NoConflictingSizes SizesAsRequested
PROPERTIES WaitAlwaysEnds ImplementsService
