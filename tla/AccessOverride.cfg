\* a grant and a revoke of two buckets, one of which is overrides.bucketID
SPECIFICATION Spec
CONSTANTS
  Call = {c1, c2}
  Account <- MCAccount
  Bucket <- MCBucket
  BucketLists <- MCLists
  Lower <- MCLower
  PolicyNameLen = 9
  GroupNameLen = 7
  Config <- OverrideConfig
  NoOverride = NoOverride
  NoKey = NoKey
  MaxFaults = 0
CHECK_DEADLOCK FALSE
INVARIANT RevokedMeansGone
