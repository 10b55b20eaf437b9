\* three calls for two accounts; the names of policies (9 characters) fit,
\* those of groups are cut inside the account, where they still differ
SPECIFICATION Spec
CONSTANTS
  Call = {c1, c2, c3}
  Account <- MCAccount
  Bucket <- MCBucket
  BucketLists <- MCLists
  Lower <- MCLower
  PolicyNameLen = 9
  GroupNameLen = 7
  Config <- DefaultConfigs
  NoOverride = NoOverride
  NoKey = NoKey
  MaxFaults = 1
SYMMETRY CallSymmetry
CHECK_DEADLOCK FALSE
INVARIANTS TypeOK GrantedMeansBound GrantedKeysCurrent RevokedMeansGone
PROPERTIES AccessChangesAreOwn ImplementsAccess
