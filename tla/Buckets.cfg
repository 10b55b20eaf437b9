\* three calls on one bucket name, with and without a bucket to begin with
SPECIFICATION Spec
CONSTANTS
  Call = {c1, c2, c3}
  Prior = {p1}
  n1 = n1
  n2 = n2
  Name = {n1}
  RawSize <- SomeSizes
  MaxInt64 = 25
  gib = 10
  Config <- DefaultConfigs
  NoOverride = NoOverride
  NoUUID = NoUUID
  MaxFaults = 2
SYMMETRY CallSymmetry
CHECK_DEADLOCK FALSE
INVARIANTS TypeOK NoJobUnaccounted RefusalLeavesNothing OkCreateBacked OkDeleteGone
PROPERTIES DeletesOnlyWhatItFound ImplementsService
