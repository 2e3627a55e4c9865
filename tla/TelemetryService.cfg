CONSTANTS
  r1 = r1
  r2 = r2
  other = other
  Requests = {r1, r2, other}
  From <- MCFrom
  BucketOf <- MCBucketOf
  LabelsOf <- MCLabelsOf
  Ceiling = 1
  Limit = 1
  Window = 2
  MaxKeys = 1
  Threshold = 2
  DayLength = 2
  MaxTime = 3
  MaxBoots = 2
SYMMETRY Symmetry
SPECIFICATION Spec
CHECK_DEADLOCK FALSE
INVARIANTS FoldedWithinCeiling RowsAreRequests PublishedIsOfMany
