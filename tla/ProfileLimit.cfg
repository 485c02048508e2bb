SPECIFICATION DatabaseSpec
CONSTANTS
  DriverIds = {d1, d2, d3}
  InvalidId = badId
  MaximumDriverProfiles = 2
  MaximumImagesPerProfile = 1
  MaximumEmbeddingsPerProfile = 1
  Unserialized = unserialized
  MaxRevision = 3
INVARIANT ProfileLimitEnforced
CHECK_DEADLOCK FALSE
