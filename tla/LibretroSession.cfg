CONSTANTS
  States = {s1, s2, s3}
  Nothing = Nothing
SPECIFICATION Spec
INVARIANTS SessionTypeOK CacheIsCurrent
