SPECIFICATION FairSpec
CONSTANTS
  w1 = w1
  w2 = w2
  f1 = f1
  f2 = f2
  s1 = s1
  s2 = s2
  s3 = s3
  Workers = {w1, w2}
  Keys = {f1, f2}
  Specs = {s1, s2, s3}
  Cyclic = {s3}
  Nil = Nil
  None = None
INVARIANTS
  TypeOK
  GraphIsOfTheSpec
  AccessIsExclusive
PROPERTIES
  ForgetsOnlyAtStart
  CallsReturn
