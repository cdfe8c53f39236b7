CONSTANTS
  t1 = t1
  t2 = t2
  old = old
  ancient = ancient
  NoTag = NoTag
  Tags <- MCTags
  Desired <- MCDesired
  Schema1 <- MCSchema1
  Deleters = {d1, d2}
  BufferSize = 1
SPECIFICATION Spec
INVARIANT TypeOK
PROPERTIES WantedStays Converges
