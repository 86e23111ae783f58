SPECIFICATION FairSpec
CONSTANTS
  installation = installation
  version = version
  note = note
  picture = picture
  copy = copy
  d1 = d1
  d2 = d2
  SourceOrder <- MCSourceOrder
  Parents <- MCParents
  Media = {picture, copy}
  Digests = {d1, d2}
  Batches = {b1, b2}
  Bundles <- MCBundles
  Operators = {o1, o2}
  ChunkSize = 2
  MaxFaults = 1
  None = None
  Edited = Edited
  Deleted = Deleted
INVARIANTS FinalizedIsComplete MappedIsWritten
PROPERTY ResumeConverges
