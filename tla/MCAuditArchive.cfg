SPECIFICATION Spec
CONSTANTS
  j1 = j1
  r1 = r1
  r2 = r2
  a1 = a1
  a2 = a2
  a3 = a3
  b1 = b1
  b2 = b2
  Missing = Missing
  Damaged = Damaged
  NoBundle = NoBundle
  NoSink = NoSink
  ByJob = TRUE
  Job <- MCJob
  Rev <- MCRev
  Archiver <- MCArchiver
  Publisher <- MCPublisher
SYMMETRY Symmetry
INVARIANTS
  ChainReplays
  ArchivedVerifies
  PublishedOneChain
  UploadedKept
CHECK_DEADLOCK FALSE
