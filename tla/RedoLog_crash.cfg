SPECIFICATION Spec
CONSTANTS
  Threads = {t1, t2}
  t1 = t1
  t2 = t2
  NoThread = NoThread
  Io = Io
  Pages = {1, 2}
  MtrPages <- Mtrs
  BufSize = 2
  Capacity = 2
  MaxModifiedAgeAsync = 0
  MaxCheckpointAgeAsync = 0
  MaxCheckpointAge = 0
  DirectIo = TRUE
  OsCrashes = TRUE
  MaxRecords = 3
  MaxCrashes = 1
SYMMETRY Symmetry
INVARIANTS TypeOK RecoveryRestores CommitsSurvive CheckpointSuffices BatchWaitsWithoutLatches
