CONSTANTS
  j1 = j1
  j2 = j2
  t1 = t1
  None = None
  Job = {j1, j2}
  Stream = {}
  FeedCap = 1
  Target = {t1}
  TargetOf <- OneTarget
  QueueCap = 1
  FileCount <- OneFile
SPECIFICATION FairSpec
INVARIANTS
  EndedMeansOver
PROPERTIES
  EndIsFinal
  QueuedCancelHolds
  ServesInOrder
  CancelFreesTheWorker
  NoJobStarves
