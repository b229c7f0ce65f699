CONSTANTS
  j1 = j1
  j2 = j2
  t1 = t1
  None = None
  Job = {j1}
  Stream = {"browser"}
  FeedCap = 2
  Target = {t1}
  TargetOf <- OneTarget
  QueueCap = 1
  FileCount <- TwoFiles
SPECIFICATION FairSpec
INVARIANTS
  TypeOK
  DoneMeansSent
PROPERTIES
  StreamsEndIfTold
