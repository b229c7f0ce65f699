SPECIFICATION FairDelivery
CONSTANTS
  t1 = t1
  A = A
  None = None
  Job = {j1}
  Stream = {}
  FeedCap = 1
  Target = {t1}
  TargetOf <- OneTarget
  QueueCap = 1
  FileCount <- Count
  File = {1, 2}
  Canceller = {c1}
  Share = {A}
  Dropbox = {}
  ForeignPath = {}
  Path <- MCPath
  Candidate <- MCCandidate
  PartOf <- MCPartOf
  Size <- MCSize
  Outsider = Outsider
  Decline = Decline
  Torn = Torn
INVARIANTS SentMeansStored BothShowDone
PROPERTY HangUpSettles
