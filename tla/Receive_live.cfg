SPECIFICATION FairSpec
CONSTANTS
  s1 = s1
  s2 = s2
  f1 = f1
  f2 = f2
  A = A
  B = B
  Session = {s1}
  File = {f1, f2}
  Upload = {u1, u2}
  Canceller = {c1}
  Share = {A}
  Dropbox = {A}
  ForeignPath = {}
  Path <- MCPath
  Candidate <- MCCandidate
  PartOf <- MCPartOf
  Size <- MCEmptySize
  None = None
  Outsider = Outsider
  Decline = Decline
  Torn = Torn
PROPERTIES OffersAnswered AllReceivedEndsJob
