SPECIFICATION Spec
CONSTANTS
  s1 = s1
  s2 = s2
  f1 = f1
  f2 = f2
  A = A
  B = B
  Session = {s1}
  File = {f1, f2}
  Upload = {u1, u2}
  Canceller = {c1}
  Share = {A, B}
  Dropbox = {B}
  ForeignPath = {"a"}
  Path <- MCSharePath
  Candidate <- MCShareCandidate
  PartOf <- MCSharePartOf
  Size <- MCSize
  None = None
  Outsider = Outsider
  Decline = Decline
  Torn = Torn
SYMMETRY Symmetry
INVARIANTS TypeOK DoneMeansStored NoOrphanPartials JobTellsTheOutcome OnlyWhatWasAccepted ClaimsExclusive
PROPERTY ReceivedFilesSurvive
