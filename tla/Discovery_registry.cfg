SPECIFICATION Spec
CONSTANTS
  Node = {n1, n2}
  Addr = {a1, a2}
  At <- Anywhere
  Request = {r1, r2}
  Loader = Loader
  MaxCrashes = 1
  None = None
SYMMETRY Alike
INVARIANTS ManualTargetsSaved RemovedTargetsUnsaved AddedTargetsKept
PROPERTY ManualTargetsStay
