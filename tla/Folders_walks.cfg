SPECIFICATION Spec
CONSTANTS
  Name = {a, b}
  Depth = 2
  Call = {c1, c2}
  Outside = Outside
SYMMETRY Alike
INVARIANTS ReadyMeansFolder FailsForAReason
