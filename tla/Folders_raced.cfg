SPECIFICATION AloneSpec
CONSTANTS
  Name = {a, b}
  Depth = 2
  Call = {c1, c2}
  Outside = Outside
SYMMETRY Alike
INVARIANT NoNeedlessFailure
