SPECIFICATION FairBasket
CONSTANTS
  Name = {a, b}
  Depth = 2
  Call = {}
  Outside = Outside
  a = a
  b = b
  NewSize <- EmptyOrNot
  MaxSize = 2
  MaxEntries = 4
  Touches = 1
  LinkSize = 1
INVARIANTS NothingLeftOut OfferedOnce UploadFailsForAReason
PROPERTY ExpansionEnds
