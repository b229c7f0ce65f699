SPECIFICATION Spec
CONSTANTS
  Id = {i1, i2, i3}
  Updater = {u1, u2, u3}
  Asked = {0, 2, 9}
  Default = 3
  MinTimeout = 1
  MaxTimeout = 4
  MaxCrashes = 3
  None = None
  Missing = Missing
  Empty = Empty
  Garbled = Garbled
SYMMETRY AnyPair
INVARIANTS TypeOK SettingsKept 
PROPERTY IdentityStays
