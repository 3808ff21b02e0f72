SPECIFICATION Spec
CONSTANTS
  Keys = {1, 2, 3, 4, 5, 6}
  Twice = {4}
  Nodes <- MCNodes
  Dummy = Dummy
  Null = Null
  MinSize = 4
  ReqIds = 11
  LastKey = 12
  Small = 2
  Large = 3
  MaxPushed = 8
CHECK_DEADLOCK FALSE
INVARIANTS RedBlack LookupsFind
PROPERTIES TreeIsBag RegistryIsBag StoreIsLog
