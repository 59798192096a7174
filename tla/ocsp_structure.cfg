SPECIFICATION StructureSpec
CONSTANTS
  Documents <- AllDocuments
  MaxEdits = 2
INVARIANTS
  NothingIgnored
  OneProfile
CHECK_DEADLOCK FALSE
