\* Addresses further apart than an int can say.
CONSTANTS
  Half  <- MCHalf
  Lists <- FarLists
  Flags <- SortFlags
SPECIFICATION PrintSpec
INVARIANTS AddressesInOrder
