CONSTANTS
  Half  <- MCHalf
  Lists <- MCLists
  Flags <- MCFlags
SPECIFICATION PrintSpec
INVARIANTS NodesKept NamesInOrder
PROPERTIES Implements Prints Returned
