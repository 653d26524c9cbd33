CONSTANTS
  PerRank = {1, 2}
  Splits = {1, 2, 3}
  MaxRanks = 6
SPECIFICATION Spec
INVARIANTS
  TablesMatchTheBox
  RemoteCellsAreShared
  PortsArePaired
