SPECIFICATION Spec
CONSTANTS
  Names = {n1, n2}
  NoName = NoName
  RootChain <- MCRootChain
  ClusterSlots = 2
  LastCluster = 6
  FatLen = 8
  FatWords = 16
  FirstEOC = 16
  EOC = 17
  Images <- MCImages
  FaultKinds = {"power", "write"}
  MaxFaults = 2
INVARIANTS TypeOK RootIntact ConsistentUnlessTorn NoLostCluster
PROPERTIES EntriesOnlyDeleted DirListsAll TypeReadsWhole ImplementsStore CallReturns
