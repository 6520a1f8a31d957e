CONSTANTS
  NumHandles = 4
  MaxLocks = 1
  FourGB = 16
  X2Max = 3
  Word64MB = 4
  MaxCount = 2
  MaxNested = 2
  Regions <- MCRegions
  ReqSizes <- MCReqSizes
  Blocks = 5
  Grain = 2
  PageP = 4
  Pages <- MCPages
  PageMap <- MCPageMap
  ConvTop = 16
  ResSize = 1
  Sizes = {1, 2, 3, 5}
SPECIFICATION MCSpec
INVARIANTS TypeOK NoOverlap Complete TablesAgree UmbsHonest
PROPERTIES LockedStays ImplementsStoreNested UmbsAreAStore
