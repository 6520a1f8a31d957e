CONSTANTS
  Machines = {"even", "odd"}
  Rest = 0
  NumHandles = 4
  MaxLocks = 1
  FourGB = 64
  PageK = 2
  PPC = 2
  MaxPages = 12
  SysK = 8
  Regions <- EvenRegions
  ReqSizes <- EvenReqSizes
  Space = 2
  MaxEms = 2
  FixBase = 4
  FixPages = 4
SPECIFICATION MCSpec
INVARIANTS CountersExact HeldInside BlocksApart
PROPERTY PromisesKept
