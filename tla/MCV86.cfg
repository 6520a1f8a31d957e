CONSTANTS
  Selected = {"monitor", "a20", "method", "io", "move", "pages", "hooks"}
  Cells = 11
  Events = 4
  V86Exc0D = FALSE
  Hooked6 = FALSE
  Procs <- Ways
  Given = {"none", "KBC", "FAST"}
  Clients = {"c1", "c2"}
  CountMod = 6
  BootCount = 2
  NoA20 = FALSE
  HmaMin = 1
  HmaSizes = {0, 1}
  TableSize = 3
  PrivateTables = 1
  SystemTables = 1
  Pages = {1, 2, 3}
  MaxBlock = 2
  Modules = {"j1"}
SPECIFICATION Spec
INVARIANTS TypesOK NestingExact GateKept AsInHardware MovedRight PagesWhole HooksWhole
PROPERTIES NestsTransparent KeptWhileHeld Progress
CHECK_DEADLOCK FALSE
