CONSTANTS
  Selected = {"cmd", "scan", "boot", "resident", "restart"}
  Hole = FALSE
  Options <- AllOptions
  DosTakes <- SomeTakes
  DosSaves <- SomeSaves
SPECIFICATION Spec
INVARIANTS TypesOK WordsTaken ScanRight LaidOut ResidentWhole StartsFresh
PROPERTIES RunsOn DriversKept
CHECK_DEADLOCK FALSE
