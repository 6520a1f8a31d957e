CONSTANTS
  Selected = {"boot"}
  Hole = TRUE
  Options <- AllOptions
  DosTakes <- SomeTakes
  DosSaves <- SomeSaves
SPECIFICATION Spec
INVARIANT MonitorInOwnBlock
CHECK_DEADLOCK FALSE
