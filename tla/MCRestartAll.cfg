CONSTANTS
  Selected = {"restart"}
  Hole = FALSE
  Options <- AllOptions
  DosTakes <- SomeTakes
  DosSaves <- SomeSaves
SPECIFICATION Spec
INVARIANT AllCleared
CHECK_DEADLOCK FALSE
