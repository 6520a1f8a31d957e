CONSTANTS
  NumHandles = 3
  EMSPagesMax = 4
  MaxState = 1
  PhysPages = 1
  FrameSize = 0
  ConvFrames <- MCConvFrames
  PoolFrames = {f1, f2}
  Names = {"A"}
  Areas = {}
  Lists = {}
  Selected = {"pages", "contexts", "move", "call"}
  f0 = f0
  f1 = f1
  f2 = f2
  g1 = g1
  c1 = c1
  Hole = Hole
  Nil = Nil
SYMMETRY Sym
SPECIFICATION MCSpec
INVARIANTS HandlesWhole PartsWhole
PROPERTIES AnswersKept ImplementsService PartsKept
CHECK_DEADLOCK FALSE
