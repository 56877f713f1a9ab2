CONSTANTS
  Window = {w1, w2}
  NoWindow = NoWindow
  Prompt = TRUE
  MaxLoads = 3
  MaxAsks = 2
SPECIFICATION Spec
CHECK_DEADLOCK FALSE
INVARIANTS WhoWorksHolds
PROPERTIES AskingEnds
