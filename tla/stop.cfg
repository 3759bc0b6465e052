SPECIFICATION MCSpec
CONSTANTS
  g1 = g1
  g2 = g2
  Servers = {g1}
  MaxVersion = 1
  Sends = {"save", "query", "record"}
  MaxSends = 1
  MaxErrors = 1
  Prompt = FALSE
  BadSaves = TRUE
  AtomicTake = TRUE
  Loss = TRUE
CHECK_DEADLOCK FALSE
INVARIANT NoTaskLeft
INVARIANT HeroesSaved
PROPERTY RowsForward
PROPERTY BothStop
