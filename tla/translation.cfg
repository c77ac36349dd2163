SPECIFICATION FairSpec
CONSTANTS
  Clauses <- MCClauses
  Inputs <- MCInputs
  Overviews <- MCOverviews
  MaxChars = 800
  Attempts = 3
  Damages = {"reordered", "cut", "lost_row", "lost_separator", "lost_marker"}
INVARIANTS Inv OwnTextOnly FailuresStayLocal
PROPERTIES Terminates
CHECK_DEADLOCK FALSE
