SPECIFICATION StudioSpec
CONSTANTS
  Units = {"food", "rides"}
  Types = {"cold", "late"}
  CodeOf <- MCCodeOf
  NoUnit = "none"
  Points = {"order", "rider", "customer"}
  Lists <- MCLists
  Templates <- MCTemplates
  Starts <- MCStarts
  MaxRequests = 3
  Together = 2
INVARIANT NoSilentCascade
CHECK_DEADLOCK FALSE
