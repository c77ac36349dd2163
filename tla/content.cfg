SPECIFICATION FairSpec
CONSTANTS
  Entries = {"shram", "board"}
  Languages = {"en", "hi", "bn"}
  English = "en"
  Targets = {"hi"}
  RulesOf <- MCRulesOf
  Everywhere = "all"
  NoAnswer = NoAnswer
  Profiles <- MCProfiles
  NoProfile = NoProfile
  Readers = {r1}
  NoEntry = NoEntry
  MaxStops = 1
  Attempts = 2
  Sources = {"posh", "code"}
  Layouts <- MCLayouts
  Samples <- MCSamples
  MaxChars = 6
  MinChars = 3
  Slab = 1
  Foreign <- MCForeign
  Inactive <- MCInactive
  Runs = {s1, s2}
  NoRun = NoRun
  Batches = {"one", "two"}
  Clauses = 2
  Text <- MCText
  NoQuery = NoQuery
  NearestPerClause = 2
  InPrompt = 1
  Connections = 1
  Callers = {c1, c2}
  Selections = {"", "vertex"}
  MaxBoots = 3
  Seed <- MCSeed
  Refs <- MCRefs
  Newest = 2
  Documents <- MCDocuments
  Hints = {"en", "hi"}
  Indic = {"hi"}
  Raises = Raises
  MaxPages = 2
  Enough = 4
INVARIANT Inv
PROPERTIES AllAnswered GroundedOnceIngested
CHECK_DEADLOCK FALSE
