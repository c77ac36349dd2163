SPECIFICATION FairSpec
CONSTANTS
  Docs <- MCDocs
  States = {"karnataka", "rajasthan"}
  Marked <- MCMarked
  Citations <- MCCitations
  NoState = "none"
  Rules <- MCRules
  NoRule = NoRule
  Candidates <- MCCandidates
  Risks = {"red"}
  ChunkSizes = {1, 2}
  Workers = 2
INVARIANTS Inv RedClausesAct ForeignLawStaysOut
PROPERTIES Terminates
CHECK_DEADLOCK FALSE
