SPECIFICATION Spec
CONSTANTS
  Processes = {p1, p2}
  Definitions <- MCDefinitions
  Researched <- MCResearched
  Holdout <- MCHoldout
  Scores = {0, 1}
  MinScore <- MCMinScore
  None = None
INVARIANTS
  StageIsEarned
  EvidenceIsEarned
SYMMETRY MCSymmetry
PROPERTY NeverBackToResearch
