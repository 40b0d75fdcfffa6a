SPECIFICATION Spec
CONSTANTS
  Structured = {overview, blockers}
  MaxIterations = 3
  MaxLoopTokens = 3
  TokenUse = {0, 2}
CHECK_DEADLOCK FALSE
INVARIANTS
    OutsidersStayOut
    LoopIsBounded
    AnswersFollowSearches
    GroundedRestsOnFindings
PROPERTIES
    TurnsEnd
