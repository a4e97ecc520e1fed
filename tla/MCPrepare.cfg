SPECIFICATION Spec
CHECK_DEADLOCK FALSE
CONSTANTS
  Urls <- MCUrls
  Answers <- MCAnswers
  Rewritten <- MCRewritten
  HeaderMaps <- MCHeaderMaps
  Body <- MCBody
  MaxAttempts = 2
  Lower <- MCLower
  TrimSpace <- MCTrimSpace
INVARIANTS
  AttemptsAgree
  HeadersFaithful
PROPERTIES
  VerdictIsPolicy
