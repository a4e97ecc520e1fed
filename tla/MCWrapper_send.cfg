SPECIFICATION FairSpec
CHECK_DEADLOCK FALSE
CONSTANTS
  s1 = s1
  hook = hook
  moved = moved
  Sends = {s1}
  Host = {hook, moved}
  Stable = {hook}
  Location <- MCLocation
  Policies <- MCPolicies
  ClientPolicies = {"limit", "last"}
  RedirectLimit = 3
  HopBound = 3
  Replies = {"2xx", "3xx", "4xx", "429", "5xx"}
  Rewrites = {TRUE, FALSE}
INVARIANTS
  TransmittedVetted
  RequestBudget
  BodyClosed
  TransientMeansExhausted
  SuccessIsBacked
  CopiesBounded
PROPERTIES
  Implements
  NoResendAfterAnswer
  Terminates
