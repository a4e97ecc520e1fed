SPECIFICATION Spec
CHECK_DEADLOCK FALSE
CONSTANTS
  s1 = s1
  hook = hook
  moved = moved
  Sends = {s1}
  Host = {hook, moved}
  Stable = {hook}
  Location <- CleanLocation
  Policies = {1}
  ClientPolicies = {"nil"}
  RedirectLimit = 3
  HopBound = 5
  Replies = {"2xx", "4xx", "429", "5xx"}
  Rewrites = {FALSE}
INVARIANT
  ExistingPolicyKept
