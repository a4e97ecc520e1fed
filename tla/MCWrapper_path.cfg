SPECIFICATION Spec
CHECK_DEADLOCK FALSE
CONSTANTS
  s1 = s1
  hook = hook
  moved = moved
  Sends = {s1}
  Host = {hook, moved}
  Stable = {hook}
  Location <- CleanLocation
  Policies = {2}
  ClientPolicies = {"limit"}
  RedirectLimit = 2
  HopBound = 2
  Replies = {"2xx", "4xx", "429", "5xx"}
  Rewrites = {FALSE}
INVARIANT
  FirstRequestToURL
