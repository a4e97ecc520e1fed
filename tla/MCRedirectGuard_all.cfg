SPECIFICATION Spec
CHECK_DEADLOCK FALSE
CONSTANTS
  s1 = s1
  s2 = s2
  s3 = s3
  strict = strict
  local = local
  public = public
  loopback = loopback
  c1 = c1
  c2 = c2
  Sends = {s1, s2, s3}
  Wrappers = {strict, local}
  Clients = {c1, c2}
  Targets = {public, loopback}
  Owner <- MCOwner
  Accepts <- MCAccepts
INVARIANTS
  GuardedUnlessRaced
  OneOwnerGuarded
  OneLinkPerSend
