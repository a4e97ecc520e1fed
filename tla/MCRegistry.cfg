SPECIFICATION FairSpec
CHECK_DEADLOCK FALSE
CONSTANTS
  r1 = r1
  r2 = r2
  n1 = n1
  l1 = l1
  slack = slack
  ntfy = ntfy
  Empty = Empty
  Nil = Nil
  Nobody = Nobody
  Registers = {r1, r2}
  News = {n1}
  Lists = {l1}
  Name <- MCName
  Key = {slack, ntfy}
  Normalized <- MCNormalized
  Reentrant = {r1}
INVARIANTS
  NoMapRace
  OneWinner
PROPERTIES
  AllReturn
  Linearizable
