SPECIFICATION FanFairSpec
CHECK_DEADLOCK FALSE
CONSTANTS
  h1 = h1
  e1 = e1
  e2 = e2
  Renders = {h1}
  Length = 2
  Mails = {e1, e2}
  Titles <- MCTitles
  Fields <- MCFields
  Edits <- MCEdits
  Clients <- MCClients
  Policies = {1, 2}
INVARIANTS
  TextIsComplete
  NoBufferRace
  MessageReleased
  NilMeansDelivered
  SubjectClean
PROPERTIES
  NoGoroutineLeak
  EveryDestinationReturns
  OneMailAsComposed
