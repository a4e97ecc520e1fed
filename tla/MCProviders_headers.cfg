SPECIFICATION Spec
CHECK_DEADLOCK FALSE
CONSTANTS
  Configs <- MCConfigs
  CustomTexts <- MCTexts
  BuiltInSizes <- MCSizes
  MaxPlaintextSize = 3800
  recordSize = 4096
INVARIANTS
  OnlyDocumentedHeadersLeave
