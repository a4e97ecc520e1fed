SPECIFICATION SendSpec
CHECK_DEADLOCK FALSE
CONSTANTS
  Width = 7
  Durations <- MCDurations
  MaxAttempts = 5
  Second = 2
  Lifetime = 96
  Timeout = 2
  Idle <- MCIdle
  TTLs <- MCTTLs
  DefaultTTL = 99
INVARIANTS
  SleepBounded
  NoRandPanic
  TokenOutlivesRetries
  TTLHonoured
