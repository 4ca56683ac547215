SPECIFICATION CallsSpec
CONSTANTS
  Evals = {e1, e2}
  Chain <- ClaudeThenRouter
  ClaudeAttempts = 2
  RouterAttempts = 2
  MaxRetries = 1
  Threshold = 2
  BreakerCooldown = 2
  Describes = {d1, d2}
  MediaModels = 2
  MediaAttempts = 2
  MediaRetries = 1
  MediaCooldown = 2
  MaxMessages = 2
  MaxPieces = 2
  Sends = {s1}
  FloodAttempts = 3
  AlertKeys = {k1, k2, k3, k4}
  MaxAlertKeys = 2
  AlertCooldown = 2
INVARIANT RequestsBounded
INVARIANT WholeMessage
PROPERTY QuietUnlessCrowded
PROPERTY PauseIsEarned
PROPERTY EvaluationsSettle
PROPERTY BreakerIsFair
INVARIANT PostsAreHonest
INVARIANT ResultsAreHonest
CHECK_DEADLOCK FALSE
