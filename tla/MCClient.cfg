\* One thread, or two that share the transport.
SPECIFICATION FairSpec
CONSTANTS
  Caller = {c1, c2}
  MaxAttempts = 2
  Threshold = 2
  KeepAlive = TRUE
  Nobody = Nobody
INVARIANTS OpenMeansTripped NeverTripsEarly
PROPERTIES BreakerSteps EveryCallReturns ClosesAgain
