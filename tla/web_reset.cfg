\* One worker: a reset and a new initialisation.
SPECIFICATION Spec
CONSTANTS
  Account = {a1}
  Worker = {w1}
  Front = {a1}
  Nobody = Nobody
  FailureLimit = 1
  MaxUKeyFailures = 0
  MaxChallenges = 0
  MaxChanges = 3
CHECK_DEADLOCK FALSE
INVARIANT InitialisedCanLogin
