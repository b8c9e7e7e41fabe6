\* Two workers change accounts at the same time.
SPECIFICATION Spec
CONSTANTS
  Account = {a1, a2}
  Worker = {w1, w2}
  Front = {a1}
  Nobody = Nobody
  FailureLimit = 1
  MaxUKeyFailures = 0
  MaxChallenges = 0
  MaxChanges = 3
CHECK_DEADLOCK FALSE
INVARIANT AccountsReadable
