\* Two workers, two accounts, one challenge, one kill.
SPECIFICATION Spec
CONSTANTS
  Account = {a1, a2}
  Worker = {w1, w2}
  Front = {a1}
  Nobody = Nobody
  FailureLimit = 1
  MaxUKeyFailures = 1
  MaxChallenges = 1
  MaxChanges = 4
CHECK_DEADLOCK FALSE
SYMMETRY Symmetry
INVARIANTS TypeOK SuperAdminRemains ChallengeOnce LoginsAreLimited UnreadableOnlyByOverlap LockedOutOnlyByOverlap
PROPERTY LostUpdateOnlyByOverlap
