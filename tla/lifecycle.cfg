CONSTANTS
  None = None
  Markets = {m1}
  Outcomes = {yes, no}
  Officers = {o1, o2}
  Workers = {w1, w2}
  Occurrences = 2
SPECIFICATION GovernanceSpec
INVARIANTS
  IndependentApproval
  ResolvedByTwoOfficers
  OneWorkerPerOccurrence
PROPERTIES
  NoReturnToTrading
  WorkerEndsMarket
  DueIsClaimed
CHECK_DEADLOCK FALSE
