CONSTANTS
  None = None
  Logins = {l1, l2}
  Administrators = {l1}
  Emails = {e1, e2}
  Assets = {a1}
SPECIFICATION FairSpec
INVARIANTS
  VerifiedOwnsEmail
  MissingByOverlapOnly
PROPERTIES
  NothingIsUndone
  MissingIsMadeUp
CHECK_DEADLOCK FALSE
