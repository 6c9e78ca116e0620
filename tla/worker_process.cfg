\* One PC with up to two slots and two requests that may enrol it again or
\* revoke it while it starts, runs and stops.
SPECIFICATION FairSpec
CONSTANTS
  r1 = r1  r2 = r2
  Reqs = {r1, r2}
  MaxConc = 2
  MaxKeys = 2
  MaxStarts = 1
INVARIANTS RowAndRoleAgree NoSilentDeath RunningCountExact OneLateClaim
PROPERTIES EnrolmentKept StopEnds RejectedProcessEnds
