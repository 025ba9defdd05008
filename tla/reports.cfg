SPECIFICATION FairSpec
CONSTANTS
  primary = primary
  host = host
  spf = spf
  hsts = hsts
  above = above
  None = None
  Checks = {spf, hsts}
  Subjects = {primary, host}
  Domain = primary
  RegistrableName = primary
  RunKinds <- MCRunKinds
  MaxRuns = 2
  SweptRows = 1
  Users = {u1}
  Grants = {g1}
  Requests = {q1, q2}
INVARIANTS
    MarkTellsTheTruth
    OneDocumentPerGrant
    PageAgreesWithItself
