SPECIFICATION Spec
CONSTANTS
  d1 = d1
  d2 = d2
  name = name
  dmarc = dmarc
  exposed = exposed
  None = None
  Domains = {d1, d2}
  NameOf <- MCNameOf
  Checks = {dmarc, exposed}
  PublicChecks = {dmarc}
  Results = {"pass", "fail", "unknown"}
  RunKinds <- MCRunKinds
  MaxRuns = 2
SYMMETRY MCSymmetry
INVARIANTS
    WithdrawnIsGone
    PageShowsOneRun
PROPERTIES
    OnlyThePermittedAppears
