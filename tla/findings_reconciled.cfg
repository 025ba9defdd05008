SPECIFICATION Spec
CONSTANTS
  d1 = d1
  d2 = d2
  dnssec = dnssec
  nameservers = nameservers
  spf = spf
  mtasts = mtasts
  https = https
  Domains = {d1, d2}
  Checks <- CatalogChecks
  Pillars <- CatalogPillars
  PillarOf <- CatalogPillarOf
  Weight <- CatalogWeight
  PillarWeight <- CatalogPillarWeight
  Bands <- CatalogBands
  Caps <- CatalogCaps
  MinCoverage = 60
  Aim <- FourRuns
  Evidence <- CatalogEvidence
INVARIANTS
    FailingChecksAreListed
    HistoryTellsTheState
    RegressionIsMarked
    ScoreFollowsTheChecks
PROPERTIES
    ForeignDomainsUntouched
CHECK_DEADLOCK FALSE
