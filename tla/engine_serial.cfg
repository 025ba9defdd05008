SPECIFICATION FairSpec
CONSTANTS
  plan = plan
  dns = dns
  score = score
  report = report
  Steps <- ChainSteps
  Order <- ChainOrder
  Deps <- ChainDeps
  Optional <- ChainOptional
  MaxAttempts <- ChainMaxAttempts
  Phase <- ChainPhase
  Outcomes <- ChainOutcomes
  Workers = {w1}
  None = None
  MaxCrashes = 2
  MaxReplays = 0
  MayCancel = TRUE
  LeaseMayLapse = FALSE
  Duplicates = FALSE
INVARIANTS
    AttemptBudget
PROPERTIES
    ImplementsDurableRun
    SettlesUnlessStranded
    CancellationSettles
CHECK_DEADLOCK FALSE
