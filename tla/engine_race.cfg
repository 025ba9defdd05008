SPECIFICATION Spec
CONSTANTS
  plan = plan
  dns = dns
  score = score
  report = report
  Steps <- RaceSteps
  Order <- RaceOrder
  Deps <- RaceDeps
  Optional <- RaceOptional
  MaxAttempts <- RaceMaxAttempts
  Phase <- RacePhase
  Outcomes <- RaceOutcomes
  Workers = {w1, w2}
  None = None
  MaxCrashes = 1
  MaxReplays = 1
  MayCancel = TRUE
  LeaseMayLapse = FALSE
  Duplicates = TRUE
SYMMETRY Symmetry
INVARIANTS
    WorkExclusion
    WorkDoneOnce
    RequiredWorkRecorded
    IndInv
