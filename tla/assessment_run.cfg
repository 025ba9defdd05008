SPECIFICATION RunSpec
CONSTANTS
  Collectors <- MCCollectors
  Steps <- AssessmentSteps
  Order <- AssessmentOrder
  Deps <- AssessmentDeps
  Optional <- AssessmentOptional
  MaxAttempts <- MCAttempts
  Phase <- AssessmentPhase
  Outcomes <- MCOutcomes
  Workers = {w1}
  None = None
  MaxCrashes = 1
  MaxReplays = 0
  MayCancel = TRUE
  LeaseMayLapse = FALSE
  Duplicates = TRUE
  RecollectionFails = FALSE
INVARIANTS
    ReportRestsOnScore
    NoEvidenceIsDropped
    StoredEvidenceTellsTheRun
CHECK_DEADLOCK FALSE
