SPECIFICATION Spec
CONSTANTS
  q1 = q1
  q2 = q2
  c1 = c1
  c2 = c2
  c3 = c3
  Challenges = {c1, c2, c3}
  Requests = {q1, q2}
  Scopes = {"https_verification"}
  MaxAttempts = 2
  HourlyLimit = 1
  Checkpoints = 2
SYMMETRY MCSymmetry
INVARIANTS
    GuessesAreBounded
    ChallengesAreLimited
PROPERTIES
    StoppedVerificationNeverVerifies
    RevokedStaysRevoked
