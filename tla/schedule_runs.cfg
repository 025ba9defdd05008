SPECIFICATION FairSpec
CONSTANTS
    d1 = d1
    d2 = d2
    p1 = p1
    r1 = r1
    None = None
    Domains = {d1, d2}
    Passes = {p1}
    Requests = {r1}
    Interval <- TwoCadences
    Offer <- MixedOffer
    Modes <- MixedModes
    QuietHours <- QuietNight
    Day = 3
    BatchSize = 1
    ProofLife = 1
    MaxTime = 4
INVARIANTS
    RunsAreBounded
PROPERTIES
    BacklogIsNotReplayed
    SlotsAreNotLost
    ObservationBacklogDrains
