SPECIFICATION EvidenceSpec

CONSTANTS
    Selectors = {"s1", "s2"}
    Protocols = {"TLSv1", "TLSv1.3"}
    Deprecated = {"TLSv1"}
    Ports = {"ssh", "postgres"}
    Exposure <- MCExposure
    Providers = {"p1", "p2"}
    MailHosts = {"mx1", "mx2"}
    Contents <- MCContents
    Baselines <- MCBaselines
    Order <- MCOrder
    MaxDrift = 1
    MaxLost = 2
INVARIANTS
    MissingAnswersJudgeNothing
    SeenIsNeverPassed
    SilenceIsRetried
