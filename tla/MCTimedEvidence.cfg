SPECIFICATION FairSpec
CONSTANTS
    Sessions = {"p1"}
    Thresholds = {1, 2}
    Reasons = {"OVERSTAY"}
    EvidenceRetries = 1
    MaxTime = 2
    MaxFaults = 1
    MaxUpdates = 1
    CaptureRetries = 1
    OcrAttempts = 2
    MaxCrashes = 1
INVARIANTS UnresolvedIsUnknown EndedInTimeIsForgotten
PROPERTIES StaySpec NoEarlyViolation HeldImageIsDecided KnownEvIsJudged
CONSTRAINT OneMishap
CHECK_DEADLOCK FALSE
