SPECIFICATION Spec
CONSTANTS
    Roles <- Delegation
    AllowPeerControl = {"service"}
    ReportOnly = {"client"}
    Items = {x}
    Reports = {"accepted", "implemented", "verified"}
    MaxRevision = 2
    MaxGeneration = 2
    MaxMessages = 4
    NoInstruction = NoInstruction
INVARIANTS Agreement ShownIsRecorded FactsAreFresh MutualEvidence VerifiedWorkWasDone
PROPERTIES OutdatedStaysOutdated PauseHolds
CHECK_DEADLOCK FALSE
