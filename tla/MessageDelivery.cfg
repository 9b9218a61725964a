SPECIFICATION Spec
CONSTANTS
    Window = 2
    MaxSequence = 4
    Ciphertexts = {x, y}
    MaxFingerprints = 2
    MaxMessages = 2
    Nothing = Nothing
SYMMETRY Symmetry
INVARIANTS AcceptedOnce NothingAfterEnd
PROPERTIES NeverStoredAgain PipelineKeepsUnread
CHECK_DEADLOCK FALSE
