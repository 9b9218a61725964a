SPECIFICATION FilesSpec
CONSTANTS
    m1 = m1
    m2 = m2
    m3 = m3
    s1 = s1
    s2 = s2
    NoMessage = NoMessage
    Messages <- MCMessages
    Sessions <- MCSessions
    SessionOf <- MCSessionOf
    HasAttachment <- MCHasAttachment
    MaxMessages = 2
SYMMETRY Alike
INVARIANTS NothingLost FilesAreTogether
PROPERTY AllOrNothing
CHECK_DEADLOCK FALSE
