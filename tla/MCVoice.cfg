SPECIFICATION FairSpec
CONSTANTS
    MaxPress = 2
    MaxFiles = 1
INVARIANTS
    VoiceTypeOK
    MemoryMatchesTranscript
    LiveReplyHeard
    SilencedStaysSilent
PROPERTIES
    ReleaseAnswered
    SessionEnds
CHECK_DEADLOCK FALSE
