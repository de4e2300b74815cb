SPECIFICATION FairSpec
CONSTANTS
    Span = 16
    Lease = 4
    Silence = 6
    Every = 8
    Settle = 2
    Late = 2
INVARIANTS
    TypeOK
    LeasesEnd
    SilenceDrops
PROPERTIES
    NeverUpUnderArmed
    SamplesCome
