SPECIFICATION Spec
CONSTANTS
    Keys = {k1, k2, k3}
    Hosts = {h1, h2}
    Values = {v1, v2}
    None = None
SYMMETRY Symmetry
INVARIANTS
    LookupIsCurrent
    MergedAsOne
    WindowCountsWhatHappened
    AlertIsEarned
    SignalIsReal
    DropsOnlyCopies
    TicksOnTime
    DatagramIsWhole
    QueryEndsOnce
    NewNamesAreTold
    AssetIsItsUpdates
    MessagesAsSent
    ExchangesPair
    ForwardsEveryByte
    StreamsAsSent
CHECK_DEADLOCK FALSE
