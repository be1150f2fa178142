SPECIFICATION FairSpec
CONSTANTS
    Feeds <- MCFeeds
    Sources = {"file", "controller"}
    Started = {"list", "nodes"}
    Views = {"servers"}
    EnabledTypes = {"host"}
    EnabledClusters = {1}
    MaxEvents = 2
    MaxKeys = 3
    MaxTroubles = 2
INVARIANTS
    TypeOK
    ScreenIsOneMoment
    EachOnceInOrder
    NoPressLost
PROPERTIES
    WatchCatchesUp
    PlaybackEnds
