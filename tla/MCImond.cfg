SPECIFICATION FairSpec
CONSTANTS
    Channels <- MCChannels
    Slots <- MCSlots
    Configs <- MCConfigs
INVARIANTS OnlineCountIsRight CircuitOnlineMatches ViewIsCurrent SessionTimeIsReal
PROPERTIES CommandsNeedRights RouteFollowsTimetable
