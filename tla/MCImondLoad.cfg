SPECIFICATION FairSpec
CONSTANTS
    Channels <- MCChannels
    Slots <- MCSlots
    Configs <- LoadConfigs
PROPERTY LinkAfterBandwidthTime
