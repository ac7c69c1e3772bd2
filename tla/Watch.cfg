CONSTANTS
    Key = {k1, k2}
    Prefix = {{k1, k2}}
    Watcher = {w1}
    From = {0, 1, 3}
    Cap = 3
    MaxEvents = 5
SPECIFICATION FairSpec
INVARIANT ChannelsOpen
 
 
PROPERTY ExpiredKeyWatchersGo
CHECK_DEADLOCK FALSE
