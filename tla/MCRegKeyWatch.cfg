CONSTANTS
    hkey1 = hkey1
    hkey2 = hkey2
    hkey3 = hkey3
    Keys = {hkey1, hkey2, hkey3}
    NULL = NULL
SPECIFICATION FairSpec
INVARIANTS
    WatcherOwned
    StaleOnlyInClose
    EndsOnlyUnfit
    KeysReleased
PROPERTIES
    CloseReturns
