\* Three pictures or null images and the layout make up to four paints; a
\* second is two ticks, and the clock may be set back once, from anywhere.
CONSTANTS
    Window = 2
    MaxClock = 4
    MaxSetBacks = 1
    MaxFrames = 3
SPECIFICATION FairSpec
INVARIANTS
    FpsOfLastSecond
    FpsNotTooLow
PROPERTIES
    LatestShown
