\* Two clients, a table with room for one of them beside the descriptors of
\* pop3d (for both without a log), and limits of open files on both sides of it.
SPECIFICATION FairSpec
CONSTANTS
    FD_SETSIZE = 6
    OpenMax = 6
    Inherited = 1
    c1 = c1
    c2 = c2
    Conns <- MCConns
    Via <- MCVia
    Limits <- MCLimits
INVARIANTS
    TablesAgree
    LiveAreRegistered
    StatsAreRight
    StoppedIsClean
PROPERTIES
    IsReactor
    ReadyAreServed
    SignalStops
CHECK_DEADLOCK FALSE
