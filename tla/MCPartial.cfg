SPECIFICATION Spec
CONSTANTS
    m1 = m1  m2 = m2 m3 = m3
    MAX_USERS = 3
    SIZE_MOD = 8
    InitialMax = 2
    Names <- Names4
    Passwords <- MCPasswords
    Directories <- MCDirs
    InitialUsers <- Users3
    PRINTABLE = {}
    AdminRequests <- EdgeRequests
    Conns = {c1}
    Scripts <- PartialScripts
    MaxLines = 6
    Mails = {m1, m2, m3}
    Size <- Sizes
    InitialFiles <- TwoBoxes
    Arriving = {}
    BUFFER_SIZE = 4
    ALLOC_MAX = 4
    SplitLines = TRUE
    PartialSends = TRUE
    StatMayFail = TRUE
    Leaving = {"shut", "reset"}
INVARIANTS TypeOK SessionMatchesState PiecesInOrder ListingFits
CHECK_DEADLOCK FALSE
