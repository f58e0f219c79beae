SPECIFICATION FairSpec
CONSTANTS
    m1 = m1  m2 = m2 m3 = m3
    MAX_USERS = 1
    SIZE_MOD = 8
    InitialMax = 2
    Names <- MCNames
    Passwords <- MCPasswords
    Directories <- MCDirs
    InitialUsers <- MCUsers
    PRINTABLE = {}
    AdminRequests = {}
    Conns = {c1}
    Scripts <- SplitScripts
    MaxLines = 6
    Mails = {m1, m2, m3}
    Size <- Sizes
    InitialFiles <- TwoMails
    Arriving = {}
    BUFFER_SIZE = 4
    ALLOC_MAX = 4
    SplitLines = TRUE
    PartialSends = FALSE
    StatMayFail = FALSE
    Leaving = {}
PROPERTY EveryLineAnswered
CHECK_DEADLOCK FALSE
