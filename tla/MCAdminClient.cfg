SPECIFICATION FairSpec
CONSTANTS
    MAX_USERS = 3
    SIZE_MOD = 8
    InitialMax = 2
    MaxRuns = 2
    MaxOthers = 1
    Names <- MCNames
    Passwords <- MCPasswords
    Directories <- MCDirs
    InitialUsers <- MCUsers
    PRINTABLE <- MCPrintable
    AdminRequests <- MCRequests
    Lines <- MCLines
    Others <- MCOthers
    NotGiven <- MCNotGiven
INVARIANTS AnswersMatch RunInOrder
PROPERTY ClientEnds
CHECK_DEADLOCK FALSE
