SPECIFICATION AdminSpec
CONSTANTS
    MAX_USERS = 3
    SIZE_MOD = 8
    InitialMax = 2
    Names <- MCNames
    Passwords <- MCPasswords
    Directories <- MCDirs
    InitialUsers <- MCUsers
    PRINTABLE <- MCPrintable
    AdminRequests <- AllRequests
INVARIANT AdminTypeOK
PROPERTIES OnlyTheNamedAccountOpens GrantsTouchOneAccount
CHECK_DEADLOCK FALSE
