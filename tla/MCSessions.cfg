SPECIFICATION Spec
CONSTANTS
    m1 = m1  m2 = m2 m3 = m3
    MAX_USERS = 1
    SIZE_MOD = 8
    InitialMax = 1
    Names <- MCNames
    Passwords <- MCPasswords
    Directories <- MCDirs
    InitialUsers <- MCUsers
    PRINTABLE = {}
    AdminRequests <- Reconfigure
    Conns = {c1, c2}
    Scripts <- SessionScripts
    MaxLines = 6
    Mails = {m1, m2, m3}
    Size <- Sizes
    InitialFiles <- TwoMails
    Arriving <- OneDelivery
    BUFFER_SIZE = 4
    ALLOC_MAX = 4
    SplitLines = FALSE
    PartialSends = FALSE
    StatMayFail = FALSE
    Leaving = {"shut"}
PROPERTIES MailSafety ListingStable
CHECK_DEADLOCK FALSE
SYMMETRY Clients
