SPECIFICATION ParserSpec
CONSTANTS
    MIN_COMMAND_LENGTH = 1
    ARGUMENT_LENGTH = 3
    BUFFER_SIZE = 3
    MaxBytes = 8
    Chars <- MCChars
INVARIANTS ParserTypeOK StringsEnd LinesAreParsed
CHECK_DEADLOCK FALSE
