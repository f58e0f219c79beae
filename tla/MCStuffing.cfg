\* The room is 7 bytes for the first piece, then 10, and the end with its byte
\* takes 6: messages of up to twelve bytes go in one, two or three pieces.
SPECIFICATION Spec
CONSTANTS
    N = 10
    Heading <- MCHeading
    Messages <- MCMessages
INVARIANT NoEarlyEnd
