CONSTANTS
    W32 = 3
    SafeBits = 4
    W64 = 6
    Fraction = Fraction
    Undefined = Undefined
    Null = Null
    Codes = {"INVALID_ARGUMENT"}
    MaxFields = 2
    Arguments <- MCArguments
    AnswersOf <- MCAnswersOf
    WriteMessage <- internalBinaryWrite
    CanWrite <- Writable
    ReadMessage <- internalBinaryRead
    Meaning <- Denotes
CHECK_DEADLOCK FALSE
SPECIFICATION FairSpec
INVARIANTS AtMostOnce ServerSeesTheCall AnswerReachesTheCaller
PROPERTY CallEnds
