CONSTANTS
    Codes <- AllCodes
    StrLen <- StrLengths
    Numeric <- Numerics
    OtherBytes <- Others
    WildLengths <- Lengths
SPECIFICATION Spec
INVARIANTS
    TypeOK
    AcceptedIsWritten
    CompleteIsAccepted
