CONSTANTS
    BitsPerLong = 4
    BitsPerByte = 2
    MaxInt = 15
    lwrb <- MClwrb
    uprbp = 8
    CompSetSze = 10
    Left <- MCLeft
    Right <- MCRight
    Nothing = Nothing
    OutOfBounds = OutOfBounds
    InctError = InctError
SPECIFICATION Spec
PROPERTY ImplementsSets
