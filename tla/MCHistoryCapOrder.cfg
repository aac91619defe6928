CONSTANTS
    a = a
    none = none
    CallIds <- MCCallIds
    NoCall <- none
    Alphabet <- MCAlphabet
    Settings <- MCSettings
    DefaultGeneration = 3
    Reserve = 1
    DefaultWindow = 6
    Marker = 1
    MaxMessages = 5
SPECIFICATION Spec
INVARIANT OriginalOrder
CHECK_DEADLOCK FALSE
