SPECIFICATION FairSpec
CONSTANTS
    a = a
    b = b
    six = six
    onion = onion
    Addresses = {a, b, six, onion}
    WithColon = {six}
    Names = {onion}
    Timer = Timer
    Runs = {Timer, byHand}
    Starts <- MCStarts
    MaxChanges = 2
    MaxFaults = 1
INVARIANTS
PROPERTIES
    NeverBlank
    RelayStaysPublished
    DnsCatchesUp
