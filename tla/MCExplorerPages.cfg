SPECIFICATION FairSpec
CONSTANTS
    a = a
    b = b
    c = c
    burn = burn
    hidden = hidden
    Addresses = {a, b, c, burn, hidden}
    Burned = {burn}
    Special = {hidden}
    Received <- MCReceived
    Balance <- MCBalance
    MaxHeight = 2
    TopSize = 2
    Names = {name}
    NoName = NoName
    NoList = NoList
    Settings <- MCSettings
    MaxClaims = 1
    MaxFaults = 2
INVARIANTS
    ListsAreRankings
    NoCoinCountedTwice
PROPERTIES
    PagesCatchUp
