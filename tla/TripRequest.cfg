SPECIFICATION Spec
CONSTANTS
    CGK = CGK
    DPS = DPS
    SUB = SUB
    Airports = {CGK, DPS, SUB}
    OddCodes = {odd}
    BadCodes = {bad}
    LastDay = 3
    BadDates = {soon}
    Blank = Blank
    Nil = Nil
    Parties <- SomeParties
    Cabins = {Blank, biz}
    Economy = eco
    Orders = {Blank, cheapest}
    BestValue = best
    MaxLegs = 3
    RawLegs <- ListedLegs
    MaxListed = 4
INVARIANT SearchedTripsAreSound
PROPERTY FormsAgree
