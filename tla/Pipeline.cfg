SPECIFICATION Spec
CONSTANTS
    Procs = {g1, g2}
    Offers <- ResoldFlight
    MaxOffers = 3
    Requests <- ManyRequests
    Unset = Unset
    BadClock = BadClock
    Blank = Blank
    Cached = Cached
    QZ = QZ
    AirAsia = AirAsia
    GA = GA
    Garuda = Garuda
SYMMETRY Symmetry
INVARIANTS OffersAreConserved HeadlineIsCheapest OrderIsTotal ScoresAreFair
INVARIANTS CachedAggregateUntouched SameRequestSameAnswer
