-------------------------- MODULE MC_SearchService --------------------------
(* Small instances of the search service for TLC.                          *)
EXTENDS SearchService, TLC

CONSTANTS p1, p2, out, back, qz1, jt1, jt2, eco, biz

Offer(number, l, cabin, seats, fare, direct, sound) ==
    [number |-> number, leg |-> l, cabin |-> cabin, seats |-> seats, fare |-> fare,
     direct |-> direct, sound |-> sound]

\* Both providers sell flight qz1, at different fares and from different stocks of seats; the
\* rest is what accept drops: another leg, another cabin, an incoherent record.
TwoSellers ==
    (p1 :> {Offer(qz1, out, eco, 1, 10, TRUE, TRUE), Offer(jt1, out, eco, 2, 8, FALSE, TRUE)}) @@
    (p2 :> {Offer(qz1, out, eco, 2, 9, TRUE, TRUE), Offer(jt2, back, eco, 2, 7, TRUE, TRUE),
            Offer(jt1, out, biz, 2, 20, TRUE, TRUE), Offer(jt2, out, eco, 2, 5, TRUE, FALSE)})

Request(legs, passengers, directOnly) ==
    [legs |-> legs, cabin |-> eco, passengers |-> passengers, directOnly |-> directOnly,
     wellFormed |-> TRUE, knownSort |-> TRUE]

OneWay    == Request(<<out>>, 1, FALSE)
RoundTrip == Request(<<out, back>>, 1, FALSE)

\* One-way searches that differ in party and filter, and a malformed one.
OneWays == {OneWay, Request(<<out>>, 2, FALSE), Request(<<out>>, 1, TRUE),
            [OneWay EXCEPT !.wellFormed = FALSE]}

\* A one-way and a round trip that share a leg, and a trip that asks for one leg twice.
Trips == {OneWay, RoundTrip, Request(<<out, out>>, 1, FALSE)}

UnknownSorts == {[OneWay EXCEPT !.knownSort = FALSE]}
RoundTrips   == {RoundTrip}

\* Searches are interchangeable: no definition of SearchService names one.
Symmetry == Permutations(Searches)
=============================================================================
