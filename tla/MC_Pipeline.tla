----------------------------- MODULE MC_Pipeline -----------------------------
(* Small instances of the pipeline for TLC.                                *)
EXTENDS Pipeline, TLC

CONSTANTS QZ, AirAsia, GA, Garuda

\* Flights with an odd number are flown by one carrier, those with an even number by the other.
CarrierOf(number) == IF number % 2 = 1 THEN {QZ, AirAsia} ELSE {GA, Garuda}

Offer(number, provider, fare, depart, minutes, stops) ==
    [number |-> number, provider |-> provider, airline |-> CarrierOf(number), fare |-> fare,
     depart |-> depart, minutes |-> minutes, stops |-> stops,
     departClock |-> depart, arriveClock |-> depart + minutes,
     alternatives |-> << >>, score |-> 0]

\* One flight sold by both providers, at one fare or the other; the same number on a later day;
\* another flight, slower and with a stop, at the same fare as the first; and one that ties with
\* the first on everything but its number.
ResoldFlight == {Offer(1, 1, 4, 2, 3, 0), Offer(1, 2, 3, 2, 3, 0), Offer(1, 2, 4, 2, 3, 0),
                 Offer(1, 1, 3, 5, 3, 0), Offer(2, 1, 4, 2, 6, 1), Offer(3, 1, 4, 2, 3, 0)}

NoFilter ==
    [minFare |-> 0, maxFare |-> 0, maxMinutes |-> 0, airlines |-> {}, maxStops |-> Unset,
     departAfter |-> Unset, departBefore |-> Unset, arriveAfter |-> Unset, arriveBefore |-> Unset]

Filtered ==
    {[NoFilter EXCEPT !.maxStops = 0], [NoFilter EXCEPT !.minFare = 4],
     [NoFilter EXCEPT !.maxFare = 3], [NoFilter EXCEPT !.maxMinutes = 4],
     [NoFilter EXCEPT !.airlines = {AirAsia}], [NoFilter EXCEPT !.airlines = {Blank}],
     [NoFilter EXCEPT !.airlines = {GA, Blank}],
     [NoFilter EXCEPT !.departAfter = 3], [NoFilter EXCEPT !.departBefore = 2],
     [NoFilter EXCEPT !.arriveAfter = 6], [NoFilter EXCEPT !.arriveBefore = 5]}

Malformed ==
    {[NoFilter EXCEPT !.minFare = 4, !.maxFare = 3], [NoFilter EXCEPT !.maxMinutes = -1],
     [NoFilter EXCEPT !.departAfter = BadClock]}

\* Every filter, in one order, and every order, without a filter.
ManyRequests ==
    [raw : Filtered \cup Malformed, sort : {"price_asc"}] \cup [raw : {NoFilter}, sort : SortOptions]

\* Legs are interchangeable: no definition of Pipeline names one.
Symmetry == Permutations(Procs)
=============================================================================
