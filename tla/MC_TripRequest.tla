--------------------------- MODULE MC_TripRequest ---------------------------
(* A small instance of the request's itinerary for TLC.                    *)
EXTENDS TripRequest

CONSTANTS CGK, DPS, SUB

Typed(code, isTidy) == [reads |-> code, tidy |-> isTidy]

FromTo(a, b, day) ==
    [origin |-> Typed(a, TRUE), destination |-> Typed(b, FALSE), date |-> Typed(day, TRUE)]

\* A party that makes no sense, and one that does.
SomeParties == {-1, 2}

\* Legs that connect, legs that do not, a leg to nowhere, and days in and out of order.
ListedLegs ==
    {FromTo(CGK, DPS, 1), FromTo(CGK, DPS, 3), FromTo(DPS, CGK, 2), FromTo(DPS, CGK, 3),
     FromTo(DPS, SUB, 2), FromTo(SUB, SUB, 2), FromTo(SUB, CGK, Blank)}
=============================================================================
