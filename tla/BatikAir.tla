------------------------------- MODULE BatikAir -------------------------------
(***************************************************************************)
(* internal/repo/external_client/batikair: offsets without a colon, fares  *)
(* as a breakdown, booking classes as letters, durations as prose.  A      *)
(* piece of prose is the minutes it means and whether it can be read.      *)
(***************************************************************************)
EXTENDS Journeys

BatikName == "Batik Air"

Prose(item, minutes) == [minutes |-> minutes, clear |-> item.fault # "prose"]

\* flight, with fare and connections.
BatikTold(item) ==
    LET j == item.journey
    IN  [number        |-> j.number,
         origin        |-> OriginCode(item), destination |-> DestinationCode(item),
         departure     |-> DepartureStamp(item, "compact"), arrival |-> ArrivalStamp(item, "compact"),
         travelTime    |-> Prose(item, DeclaredMinutes(item)),
         numberOfStops |-> DeclaredStops(item),
         connections   |-> [i \in DOMAIN Changes(j) |->
                              [stopAirport |-> Changes(j)[i], stopDuration |-> Prose(item, DeclaredWait(item, i))]],
         basePrice     |-> Amount(item) - 1, taxes |-> IF item.fault = "fare" THEN 2 ELSE 1,
         totalPrice    |-> Amount(item), currency |-> Currency(item),
         seats         |-> SeatsLeft(item),
         class         |-> IF j.cabin = "economy" THEN "Y" ELSE "J"]

-----------------------------------------------------------------------------
\* parseProseDuration: what cannot be read is zero.
ParseProseDuration(prose) == IF prose.clear THEN prose.minutes ELSE 0

BookingClasses ==
    [Y |-> "economy", W |-> "premium_economy", C |-> "business", J |-> "business", F |-> "first"]

\* cabinFromBookingClass: an unknown class stays what it is.
CabinFromBookingClass(class) ==
    IF class \in DOMAIN BookingClasses THEN BookingClasses[class] ELSE Lowered(class)

BatikStopovers(raw) ==
    [i \in DOMAIN raw.connections |->
        [airport |-> PlaceOf(raw.connections[i].stopAirport, Blank),
         wait    |-> ParseProseDuration(raw.connections[i].stopDuration)]]

\* recordDiscrepancies: the timestamps against the prose, the list against the count, the
\* parts of the fare against its total.
BatikDiscrepancies(f, raw) ==
    LET declared == ParseProseDuration(raw.travelTime)
    IN  Warning("duration", declared > 0 /\ declared # TotalMinutes(f))
        \cup Warning("stops", raw.numberOfStops # Stops(f))
        \cup Warning("fare", raw.basePrice + raw.taxes # raw.totalPrice)

Price(raw) == [amount |-> raw.totalPrice, currency |-> raw.currency]

\* normalizeFlight
BatikNormalize(raw) ==
    LET flights == {[provider |-> BatikName, number |-> raw.number,
                     segments |-> <<[from |-> PlaceOf(raw.origin, Blank),
                                     to |-> PlaceOf(raw.destination, Blank),
                                     depart |-> d, arrive |-> a]>>,
                     stopovers |-> BatikStopovers(raw), price |-> Price(raw), seats |-> raw.seats,
                     cabin |-> CabinFromBookingClass(raw.class), warnings |-> {}] :
                        d \in ParseCompactOffset(raw.departure), a \in ParseCompactOffset(raw.arrival)}
        checked == {[f EXCEPT !.warnings = BatikDiscrepancies(f, raw)] : f \in flights}
    IN  {f \in checked : Valid(f)}
=============================================================================
