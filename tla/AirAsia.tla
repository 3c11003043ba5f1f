-------------------------------- MODULE AirAsia -------------------------------
(***************************************************************************)
(* internal/repo/external_client/airasia: one fare in rupiah, durations in *)
(* hours with two decimals, kept here in hundredths of an hour.            *)
(***************************************************************************)
EXTENDS Journeys

AsiaName == "AirAsia"

\* Hundredths of an hour, to the nearest, in so many minutes.
InHundredths(minutes) == (minutes * 100 + 30) \div 60

\* flight, with stops.  A misstated count is a journey wrongly called direct, or not.
AsiaTold(item) ==
    LET j == item.journey
    IN  [number        |-> j.number,
         fromAirport   |-> OriginCode(item), toAirport |-> DestinationCode(item),
         departTime    |-> DepartureStamp(item, "colon"), arriveTime |-> ArrivalStamp(item, "colon"),
         durationHours |-> InHundredths(DeclaredMinutes(item)),
         directFlight  |-> (item.fault = "stops") = Connecting(j),
         stops         |-> [i \in DOMAIN Changes(j) |->
                              [airport |-> Changes(j)[i], waitTime |-> DeclaredWait(item, i)]],
         priceIDR      |-> Amount(item),
         seats         |-> SeatsLeft(item),
         cabinClass    |-> IF j.cabin = "economy" THEN "Economy" ELSE "Business"]

-----------------------------------------------------------------------------
AsiaStopovers(raw) ==
    [i \in DOMAIN raw.stops |->
        [airport |-> PlaceOf(raw.stops[i].airport, Blank), wait |-> raw.stops[i].waitTime]]

\* Mutant: the minutes are cut off, not rounded.
InMinutesCut(hundredths) == (hundredths * 60) \div 100

\* The declared hours at the resolution of minutes: math.Round.
InMinutes(hundredths) == (hundredths * 60 + 50) \div 100

\* recordDiscrepancies: the timestamps against the hours, the list against the flag.
AsiaDiscrepancies(f, raw) ==
    Warning("duration", raw.durationHours > 0 /\ InMinutes(raw.durationHours) # TotalMinutes(f))
    \cup Warning("direct", raw.directFlight # (Stops(f) = 0))

\* normalizeFlight
AsiaNormalize(raw) ==
    LET flights == {[provider |-> AsiaName, number |-> raw.number,
                     segments |-> <<[from |-> PlaceOf(raw.fromAirport, Blank),
                                     to |-> PlaceOf(raw.toAirport, Blank),
                                     depart |-> d, arrive |-> a]>>,
                     stopovers |-> AsiaStopovers(raw),
                     price |-> [amount |-> raw.priceIDR, currency |-> "IDR"], seats |-> raw.seats,
                     cabin |-> Lowered(raw.cabinClass), warnings |-> {}] :
                        d \in ParseOffset(raw.departTime), a \in ParseOffset(raw.arriveTime)}
        checked == {[f EXCEPT !.warnings = AsiaDiscrepancies(f, raw)] : f \in flights}
    IN  {f \in checked : Valid(f)}
=============================================================================
