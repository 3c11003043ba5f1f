------------------------------- MODULE LionAir --------------------------------
(***************************************************************************)
(* internal/repo/external_client/lionair: local times without an offset,   *)
(* each beside the zone it belongs to; stops are listed with their waits.  *)
(***************************************************************************)
EXTENDS Journeys

LionName == "Lion Air"

\* flight, with route, schedule, layovers and pricing.
LionTold(item) ==
    LET j == item.journey
    IN  [number    |-> j.number,
         from      |-> [code |-> OriginCode(item), city |-> City(From(j))],
         to        |-> [code |-> DestinationCode(item), city |-> City(To(j))],
         departure |-> DepartureStamp(item, "naive"), departureZone |-> Registry[From(j)].zone,
         arrival   |-> ArrivalStamp(item, "naive"),
         arrivalZone |-> IF item.fault = "nozone" THEN Blank ELSE Registry[To(j)].zone,
         flightTime |-> DeclaredMinutes(item),
         isDirect   |-> DeclaredStops(item) = 0,
         stopCount  |-> DeclaredStops(item),
         layovers   |-> [i \in DOMAIN Changes(j) |->
                            [airport |-> Changes(j)[i], duration |-> DeclaredWait(item, i)]],
         total      |-> Amount(item), currency |-> Currency(item),
         seatsLeft  |-> SeatsLeft(item),
         fareType   |-> IF j.cabin = "economy" THEN "ECONOMY" ELSE "BUSINESS"]

-----------------------------------------------------------------------------
LionStopovers(raw) ==
    [i \in DOMAIN raw.layovers |->
        [airport |-> PlaceOf(raw.layovers[i].airport, Blank), wait |-> raw.layovers[i].duration]]

\* recordDiscrepancies: the schedule against the flight time, the list against the count.
LionDiscrepancies(f, raw) ==
    Warning("duration", raw.flightTime > 0 /\ raw.flightTime # TotalMinutes(f))
    \cup Warning("direct", raw.isDirect # (Stops(f) = 0))
    \cup Warning("stops", raw.stopCount # 0 /\ raw.stopCount # Stops(f))

\* normalizeFlight: both times are read in the zones beside them.
LionNormalize(raw) ==
    LET flights == {[provider |-> LionName, number |-> raw.number,
                     segments |-> <<[from |-> PlaceOf(raw.from.code, raw.from.city),
                                     to |-> PlaceOf(raw.to.code, raw.to.city),
                                     depart |-> d, arrive |-> a]>>,
                     stopovers |-> LionStopovers(raw),
                     price |-> [amount |-> raw.total, currency |-> raw.currency], seats |-> raw.seatsLeft,
                     cabin |-> Lowered(raw.fareType), warnings |-> {}] :
                        d \in ParseInZone(raw.departure, raw.departureZone),
                        a \in ParseInZone(raw.arrival, raw.arrivalZone)}
        checked == {[f EXCEPT !.warnings = LionDiscrepancies(f, raw)] : f \in flights}
    IN  {f \in checked : Valid(f)}
=============================================================================
