-------------------------------- MODULE Garuda --------------------------------
(***************************************************************************)
(* internal/repo/external_client/garuda: the one provider that times every *)
(* leg.  Of a connecting journey the top of the record describes the first *)
(* leg only; the segments are the whole of it.                             *)
(***************************************************************************)
EXTENDS Journeys

GarudaName == "Garuda Indonesia"

\* segment: one leg of a connecting itinerary.
ToldSegment(item, i) ==
    LET j == item.journey
        l == j.legs[i]
        last == i = Len(j.legs)
        departs == IF item.fault = "overlong" /\ i > 1 THEN j.legs[i - 1].arrive - 1 ELSE l.depart
    IN  [from     |-> IF i = 1 THEN OriginCode(item)
                      ELSE IF item.fault = "broken" THEN From(j) ELSE l.from,
         to       |-> IF last THEN DestinationCode(item) ELSE l.to,
         depart   |-> IF i = 1 THEN DepartureStamp(item, "colon") ELSE Stamp(l.from, departs, "colon"),
         arrive   |-> IF last THEN ArrivalStamp(item, "colon") ELSE Stamp(l.to, l.arrive, "colon"),
         duration |-> Rounded(l.arrive - l.depart) + (IF item.fault = "duration" /\ last THEN 5 ELSE 0),
         layover  |-> IF i = 1 THEN 0
                      ELSE Rounded(Wait(j, i - 1)) + (IF item.fault = "layover" THEN 5 ELSE 0)]

\* flight: a direct flight has no segments, and the top of a connection is its first leg.
GarudaTold(item) ==
    LET j == item.journey
        l == Head(j.legs)
        first == ~Connecting(j)
    IN  [number    |-> j.number,
         departure |-> [airport |-> OriginCode(item), city |-> City(l.from),
                        time |-> DepartureStamp(item, "colon")],
         arrival   |-> [airport |-> IF first THEN DestinationCode(item) ELSE l.to, city |-> City(l.to),
                        time |-> IF first THEN ArrivalStamp(item, "colon") ELSE Stamp(l.to, l.arrive, "colon")],
         duration  |-> IF first THEN DeclaredMinutes(item) ELSE Rounded(l.arrive - l.depart),
         stops     |-> IF first \/ item.fault = "stops" THEN DeclaredStops(item) ELSE 0,
         segments  |-> IF first THEN <<>> ELSE [i \in DOMAIN j.legs |-> ToldSegment(item, i)],
         amount    |-> Amount(item), currency |-> Currency(item),
         seats     |-> SeatsLeft(item), fareClass |-> j.cabin]

-----------------------------------------------------------------------------
\* place: the city the top of the record gives the airport, or the resolver's.
Place(raw, code) ==
    PlaceOf(code, IF code = raw.arrival.airport THEN raw.arrival.city
                  ELSE IF code = raw.departure.airport THEN raw.departure.city ELSE Blank)

\* One segment, if both of its timestamps can be read.
Segment(raw, from, to, departs, arrives) ==
    {[from |-> Place(raw, from), to |-> Place(raw, to), depart |-> d, arrive |-> a] :
        d \in ParseOffset(departs), a \in ParseOffset(arrives)}

\* buildSegments: the segments, or else the two ends.  One bad timestamp is an error of the whole.
Segments(raw) ==
    LET read == IF raw.segments = <<>>
                THEN <<Segment(raw, raw.departure.airport, raw.arrival.airport,
                               raw.departure.time, raw.arrival.time)>>
                ELSE [i \in DOMAIN raw.segments |->
                        LET s == raw.segments[i]
                        IN  Segment(raw, s.from, s.to, s.depart, s.arrive)]
    IN  IF \E i \in DOMAIN read : read[i] = {} THEN {}
        ELSE {[i \in DOMAIN read |-> CHOOSE s \in read[i] : TRUE]}

\* recordDiscrepancies: what the record states against what its own timestamps give.
GarudaDiscrepancies(f, raw) ==
    IF raw.segments = <<>>
    THEN Warning("duration", raw.duration > 0 /\ raw.duration # TotalMinutes(f))
    ELSE Warning("stops", raw.stops # Stops(f))
         \cup UNION {LET declared == raw.segments[i].duration
                        IN  Warning("leg", declared > 0 /\ declared # SegmentMinutes(f.segments[i])) :
                        i \in DOMAIN f.segments}
         \cup UNION {LET declared == raw.segments[i].layover
                            measured == DurationMinutes(f.segments[i - 1].arrive, f.segments[i].depart)
                        IN  Warning("layover", declared # 0 /\ declared # measured) :
                        i \in DOMAIN f.segments \ {1}}

\* normalize: a flight, or nothing if the record cannot be used.
GarudaNormalize(raw) ==
    LET flights == {[provider |-> GarudaName, number |-> raw.number, segments |-> s, stopovers |-> <<>>,
                     price |-> [amount |-> raw.amount, currency |-> raw.currency], seats |-> raw.seats,
                     cabin |-> Lowered(raw.fareClass), warnings |-> {}] : s \in Segments(raw)}
        checked == {[f EXCEPT !.warnings = GarudaDiscrepancies(f, raw)] : f \in flights}
    IN  {f \in checked : Valid(f)}
=============================================================================
