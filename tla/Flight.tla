-------------------------------- MODULE Flight --------------------------------
(***************************************************************************)
(* What every component says about a flight: internal/model/model.go,      *)
(* validate.go and response.go, with the parts of util/timeutil and        *)
(* util/airport they rest on.  Operators only; Adapters puts them to work. *)
(*                                                                         *)
(* Time is counted in half minutes, so that rounding to whole minutes does *)
(* something.  A time.Time is its instant and the offset it is shown in.   *)
(* A timestamp in a payload is what it reads on the wall, the offset or    *)
(* the zone it names, and the layout it is written in.  A parser returns   *)
(* the set of what it read: empty for an error, else a singleton.          *)
(***************************************************************************)
EXTENDS Integers, Sequences, FiniteSets, SequencesExt

Minute == 2
Hour   == 60 * Minute
Day    == 24 * Hour

Blank == ""

\* The time zones of Indonesia, as hours from UTC.  None of them changes its clocks.
ZoneOffset == [WIB |-> 7, WITA |-> 8, WIT |-> 9]

\* The part of airport.registry the model flies to, with each city and zone.
Registry ==
    [CGK |-> [city |-> "Jakarta",  zone |-> "WIB"],
     SUB |-> [city |-> "Surabaya", zone |-> "WIB"],
     UPG |-> [city |-> "Makassar", zone |-> "WITA"],
     DPS |-> [city |-> "Denpasar", zone |-> "WITA"]]

\* Strings that a payload spells otherwise than the service does, and what they stand for.
Upper == [cgk |-> "CGK"]
Lower == [ECONOMY |-> "economy", Economy |-> "economy", BUSINESS |-> "business",
          Business |-> "business"]

Uppered(s) == IF s \in DOMAIN Upper THEN Upper[s] ELSE s
Lowered(s) == IF s \in DOMAIN Lower THEN Lower[s] ELSE s

\* airport.City: codes are looked up in upper case.  Blank if the airport is not known.
City(code) == IF Uppered(code) \in DOMAIN Registry THEN Registry[Uppered(code)].city ELSE Blank

\* A Place as a client makes it: the code as the payload has it, the city it was given if any.
PlaceOf(code, given) == [airport |-> code, city |-> IF given # Blank THEN given ELSE City(code)]

-----------------------------------------------------------------------------
(* timeutil                                                                *)

\* time.Time{}, the instant IsZero asks about.
ZeroTime == [at |-> 0, offset |-> 0]

Read(stamp, offset) == [at |-> stamp.wall - offset, offset |-> offset]

\* RFC3339 wants a colon in the offset, the compact layout wants none, the naive one no offset.
ParseOffset(stamp)        == {Read(stamp, o) : o \in IF stamp.layout = "colon" THEN {stamp.offset} ELSE {}}
ParseCompactOffset(stamp) == {Read(stamp, o) : o \in IF stamp.layout = "compact" THEN {stamp.offset} ELSE {}}

\* Mutant: a naive timestamp is read as UTC.
ParseInNoZone(stamp, zone) == {Read(stamp, 0) : l \in {stamp.layout} \cap {"naive"}}

\* A zone that is blank or unknown is an error, before the timestamp is looked at.
ParseInZone(stamp, zone) ==
    {Read(stamp, ZoneOffset[z] * Hour) :
        z \in IF stamp.layout = "naive" THEN {zone} \cap DOMAIN ZoneOffset ELSE {}}

\* The calendar day an instant falls on in UTC (a mutant: the passenger reads another one).
UTCDate(t) == t.at \div Day

\* LocalDate: the calendar day on the clocks of the place.
LocalDate(t) == (t.at + t.offset) \div Day

\* DurationMinutes: Round(time.Minute), with halves away from zero.
Rounded(d) == IF d >= 0 THEN (d + 1) \div Minute ELSE -((1 - d) \div Minute)

DurationMinutes(from, to) == Rounded(to.at - from.at)

-----------------------------------------------------------------------------
(* model.Flight, once it has segments                                      *)

Total(ns) ==
    LET sum[i \in 0 .. Len(ns)] == IF i = 0 THEN 0 ELSE sum[i - 1] + ns[i]
    IN  sum[Len(ns)]

SegmentMinutes(s) == DurationMinutes(s.depart, s.arrive)

Origin(f)      == Head(f.segments).from
Destination(f) == Last(f.segments).to
DepartAt(f)    == Head(f.segments).depart
ArriveAt(f)    == Last(f.segments).arrive

HasTimedLegs(f) == Len(f.segments) > 1

\* Stops: legs between which one changes, or else the stops a provider only lists.
Stops(f) == IF HasTimedLegs(f) THEN Len(f.segments) - 1 ELSE Len(f.stopovers)

TotalMinutes(f) == DurationMinutes(DepartAt(f), ArriveAt(f))

LegMinutes(f) == Total([i \in DOMAIN f.segments |-> SegmentMinutes(f.segments[i])])

\* LayoverMinutes: what the legs leave of the journey, or the waits that are listed.
LayoverMinutes(f) ==
    IF HasTimedLegs(f)
    THEN TotalMinutes(f) - LegMinutes(f)
    ELSE Total([i \in DOMAIN f.stopovers |-> f.stopovers[i].wait])

\* Warn: the flight is kept, and what is odd about it is told with it.
Warning(kind, odd) == IF odd THEN {kind} ELSE {}

StopAirports(f) ==
    IF HasTimedLegs(f)
    THEN [i \in 1 .. Len(f.segments) - 1 |-> f.segments[i].to.airport]
    ELSE [i \in DOMAIN f.stopovers |-> f.stopovers[i].airport.airport]

MatchesRoute(f, origin, destination) ==
    Origin(f).airport = origin /\ Destination(f).airport = destination

DepartsOn(f, date) == f.segments # <<>> /\ LocalDate(DepartAt(f)) = date

-----------------------------------------------------------------------------
(* Validate                                                                *)

SegmentIsCoherent(s) ==
    /\ s.from.airport # Blank /\ s.to.airport # Blank
    /\ s.from.airport # s.to.airport
    /\ s.depart.at # ZeroTime.at /\ s.arrive.at # ZeroTime.at
    /\ s.arrive.at > s.depart.at

\* A leg starts where the one before it ended, and not before that one did.
Connects(prev, s) == s.depart.at >= prev.arrive.at /\ s.from.airport = prev.to.airport

FareIsUsable(f) == f.price.amount > 0 /\ f.price.currency # Blank /\ f.seats >= 0

StopsAreCoherent(f) ==
    /\ ~HasTimedLegs(f) => LayoverMinutes(f) < TotalMinutes(f)
    /\ \A i \in DOMAIN f.stopovers :
          f.stopovers[i].airport.airport # Blank /\ f.stopovers[i].wait >= 0

\* Validate returns no error.
Valid(f) ==
    /\ f.segments # <<>>
    /\ \A i \in DOMAIN f.segments :
          /\ SegmentIsCoherent(f.segments[i])
          /\ i > 1 => Connects(f.segments[i - 1], f.segments[i])
    /\ FareIsUsable(f) /\ StopsAreCoherent(f)

-----------------------------------------------------------------------------
(* NewFlightView                                                           *)

\* newEndpointView: the place, and the instant with the wall clock of that place.
EndpointView(place, t) == [airport |-> place.airport, city |-> place.city, time |-> t]

\* What a caller is told.  Stops and the time spent at them are left out of a direct flight.
FlightView(f) ==
    [provider     |-> f.provider,     number    |-> f.number,
     departure    |-> EndpointView(Origin(f), DepartAt(f)),
     arrival      |-> EndpointView(Destination(f), ArriveAt(f)),
     total        |-> TotalMinutes(f), stops    |-> Stops(f),
     price        |-> f.price,         seats    |-> f.seats,
     cabin        |-> f.cabin,         warnings |-> f.warnings,
     stopAirports |-> IF Stops(f) > 0 THEN StopAirports(f) ELSE <<>>,
     layover      |-> IF Stops(f) > 0 THEN LayoverMinutes(f) ELSE 0]
=============================================================================
