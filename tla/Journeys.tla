------------------------------- MODULE Journeys -------------------------------
(***************************************************************************)
(* What the airlines know and what may be wrong with how they say it.  No  *)
(* code of the service: the other side of its clients, as the dto.go of    *)
(* each client describes the payloads.                                     *)
(*                                                                         *)
(* A journey is a list of legs, each with its airports and the instants it *)
(* departs and arrives at, the cabin, the fare and the seats left.  An     *)
(* item is a journey and the fault with which it is told.                  *)
(***************************************************************************)
EXTENDS Flight

\* Figures a provider states and nobody needs, for the record itself says otherwise.
Misstatements == {"duration", "stops", "layover", "fare"}

\* What makes a record unusable, whoever tells it ...
Defects == {"unreadable", "zero", "backwards", "unpaid", "nowhere", "oversold"}

\* ... or depends on what the provider's format has room for.
Quirks == {"nozone", "nocurrency", "overlong", "broken", "untidy", "prose"}

Faults == {"none"} \cup Misstatements \cup Defects \cup Quirks

From(j)    == Head(j.legs).from
To(j)      == Last(j.legs).to
Leaves(j)  == Head(j.legs).depart
Arrives(j) == Last(j.legs).arrive

\* The airports one changes at, and the half minutes one spends there.
Changes(j)   == [i \in 1 .. Len(j.legs) - 1 |-> j.legs[i].to]
Wait(j, i)   == j.legs[i + 1].depart - j.legs[i].arrive
OnGround(j)  == Total([i \in DOMAIN Changes(j) |-> Wait(j, i)])
Duration(j)  == Arrives(j) - Leaves(j)
Connecting(j) == Len(j.legs) > 1

\* A journey as an airline flies it: every leg takes time and leaves from where the one before it
\* ended, no earlier than that, and the whole does not end where it began.
JourneyRec ==
    [number : Nat, cabin : {"economy", "business"}, seats : Nat, fare : Nat \ {0},
     legs : Seq([from : DOMAIN Registry, to : DOMAIN Registry, depart : Nat \ {0}, arrive : Nat])]

Flies(j) ==
    /\ j \in JourneyRec /\ j.legs # <<>> /\ From(j) # To(j)
    /\ \A i \in DOMAIN j.legs : j.legs[i].from # j.legs[i].to /\ j.legs[i].depart < j.legs[i].arrive
    /\ \A i \in DOMAIN Changes(j) : j.legs[i + 1].from = j.legs[i].to /\ Wait(j, i) >= 0

-----------------------------------------------------------------------------
(* The parts of a record that a fault garbles.                             *)

OffsetAt(airport) == ZoneOffset[Registry[airport].zone] * Hour

\* An instant as the clocks of an airport show it.
Stamp(airport, at, layout) ==
    [wall |-> at + OffsetAt(airport), offset |-> OffsetAt(airport), layout |-> layout]

DepartureStamp(item, layout) ==
    CASE item.fault = "unreadable" -> Stamp(From(item.journey), Leaves(item.journey), "other")
      [] item.fault = "zero"       -> Stamp(From(item.journey), ZeroTime.at, layout)
      [] OTHER                     -> Stamp(From(item.journey), Leaves(item.journey), layout)

ArrivalStamp(item, layout) ==
    LET j == item.journey
    IN  Stamp(To(j), IF item.fault = "backwards" THEN Leaves(j) ELSE Arrives(j), layout)

OriginCode(item) ==
    IF item.fault = "untidy" /\ From(item.journey) = "CGK" THEN "cgk" ELSE From(item.journey)

DestinationCode(item) == IF item.fault = "nowhere" THEN Blank ELSE To(item.journey)

Amount(item)   == IF item.fault = "unpaid" THEN 0 ELSE item.journey.fare
Currency(item) == IF item.fault = "nocurrency" THEN Blank ELSE "IDR"
SeatsLeft(item) == IF item.fault = "oversold" THEN -1 ELSE item.journey.seats

DeclaredMinutes(item) ==
    Rounded(Duration(item.journey)) + (IF item.fault = "duration" THEN 5 ELSE 0)

DeclaredStops(item) ==
    Len(Changes(item.journey)) + (IF item.fault = "stops" THEN 1 ELSE 0)

\* The wait at the i-th change, as a summary has it.
DeclaredWait(item, i) ==
    IF item.fault = "overlong" THEN Rounded(Duration(item.journey)) ELSE Rounded(Wait(item.journey, i))
=============================================================================
