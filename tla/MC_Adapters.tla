----------------------------- MODULE MC_Adapters ------------------------------
(* A small timetable for TLC.                                               *)
EXTENDS Adapters

\* Midnight in Jakarta, at the start of day 20.
Midnight == 20 * Day - 7 * Hour

\* A leg so many minutes after midnight; spare adds half a minute to both ends.
Hop(from, to, departs, minutes, spare) ==
    [from |-> from, to |-> to, depart |-> Midnight + departs * Minute + spare,
     arrive |-> Midnight + (departs + minutes) * Minute + 2 * spare]

Journey(number, legs, cabin, seats) ==
    [number |-> number, legs |-> legs, cabin |-> cabin, seats |-> seats, fare |-> 100]

\* In UTC it is still the day before.
Early == Journey(1, <<Hop("CGK", "DPS", 360, 110, 0)>>, "economy", 4)
\* The day on the clocks of its destination is not the one of its origin.
Late == Journey(2, <<Hop("CGK", "SUB", 1380, 50, 0), Hop("SUB", "DPS", 1485, 55, 0)>>, "economy", 1)
\* Leaves the day after, if only just.
NextDay == Journey(3, <<Hop("CGK", "DPS", 1440, 100, 0)>>, "economy", 4)
\* Legs of 60 and a half minutes, and nothing between them.
Rushed ==
    Journey(4, <<Hop("CGK", "SUB", 600, 60, 1),
                 [from |-> "SUB", to |-> "DPS", depart |-> Midnight + 660 * Minute + 2,
                  arrive |-> Midnight + 720 * Minute + 3]>>, "economy", 4)
\* Two stops, and seconds all over.
Long == Journey(5, <<Hop("CGK", "SUB", 480, 80, 1), Hop("SUB", "UPG", 620, 91, 1),
                     Hop("UPG", "DPS", 780, 74, 1)>>, "business", 4)

Journeys5 == {Early, Late, NextDay, Rushed, Long}

Items == [journey : Journeys5, fault : Faults]

Faultless == {[journey |-> j, fault |-> "none"] : j \in {Early, Late}}

\* One item by itself, or before or after one that is told without fault.
SmallTimetables ==
    {<<i>> : i \in Items}
    \cup {<<i, k>> : i \in Items, k \in Faultless} \cup {<<k, i>> : i \in Items, k \in Faultless}

\* Numbers tell the journeys of a timetable apart.
Timetables2 == {t \in SmallTimetables : Len(t) = 2 => t[1].journey # t[2].journey}

AllClients == <<"Garuda Indonesia", "Lion Air", "Batik Air", "AirAsia">>

Leg(cabin, passengers, date) ==
    [origin |-> "CGK", destination |-> "DPS", date |-> date, cabin |-> cabin, passengers |-> passengers]

SomeRequests == {Leg("economy", 1, 20), Leg("economy", 2, 20), Leg("business", 1, 20), Leg("economy", 1, 21)}
=============================================================================
