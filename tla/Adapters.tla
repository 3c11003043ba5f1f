------------------------------- MODULE Adapters -------------------------------
(***************************************************************************)
(* From four payloads to one list: FetchFlights of the four clients, and   *)
(* what the service accepts of it (usecase/search/search.go).  All four    *)
(* airlines sell the same journeys and tell them with the same faults,     *)
(* each in a format of its own, so that their tellings can be compared     *)
(* with the truth and with each other.                                     *)
(***************************************************************************)
EXTENDS Garuda, LionAir, BatikAir, AirAsia

CONSTANTS
    Clients,     \* the clients in the order the service was given them
    Timetables,  \* what the airlines may have to tell: lists of items
    Requests     \* one leg with cabin and party, as the service has normalized it

Names == {"Garuda Indonesia", "Lion Air", "Batik Air", "AirAsia"}

\* What an airline has to tell: journeys that can be flown, told apart by their numbers.
IsTimetable(t) ==
    /\ t \in Seq([journey : JourneyRec, fault : Faults])
    /\ \A i \in DOMAIN t : Flies(t[i].journey)
    /\ \A i, k \in DOMAIN t : t[i].journey.number = t[k].journey.number => i = k

ASSUME AdaptersAssumption ==
    /\ Clients \in Seq(Names) /\ \A i, k \in DOMAIN Clients : Clients[i] = Clients[k] => i = k
    /\ \A t \in Timetables : IsTimetable(t)
    /\ Requests \subseteq [origin : DOMAIN Registry, destination : DOMAIN Registry, date : Nat,
                           cabin : {"economy", "premium_economy", "business", "first"},
                           passengers : Nat \ {0}]

VARIABLES
    items,    \* what every airline tells
    request,  \* what the search asks for
    reply,    \* what each client's FetchFlights has returned
    answer    \* what the search makes of it

adapterVars == <<items, request, reply, answer>>

Pending == [at |-> "pending"]
Failed  == [at |-> "failed"]

AdaptersInit ==
    /\ items \in Timetables
    /\ request \in Requests
    /\ reply = [i \in DOMAIN Clients |-> Pending]
    /\ answer = Pending

-----------------------------------------------------------------------------
\* What a client makes of one record: a flight or nothing.
Normalized(client, item) ==
    CASE client = "Garuda Indonesia" -> GarudaNormalize(GarudaTold(item))
      [] client = "Lion Air"         -> LionNormalize(LionTold(item))
      [] client = "Batik Air"        -> BatikNormalize(BatikTold(item))
      [] client = "AirAsia"          -> AsiaNormalize(AsiaTold(item))

\* Mutant: the loop ends at the first record that cannot be used.
FetchedUntilBad(client) ==
    LET read  == [i \in DOMAIN items |-> SetToSeq(Normalized(client, items[i]))]
        empty == {i \in DOMAIN items : read[i] = <<>>}
    IN  FlattenSeq([i \in {k \in DOMAIN items : \A e \in empty : k < e} |-> read[i]])

\* The loop over the records: one that cannot be used is passed over.
Fetched(client) == FlattenSeq([i \in DOMAIN items |-> SetToSeq(Normalized(client, items[i]))])

\* FetchFlights: the latency is over, and the payload says it is a success.
Fetch(i) ==
    /\ reply[i] = Pending
    /\ reply' = [reply EXCEPT ![i] = [at |-> "ok", flights |-> Fetched(Clients[i])]]
    /\ UNCHANGED <<items, request, answer>>

\* The context ends during the latency, or the payload says it is a failure.
FetchFails(i) ==
    /\ reply[i] = Pending
    /\ reply' = [reply EXCEPT ![i] = Failed]
    /\ UNCHANGED <<items, request, answer>>

\* accept: what is kept of a client's flights.
Accepted(f) ==
    /\ Valid(f)
    /\ MatchesRoute(f, request.origin, request.destination)
    /\ DepartsOn(f, request.date)
    /\ request.cabin # Blank => f.cabin = request.cabin
    /\ f.seats >= request.passengers

Succeeded == {i \in DOMAIN Clients : reply[i].at = "ok"}

FlightsOf(i) == IF i \in Succeeded THEN reply[i].flights ELSE <<>>

\* aggregate and the views of its flights, slot by slot; nothing if every client failed.
Gather ==
    /\ answer = Pending
    /\ \A i \in DOMAIN Clients : reply[i] # Pending
    /\ LET sent == FlattenSeq([i \in DOMAIN Clients |-> FlightsOf(i)])
           kept == FlattenSeq([k \in DOMAIN sent |-> IF Accepted(sent[k]) THEN <<sent[k]>> ELSE <<>>])
       IN  answer' = IF Succeeded = {} THEN Failed
                     ELSE [at |-> "ok", dropped |-> Len(sent) - Len(kept),
                           flights |-> [k \in DOMAIN kept |-> FlightView(kept[k])]]
    /\ UNCHANGED <<items, request, reply>>

Done == answer # Pending /\ UNCHANGED adapterVars

AdaptersNext ==
    \/ \E i \in DOMAIN Clients : Fetch(i) \/ FetchFails(i)
    \/ Gather
    \/ Done

AdaptersSpec == AdaptersInit /\ [][AdaptersNext]_adapterVars

-----------------------------------------------------------------------------
(* Properties.  They speak of journeys as they are, never of what a client *)
(* makes of them.                                                          *)

\* What makes an item unusable in the format of a client.
Fatal(client, item) ==
    \/ item.fault \in Defects
    \/ item.fault = "nozone" /\ client = "Lion Air"
    \/ item.fault = "nocurrency" /\ client # "AirAsia"
    \/ item.fault = "overlong" /\ Connecting(item.journey)
    \/ item.fault = "broken" /\ client = "Garuda Indonesia" /\ Connecting(item.journey)

\* The figures of an item that are at odds with the journey.  Of a connection, Garuda states the
\* stops of the first leg; of a direct flight, it states a count nobody compares.
Misstated(client, item) ==
    LET j == item.journey
        timed == client = "Garuda Indonesia" /\ Connecting(j)
    IN  \/ item.fault = "duration"
        \/ item.fault = "stops" /\ client # "Garuda Indonesia"
        \/ item.fault = "layover" /\ timed
        \/ item.fault = "fare" /\ client = "Batik Air"
        \/ timed

Answered == answer # Pending /\ answer # Failed

\* The item a view is about: numbers tell the journeys of a timetable apart.
ItemOf(view) == CHOOSE item \in ToSet(items) : item.journey.number = view.number

IsAt(end, airport, at) ==
    end.airport = airport /\ end.city = City(airport) /\ end.time = [at |-> at, offset |-> OffsetAt(airport)]

\* Minutes that are so many half minutes, give or take a rounding of each of n durations.
Within(minutes, halves, n) == minutes * Minute - halves \in -n .. n

\* The durations of a record can be read.  Batik Air writes them as prose; where it cannot be read
\* it is taken for nothing.
ProseIsRead(client, item) == ~(client = "Batik Air" /\ item.fault = "prose")

\* One journey is one flight, whoever tells it and however: four layouts of time, three ways to
\* name a cabin, legs or mere stops give the same ends, instants, local times, stops and fare, and
\* the ground time is off by no more than the rounding of legs and journey (model.go, the
\* normalizeFlight of each client).
TellingsAgree ==
    Answered => \A k \in DOMAIN answer.flights :
        LET view == answer.flights[k]
            item == ItemOf(view)
            j    == item.journey
        IN  /\ IsAt(view.departure, From(j), Leaves(j))
            /\ IsAt(view.arrival, To(j), Arrives(j))
            /\ Within(view.total, Duration(j), 1)
            /\ view.stopAirports = Changes(j) /\ view.stops = Len(Changes(j))
            /\ ProseIsRead(view.provider, item) => Within(view.layover, OnGround(j), Len(j.legs) + 1)
            /\ view.price = [amount |-> j.fare, currency |-> "IDR"]
            /\ view.cabin = j.cabin /\ view.seats = j.seats

\* "One unusable record must not cost us the other results" (garuda.go): a client that is not
\* cut off returns the flights of exactly the usable records, in their order.
BadRecordCostsOnlyItself ==
    \A i \in Succeeded :
        [k \in DOMAIN reply[i].flights |-> reply[i].flights[k].number]
            = FlattenSeq([n \in DOMAIN items |->
                             IF Fatal(Clients[i], items[n]) THEN <<>> ELSE <<items[n].journey.number>>])

\* A flight is returned with a warning exactly if its record contradicts its own timestamps,
\* stops or fare; hours are no contradiction for having two decimals (airasia.go:
\* recordDiscrepancies).  Of prose that cannot be read it asks nothing: batikair.go's comment on
\* parseProseDuration speaks of a warning there, and the code gives none.
ContradictionsAreReported ==
    \A i \in Succeeded : \A k \in DOMAIN reply[i].flights :
        LET f    == reply[i].flights[k]
            item == ItemOf(f)
        IN  ProseIsRead(Clients[i], item) =>
                (f.warnings # {} <=> Misstated(Clients[i], item))

\* A journey fits if it starts where, ends where and leaves on the local day the search asks for,
\* in its cabin and with seats for its party.
Fits(j) ==
    /\ From(j) = request.origin /\ To(j) = request.destination
    /\ (Leaves(j) + OffsetAt(From(j))) \div Day = request.date
    /\ j.cabin = request.cabin /\ j.seats >= request.passengers

\* A search shows a journey of an airline exactly if that one answered, told it in a usable
\* record with tidy codes, and the journey fits; and it accounts for every flight it left out.
AnswerFitsRequest ==
    Answered =>
        LET shown(i) == {k \in DOMAIN answer.flights : answer.flights[k].provider = Clients[i]}
            wanted(i) == {item \in ToSet(items) :
                            /\ i \in Succeeded /\ ~Fatal(Clients[i], item) /\ Fits(item.journey)
                            /\ OriginCode(item) = From(item.journey)}
        IN  /\ \A i \in DOMAIN Clients :
                  {answer.flights[k].number : k \in shown(i)} = {item.journey.number : item \in wanted(i)}
            /\ Len(answer.flights) + answer.dropped
                  = Total([i \in DOMAIN Clients |-> Len(FlightsOf(i))])
=============================================================================
