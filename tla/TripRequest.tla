----------------------------- MODULE TripRequest -----------------------------
(***************************************************************************)
(* What a request's itinerary becomes before it is searched:               *)
(* internal/model/request.go, and the first lines of Search and            *)
(* validateRequest in internal/usecase/search/search.go.                   *)
(*                                                                         *)
(* A trip arrives in one of two forms, flat (with or without a return) or  *)
(* a list of legs, as text somebody typed.  A piece of text is abstracted  *)
(* to what it reads as and whether it is spelled tidily: "  cgk " is CGK,  *)
(* untidily, and "   " is Blank, untidily.                                 *)
(***************************************************************************)
EXTENDS Integers, Sequences, FiniteSets

CONSTANTS
    Airports,    \* codes of three letters
    OddCodes,    \* three characters that are not all letters
    BadCodes,    \* text of any other length
    LastDay,     \* dates are 1 .. LastDay
    BadDates,    \* text that is not a date
    Blank,       \* nothing but spaces, or nothing at all
    Nil,         \* no returnDate
    Parties,     \* values of passengers, as sent
    Cabins,      \* values of cabinClass, as sent; Blank if it was left out
    Economy,     \* the cabin that stands in for none
    Orders,      \* values of sort, as sent; Blank if it was left out
    BestValue,   \* the order that stands in for none
    MaxLegs,     \* model.MaxLegs
    RawLegs,     \* bound: the legs a request may list
    MaxListed    \* bound: how many legs a request may list

Codes == Airports \cup OddCodes \cup BadCodes \cup {Blank}
Dates == (1 .. LastDay) \cup BadDates \cup {Blank}

Text(S) == [reads : S, tidy : BOOLEAN]
Nothing == [reads |-> Blank, tidy |-> TRUE]

RawLeg == [origin : Text(Codes), destination : Text(Codes), date : Text(Dates)]

ASSUME TripAssumption ==
    /\ LastDay \in Nat /\ MaxLegs \in Nat \ {0} /\ MaxListed \in Nat
    /\ RawLegs \subseteq RawLeg
    /\ Parties \subseteq Int /\ Economy # Blank /\ BestValue # Blank
    /\ Blank \notin Airports \cup OddCodes \cup BadCodes \cup BadDates \cup (1 .. LastDay)
    /\ Nil \notin Text(Dates)
    /\ \A d \in BadDates : d \notin 1 .. LastDay

VARIABLES
    req,     \* the request
    stage    \* how far Search has taken it

vars == <<req, stage>>

Empty == [origin |-> Nothing, destination |-> Nothing, date |-> Nothing,
          returnDate |-> Nil, legs |-> << >>, passengers |-> 0, cabin |-> Blank, sort |-> Blank]

FlatRequests ==
    [origin : Text(Codes), destination : Text(Codes), date : Text(Dates),
     returnDate : Text(Dates) \cup {Nil}, legs : {<< >>},
     passengers : {0}, cabin : {Blank}, sort : {Blank}]

Lists(S) == UNION {[1 .. n -> S] : n \in 0 .. MaxListed}

ListRequests  ==
    {[Empty EXCEPT !.legs = ls, !.passengers = n, !.cabin = c, !.sort = o] :
        ls \in Lists(RawLegs), n \in Parties, c \in Cabins, o \in Orders}
MixedRequests == {[Empty EXCEPT !.legs = <<l>>, !.returnDate = d] :
                     l \in RawLegs, d \in Text(Dates) \cup {Nil}}

Init ==
    /\ req \in FlatRequests \cup ListRequests \cup MixedRequests
    /\ stage = "received"

-----------------------------------------------------------------------------
(* model/request.go                                                        *)

\* strings.TrimSpace, and ToUpper for the codes.
Tidied(t) == [t EXCEPT !.tidy = TRUE]

IsBlank(t) == t.reads = Blank

HasFlatForm(r) ==
    \/ \E t \in {r.origin, r.destination, r.date} : ~IsBlank(t)
    \/ r.returnDate # Nil /\ ~IsBlank(r.returnDate)

HasBothForms(r) == r.legs # << >> /\ HasFlatForm(r)

\* Mutant: the second leg flies the first one again.
LegsFromFlatFormOneDirection(r) ==
    LET there == [origin |-> r.origin, destination |-> r.destination, date |-> r.date]
    IN  IF r.returnDate = Nil \/ IsBlank(r.returnDate) THEN <<there>>
        ELSE <<there, [there EXCEPT !.date = Tidied(r.returnDate)]>>

\* A returnDate makes a second leg, back the way the first came.
LegsFromFlatForm(r) ==
    LET there == [origin |-> r.origin, destination |-> r.destination, date |-> r.date]
        back  == [origin |-> r.destination, destination |-> r.origin, date |-> Tidied(r.returnDate)]
    IN  IF r.returnDate = Nil \/ IsBlank(r.returnDate) THEN <<there>> ELSE <<there, back>>

TidiedLeg(l) == [origin |-> Tidied(l.origin), destination |-> Tidied(l.destination),
                 date |-> Tidied(l.date)]

\* What stands in for the fields a request left out, and for a party of nobody.
WithDefaults(r) ==
    [r EXCEPT !.passengers = IF @ <= 0 THEN 1 ELSE @,
              !.cabin = IF @ = Blank THEN Economy ELSE @,
              !.sort = IF @ = Blank THEN BestValue ELSE @]

\* Normalize: either form becomes tidy legs, and the flat fields repeat the first of them.
Normalized(r) ==
    LET given == IF r.legs = << >> /\ HasFlatForm(r) THEN LegsFromFlatForm(r) ELSE r.legs
        legs  == [i \in DOMAIN given |-> TidiedLeg(given[i])]
    IN  IF legs = << >> THEN r
        ELSE [r EXCEPT !.legs = legs, !.origin = legs[1].origin,
                       !.destination = legs[1].destination, !.date = legs[1].date]

TripType(legs) ==
    CASE Len(legs) <= 1 -> "one_way"
      [] /\ Len(legs) = 2
         /\ legs[2].origin = legs[1].destination
         /\ legs[2].destination = legs[1].origin -> "round_trip"
      [] OTHER -> "multi_city"

-----------------------------------------------------------------------------
(* usecase/search/search.go                                                *)

\* len(code) = 3: the length is all that is checked.
HasThree(t) == t.tidy /\ t.reads \in Airports \cup OddCodes

IsDate(t) == t.tidy /\ t.reads \in 1 .. LastDay

\* Mutant: a leg's date is compared with the first leg's, not with the one before it.
DatesFollowTheFirst(legs) == \A i \in 2 .. Len(legs) : legs[1].date.reads <= legs[i].date.reads

DatesFollow(legs) == \A i \in 2 .. Len(legs) : legs[i - 1].date.reads <= legs[i].date.reads

\* validateRequest, on a normalized request.
Valid(legs) ==
    /\ Len(legs) \in 1 .. MaxLegs
    /\ \A i \in DOMAIN legs :
          /\ HasThree(legs[i].origin) /\ HasThree(legs[i].destination)
          /\ legs[i].origin # legs[i].destination
          /\ IsDate(legs[i].date)
    /\ DatesFollow(legs)

RefuseBothForms ==
    /\ stage = "received" /\ HasBothForms(req)
    /\ stage' = "refused"
    /\ UNCHANGED req

Normalize ==
    /\ stage = "received" /\ ~HasBothForms(req)
    /\ req' = Normalized(WithDefaults(req))
    /\ stage' = "normalized"

Validate ==
    /\ stage = "normalized"
    /\ stage' = IF Valid(req.legs) THEN "searched" ELSE "refused"
    /\ UNCHANGED req

\* The itinerary has been taken or refused; the rest is SearchService's.
Decided == stage \in {"searched", "refused"} /\ UNCHANGED vars

Next == RefuseBothForms \/ Normalize \/ Validate \/ Decided

Spec == Init /\ [][Next]_vars

-----------------------------------------------------------------------------
(* Properties.                                                             *)

\* What the service searches for is a trip one can fly: one to MaxLegs legs, each between two
\* different places spelled as the cache key and the providers' airports are, on real dates, and
\* no leg before any earlier one, for at least one passenger in some cabin, however the request
\* was spelled, whichever form it came in and whatever it left out.  The trip type that is echoed
\* back says there and back exactly for such a trip, and always for a request with a return date.
SearchedTripsAreSound ==
    stage = "searched" =>
        /\ Len(req.legs) \in 1 .. MaxLegs
        /\ req.passengers >= 1 /\ req.cabin # Blank /\ req.sort # Blank
        /\ \A i \in DOMAIN req.legs :
              /\ req.legs[i].origin.tidy /\ req.legs[i].destination.tidy /\ req.legs[i].date.tidy
              /\ req.legs[i].origin.reads # req.legs[i].destination.reads
              /\ req.legs[i].date.reads \in 1 .. LastDay
        /\ \A i, j \in DOMAIN req.legs :
              i < j => req.legs[i].date.reads <= req.legs[j].date.reads
        /\ req.returnDate # Nil /\ ~IsBlank(req.returnDate) => TripType(req.legs) = "round_trip"
        /\ TripType(req.legs) = "round_trip" =>
              /\ Len(req.legs) = 2
              /\ req.legs[2].origin = req.legs[1].destination
              /\ req.legs[2].destination = req.legs[1].origin

\* The same trip written out as legs.
Rewritten(r) ==
    [Empty EXCEPT !.legs =
        LET there == [origin |-> r.origin, destination |-> r.destination, date |-> r.date]
        IN  IF r.returnDate = Nil \/ IsBlank(r.returnDate) THEN <<there>>
            ELSE <<there, [origin |-> r.destination, destination |-> r.origin,
                           date |-> r.returnDate]>>]

\* The two forms are one: a flat request becomes exactly the legs that the same trip, spelled
\* as a list of legs, becomes, so it is searched for and refused alike.
FormsAgree ==
    [][stage = "received" /\ req.legs = << >> /\ HasFlatForm(req)
         => req'.legs = Normalized(Rewritten(req)).legs]_vars
=============================================================================
