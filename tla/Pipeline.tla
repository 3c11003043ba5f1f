------------------------------ MODULE Pipeline ------------------------------
(***************************************************************************)
(* filter -> dedupe -> score -> sort: what searchLeg does to an aggregate  *)
(* (internal/usecase/search: filter.go, compare.go, ranking.go, sort.go).  *)
(*                                                                         *)
(* The aggregate is in the cache, and every leg that hits it works on the  *)
(* same backing array: a slice is a reference into heap here, and each     *)
(* stage either allocates a slice or writes through the one it was given.  *)
(* Legs run concurrently; a stage of one leg is one step.                  *)
(*                                                                         *)
(* Numbers stand for text where the code only compares it (providers,      *)
(* flight numbers); clock times are minutes of the endpoint's local day.   *)
(* Scores are in tenths of a point.                                        *)
(***************************************************************************)
EXTENDS Integers, Sequences, FiniteSetsExt

CONSTANTS
    Procs,      \* legs, of any searches, that hit the same cache entry
    Offers,     \* what providers may have sent: see OfferAssumption
    MaxOffers,  \* bound: offers in one aggregate
    Requests,   \* what a request may ask for: raw filters (see Compiled) and an order
    Unset,      \* a filter that was not given
    BadClock,   \* a time of day that does not parse
    Blank,      \* an airline of nothing but spaces
    Cached      \* the cache's reference to the aggregate

\* The orders that comparator knows.
SortOptions == {"best_value", "price_asc", "price_desc", "duration_asc", "duration_desc",
                "departure_time", "arrival_time"}

ASSUME RequestAssumption == \A r \in Requests : r.sort \in SortOptions

\* Offers are validated, so that fares are positive; airline holds the carrier's code and its name.
ASSUME OfferAssumption ==
    \A f \in Offers :
        /\ f \in [number : Nat, provider : Nat, airline : {f.airline}, fare : Nat \ {0},
                  depart : Nat, minutes : Nat, stops : Nat, departClock : Nat, arriveClock : Nat,
                  alternatives : {<< >>}, score : {0}]
        /\ Blank \notin f.airline

VARIABLES
    given,    \* the aggregate's flights, as they were stored
    heap,     \* reference -> the flights behind it
    legs      \* each leg: its stage, its request, its current slice and its counts

vars == <<given, heap, legs>>

Stages == {"filtered", "deduped"}
Refs   == {Cached} \cup (Procs \X Stages)

\* The cache's slice is none of those that a leg allocates.
ASSUME CachedAssumption == Cached \notin Procs \X Stages

\* Offers are appended provider by provider, in slot order.
Aggregates == {s \in UNION {[1 .. n -> Offers] : n \in 0 .. MaxOffers} :
                  \A i, j \in DOMAIN s : i < j => s[i].provider <= s[j].provider}

Init ==
    /\ given \in Aggregates
    /\ heap = [r \in Refs |-> IF r = Cached THEN given ELSE << >>]
    /\ legs = [p \in Procs |-> [at |-> "idle"]]

-----------------------------------------------------------------------------
(* filter.go                                                               *)

Clocks(raw) == {raw.departAfter, raw.departBefore, raw.arriveAfter, raw.arriveBefore}

\* What compileFilters refuses with a 400.
Rejects(raw) ==
    \/ raw.minFare < 0 \/ raw.maxFare < 0 \/ raw.maxMinutes < 0
    \/ raw.maxFare > 0 /\ raw.minFare > raw.maxFare
    \/ raw.maxStops # Unset /\ raw.maxStops < 0
    \/ BadClock \in Clocks(raw)

\* The rest it keeps, less the blank airlines: a list that is blank throughout asks nothing.
Compiled(raw) == [raw EXCEPT !.airlines = @ \ {Blank}]

Empty(c) ==
    /\ c.minFare = 0 /\ c.maxFare = 0 /\ c.maxMinutes = 0 /\ c.airlines = {}
    /\ c.maxStops = Unset /\ Clocks(c) = {Unset}

AtLeast(x, bound) == bound = Unset \/ x >= bound
AtMost(x, bound)  == bound = Unset \/ x <= bound

Keep(c, f) ==
    /\ c.minFare > 0 => f.fare >= c.minFare
    /\ c.maxFare > 0 => f.fare <= c.maxFare
    /\ c.maxMinutes > 0 => f.minutes <= c.maxMinutes
    /\ AtMost(f.stops, c.maxStops)
    /\ AtLeast(f.departClock, c.departAfter) /\ AtMost(f.departClock, c.departBefore)
    /\ AtLeast(f.arriveClock, c.arriveAfter) /\ AtMost(f.arriveClock, c.arriveBefore)
    /\ c.airlines # {} => f.airline \cap c.airlines # {}

\* The flights of s that c lets through, in their order.
Passing(c, s) ==
    LET kept[n \in 0 .. Len(s)] ==
            IF n = 0 THEN << >>
            ELSE IF Keep(c, s[n]) THEN Append(kept[n - 1], s[n]) ELSE kept[n - 1]
    IN  kept[Len(s)]

-----------------------------------------------------------------------------
(* sort.go                                                                 *)

\* sort.SliceStable: each element goes where the number of elements before it says.
StableSorted(s, Precedes(_, _)) ==
    LET goesBefore(i, j) == Precedes(s[i], s[j]) \/ (~Precedes(s[j], s[i]) /\ i < j)
        rank(i) == 1 + Cardinality({j \in DOMAIN s : goesBefore(j, i)})
    IN  [k \in DOMAIN s |-> s[CHOOSE i \in DOMAIN s : rank(i) = k]]

\* comparator: whether a comes before b in the order asked for.
Less(option, a, b) ==
    CASE option = "best_value"     -> a.score > b.score
      [] option = "price_asc"      -> a.fare < b.fare
      [] option = "price_desc"     -> a.fare > b.fare
      [] option = "duration_asc"   -> a.minutes < b.minutes
      [] option = "duration_desc"  -> a.minutes > b.minutes
      [] option = "departure_time" -> a.depart < b.depart
      [] option = "arrival_time"   -> a.depart + a.minutes < b.depart + b.minutes

\* Fare, then departure, then the ID, which is the flight number and the provider.
TieBreak(a, b) ==
    CASE a.fare # b.fare     -> a.fare < b.fare
      [] a.depart # b.depart -> a.depart < b.depart
      [] a.number # b.number -> a.number < b.number
      [] OTHER               -> a.provider < b.provider

\* Mutant: ties stay in whatever order the slice had.
ComesFirstUntied(option, a, b) == Less(option, a, b)

ComesFirst(option, a, b) ==
    Less(option, a, b) \/ (~Less(option, b, a) /\ TieBreak(a, b))

-----------------------------------------------------------------------------
(* compare.go                                                              *)

\* Mutant: a flight number alone makes two offers one flight.
SameNumber(a, b) == a.number = b.number

SameFlight(a, b) == a.number = b.number /\ a.depart = b.depart

Alternative(f) == [provider |-> f.provider, amount |-> f.fare]

SortedAlternatives(s) ==
    LET less(a, b) == IF a.amount # b.amount THEN a.amount < b.amount ELSE a.provider < b.provider
    IN  StableSorted(s, less)

\* Mutant: a cheaper offer takes the place of the one before without mentioning it.
MergedForgetful(e, f) ==
    IF f.fare < e.fare
    THEN [f EXCEPT !.alternatives = SortedAlternatives(f.alternatives \o e.alternatives)]
    ELSE [e EXCEPT !.alternatives = SortedAlternatives(Append(@, Alternative(f)))]

\* The offer f joins the offer e of the same flight: the cheaper one is shown, on a tie the
\* earlier, and carries the other among its alternatives.
Merged(e, f) ==
    IF f.fare < e.fare
    THEN [f EXCEPT !.alternatives =
             SortedAlternatives(Append(f.alternatives \o e.alternatives, Alternative(e)))]
    ELSE [e EXCEPT !.alternatives = SortedAlternatives(Append(@, Alternative(f)))]

\* The offer f joins the flights kept so far.
Joined(kept, f) ==
    LET seen == {i \in DOMAIN kept : SameFlight(kept[i], f)}
    IN  IF seen = {} THEN Append(kept, f)
        ELSE [i \in DOMAIN kept |-> IF i \in seen THEN Merged(kept[i], f) ELSE kept[i]]

\* dedupeAcrossProviders: the offers join one after the other.
Deduped(s) ==
    LET kept[n \in 0 .. Len(s)] == IF n = 0 THEN << >> ELSE Joined(kept[n - 1], s[n])
    IN  kept[Len(s)]

-----------------------------------------------------------------------------
(* ranking.go                                                              *)

\* Weights in tenths: price, duration, stops.
Weight == <<5, 3, 2>>

Dimension(d, f) == <<f.fare, f.minutes, f.stops>>[d]

\* normalize: a dimension on which all flights agree tells nothing apart.
Spread(d, s) ==
    LET values == {Dimension(d, s[i]) : i \in DOMAIN s}
    IN  IF Max(values) = Min(values) THEN 1 ELSE Max(values) - Min(values)

Excess(d, s, i) == Dimension(d, s[i]) - Min({Dimension(d, s[j]) : j \in DOMAIN s})

\* Mutant: the penalty is reported as the score.
ScoreUpsideDown(s, i) ==
    LET all == Spread(1, s) * Spread(2, s) * Spread(3, s)
        penalty == 5 * Excess(1, s, i) * (all \div Spread(1, s))
                     + 3 * Excess(2, s, i) * (all \div Spread(2, s))
                     + 2 * Excess(3, s, i) * (all \div Spread(3, s))
    IN  (200 * penalty + all) \div (2 * all)

\* (1 - penalty) * 100, rounded to a tenth: fractions over the product of the spreads.
Score(s, i) ==
    LET all == Spread(1, s) * Spread(2, s) * Spread(3, s)
        penalty == Weight[1] * Excess(1, s, i) * (all \div Spread(1, s))
                     + Weight[2] * Excess(2, s, i) * (all \div Spread(2, s))
                     + Weight[3] * Excess(3, s, i) * (all \div Spread(3, s))
    IN  (2 * (1000 * all - 100 * penalty) + all) \div (2 * all)

-----------------------------------------------------------------------------
(* Steps.                                                                  *)

Start(p) ==
    /\ legs[p].at = "idle"
    /\ \E r \in Requests :
          legs' = [legs EXCEPT ![p] =
              IF Rejects(r.raw) THEN [at |-> "refused"]
              ELSE [at |-> "filter", filter |-> Compiled(r.raw), sort |-> r.sort, slice |-> Cached]]
    /\ UNCHANGED <<given, heap>>

Flights(p) == heap[legs[p].slice]

\* Mutant: the filter appends to flights[:0], over the head of the slice it reads.
FilterInPlace(p) ==
    LET kept == Passing(legs[p].filter, Flights(p))
        rest == SubSeq(Flights(p), Len(kept) + 1, Len(Flights(p)))
    IN  /\ legs[p].at = "filter"
        /\ heap' = [heap EXCEPT ![legs[p].slice] = kept \o rest, ![<<p, "filtered">>] = kept]
        /\ legs' = [legs EXCEPT ![p] =
              [at |-> "dedupe", filter |-> @.filter, sort |-> @.sort, slice |-> <<p, "filtered">>,
               filtered |-> Len(Flights(p)) - Len(kept)]]
        /\ UNCHANGED given

\* applyFilters: with no filter at all, the very slice that came in goes out.
Filter(p) ==
    LET kept  == Passing(legs[p].filter, Flights(p))
        slice == IF Empty(legs[p].filter) THEN legs[p].slice ELSE <<p, "filtered">>
    IN  /\ legs[p].at = "filter"
        /\ heap' = IF Empty(legs[p].filter) THEN heap ELSE [heap EXCEPT ![slice] = kept]
        /\ legs' = [legs EXCEPT ![p] =
              [at |-> "dedupe", filter |-> @.filter, sort |-> @.sort, slice |-> slice,
               filtered |-> IF Empty(@.filter) THEN 0 ELSE Len(Flights(p)) - Len(kept)]]
        /\ UNCHANGED given

\* Mutant: the offers are merged in the slice they came in.
DedupeInPlace(p) ==
    /\ legs[p].at = "dedupe"
    /\ heap' = [heap EXCEPT ![legs[p].slice] = Deduped(Flights(p))]
    /\ legs' = [legs EXCEPT ![p] =
          [at |-> "score", filter |-> @.filter, sort |-> @.sort, slice |-> @.slice,
           filtered |-> @.filtered, merged |-> Len(Flights(p)) - Len(Deduped(Flights(p)))]]
    /\ UNCHANGED given

\* dedupeAcrossProviders copies into a slice of its own, whether anything merges or not.
Dedupe(p) ==
    /\ legs[p].at = "dedupe"
    /\ heap' = [heap EXCEPT ![<<p, "deduped">>] = Deduped(Flights(p))]
    /\ legs' = [legs EXCEPT ![p] =
          [at |-> "score", filter |-> @.filter, sort |-> @.sort, slice |-> <<p, "deduped">>,
           filtered |-> @.filtered, merged |-> Len(Flights(p)) - Len(Deduped(Flights(p)))]]
    /\ UNCHANGED given

\* scoreBestValue writes every score through the slice; a single flight scores full marks.
ScoreAll(p) ==
    LET s == Flights(p)
    IN  /\ legs[p].at = "score"
        /\ heap' = [heap EXCEPT ![legs[p].slice] =
              [i \in DOMAIN s |-> [s[i] EXCEPT !.score = IF Len(s) = 1 THEN 1000 ELSE Score(s, i)]]]
        /\ legs' = [legs EXCEPT ![p].at = "sort"]
        /\ UNCHANGED given

\* sortFlights sorts the slice in place.
Sort(p) ==
    LET before(a, b) == ComesFirst(legs[p].sort, a, b)
    IN  /\ legs[p].at = "sort"
        /\ heap' = [heap EXCEPT ![legs[p].slice] = StableSorted(Flights(p), before)]
        /\ legs' = [legs EXCEPT ![p].at = "done"]
        /\ UNCHANGED given

\* Every leg has its answer.
Finished == (\A p \in Procs : legs[p].at \in {"done", "refused"}) /\ UNCHANGED vars

Next ==
    \/ \E p \in Procs : Start(p) \/ Filter(p) \/ Dedupe(p) \/ ScoreAll(p) \/ Sort(p)
    \/ Finished

Spec == Init /\ [][Next]_vars

-----------------------------------------------------------------------------
(* Properties.                                                             *)

Done(p)   == legs[p].at = "done"
Answer(p) == Flights(p)

\* No leg ever writes into the aggregate that other legs are, or will be, served from: an
\* unfiltered slice is the cached one until deduplication has copied it.
CachedAggregateUntouched == heap[Cached] = given

\* The offers of given that leg p's filter lets through.
Kept(p) == {i \in DOMAIN given : Keep(legs[p].filter, given[i])}

\* Every offer that passes the filter is in the answer exactly once, as the flight shown or as
\* an alternative of it; nothing else is; and the counts say how the offers were spent.
OffersAreConserved ==
    \A p \in Procs : Done(p) =>
        LET s == Answer(p)
            mine(i) == {k \in Kept(p) : SameFlight(given[k], s[i])}
        IN  /\ \A i \in DOMAIN s : 1 + Len(s[i].alternatives) = Cardinality(mine(i))
            /\ \A k \in Kept(p) : \E i \in DOMAIN s : k \in mine(i)
            /\ \A i, j \in DOMAIN s : i # j => mine(i) \cap mine(j) = {}
            /\ Cardinality(Kept(p)) = Len(given) - legs[p].filtered
            /\ Len(s) = Cardinality(Kept(p)) - legs[p].merged

\* The flight shown is the cheapest offer of its flight number and departure, and its
\* alternatives are the others' fares, cheapest first.
HeadlineIsCheapest ==
    \A p \in Procs : Done(p) =>
        LET s == Answer(p)
        IN  \A i \in DOMAIN s :
                LET alts   == s[i].alternatives
                    others == {k \in Kept(p) : given[k].number = s[i].number
                                                 /\ given[k].depart = s[i].depart}
                IN  /\ \A k \in others : s[i].fare <= given[k].fare
                    /\ {Alternative(given[k]) : k \in others}
                         = {Alternative(s[i])} \cup {alts[n] : n \in DOMAIN alts}
                    /\ \A n \in 2 .. Len(alts) : alts[n - 1].amount <= alts[n].amount

\* The answer's order is total: the requested order and its tie-breaks leave no two flights in
\* an order that depends on which provider, or which earlier stage, put them there.
OrderIsTotal ==
    \A p \in Procs : Done(p) =>
        LET s == Answer(p)
        IN  \A i, j \in DOMAIN s : i < j =>
                /\ ~Less(legs[p].sort, s[j], s[i])
                /\ ~Less(legs[p].sort, s[i], s[j]) => TieBreak(s[i], s[j])

\* A flight that is nowhere worse than another scores at least as much, scores stay within
\* 0 to 100, and a flight that is best in everything scores 100: the scale keeps its ends.
ScoresAreFair ==
    \A p \in Procs : Done(p) =>
        LET s == Answer(p)
            noWorse(a, b) == a.fare <= b.fare /\ a.minutes <= b.minutes /\ a.stops <= b.stops
        IN  \A i \in DOMAIN s :
                /\ s[i].score \in 0 .. 1000
                /\ \A j \in DOMAIN s : noWorse(s[i], s[j]) => s[i].score >= s[j].score
                /\ (\A j \in DOMAIN s : noWorse(s[i], s[j])) => s[i].score = 1000

\* Legs that ask the same of one aggregate get the same answer, whatever the others do between
\* their stages.
SameRequestSameAnswer ==
    \A p, q \in Procs :
        /\ Done(p) /\ Done(q)
        /\ legs[p].filter = legs[q].filter /\ legs[p].sort = legs[q].sort
        => Answer(p) = Answer(q)
=============================================================================
