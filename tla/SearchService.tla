---------------------------- MODULE SearchService ----------------------------
(***************************************************************************)
(* The search use case: internal/usecase/search/search.go and legs.go, as  *)
(* the handler (internal/handler/search/search.go) drives it.              *)
(*                                                                         *)
(* A search runs one goroutine per leg.  A leg looks its key up in the     *)
(* shared cache (TTLCache); on a miss it asks every provider at once, each *)
(* under a deadline, waits for all of the slots, stores what the answers   *)
(* amount to, and runs the pipeline over it.  Searches overlap, share the  *)
(* cache, and can lose their client half-way.                              *)
(*                                                                         *)
(* A flight is abstracted to what decides whether and how it is counted: a *)
(* leg stands for origin, destination and date; an offer's number for      *)
(* flight number and departure instant.  Ranking and order are Pipeline's. *)
(* The clock waits for every goroutine that can go on without a provider.  *)
(***************************************************************************)
EXTENDS Integers, Sequences, FiniteSets

CONSTANTS
    Searches,         \* requests the service handles, one handler goroutine each
    Legs,             \* what a leg asks for: origin, destination and departure date
    Requests,         \* what requests may ask for, once normalized: see RequestAssumption
    MaxLegs,          \* model.MaxLegs
    Providers,        \* s.clients
    Flaky,            \* providers that may fail on their own
    Inventory,        \* the offers each provider answers with, for any request
    ProviderTimeout,  \* cfg.ProviderTimeout, in clock ticks
    OverallTimeout,   \* cfg.OverallTimeout, in clock ticks
    TTL,              \* the cache's time to live, in clock ticks
    Absent,           \* "no entry under this key"
    Horizon,          \* bound: no search starts later
    MaxTime           \* bound: the clock stops here

Offers == UNION {Inventory[p] : p \in Providers}

Goroutines == Searches \X (1 .. MaxLegs)

Least(a, b) == IF a <= b THEN a ELSE b

ASSUME ServiceAssumption ==
    /\ MaxLegs \in Nat \ {0}
    /\ IsFiniteSet(Providers) /\ IsFiniteSet(Offers)
    /\ Flaky \subseteq Providers
    /\ ProviderTimeout \in Nat \ {0} /\ OverallTimeout \in Nat \ {0}
    /\ TTL \in Nat \ {0} /\ Horizon \in Nat /\ MaxTime \in Nat

\* The fields of a request that the service reads.
ASSUME RequestAssumption ==
    \A r \in Requests :
        /\ r.legs \in Seq(Legs) /\ Len(r.legs) <= MaxLegs
        /\ r.passengers \in Nat
        /\ r.wellFormed \in BOOLEAN    \* passes the decoder, validateRequest and compileFilters
        /\ r.knownSort \in BOOLEAN     \* comparator knows the requested order
        /\ r.directOnly \in BOOLEAN    \* the caller's filters, all of them in one

VARIABLES
    now,       \* the clock
    entries,   \* the cache's map
    gets,      \* where each leg's cache lookup stands
    search,    \* each search: where it stands, its request, its status code
    gone,      \* the searches whose client has disconnected
    leg,       \* each leg: where its goroutine stands, and since when it has asked providers
    slots,     \* results[slot] of each leg's fan-out: pending, ok or err
    outcome,   \* what each finished leg reports: its legOutcome
    asked      \* history: how many fan-outs each search has run

storeVars == <<entries, gets>>
vars == <<now, entries, gets, search, gone, leg, slots, outcome, asked>>

\* Mutant: requests for different party sizes share an entry.
KeyWithoutPassengers(r, l) == [leg |-> l, cabin |-> r.cabin, passengers |-> 1]

\* cacheKey: filters and sort are left out on purpose.
Key(r, l) == [leg |-> l, cabin |-> r.cabin, passengers |-> r.passengers]

Keys == UNION {{Key(r, r.legs[i]) : i \in DOMAIN r.legs} : r \in Requests}

\* Aggregate, with the start of the fan-out it came from (history).
Aggregate == [flights : SUBSET Offers, succeeded : SUBSET Providers, dropped : Nat, began : Nat]

Store == INSTANCE TTLCache WITH Procs <- Goroutines, Values <- Aggregate, writes <- {}

Req(g) == search[g[1]].req
Leg(g) == Req(g).legs[g[2]]

\* The goroutines searchLegs starts for search s.
LegsOf(s) == {<<s, i>> : i \in DOMAIN search[s].req.legs}

Init ==
    /\ now = 0
    /\ entries = [k \in Keys |-> Absent]
    /\ gets = [g \in Goroutines |-> Store!Idle]
    /\ search = [s \in Searches |-> [at |-> "idle"]]
    /\ gone = {}
    /\ leg = [g \in Goroutines |-> [at |-> "off"]]
    /\ slots = [g \in Goroutines |-> [p \in Providers |-> "pending"]]
    /\ outcome = [g \in Goroutines |-> Absent]
    /\ asked = [s \in Searches |-> 0]

-----------------------------------------------------------------------------
(* Accepting and counting offers.                                          *)

\* accept: the offer is coherent, and answers this leg, cabin and party.
Accepts(r, l, f) ==
    /\ f.sound
    /\ f.leg = l
    /\ f.cabin = r.cabin
    /\ f.seats >= r.passengers

Received(ps) == UNION {Inventory[p] : p \in ps}

\* aggregate: the accepted offers of the providers in ps, in one set.
Gathered(r, l, ps, t) ==
    LET kept == {f \in Received(ps) : Accepts(r, l, f)}
    IN  [flights |-> kept, succeeded |-> ps,
         dropped |-> Cardinality(Received(ps) \ kept), began |-> t]

Keeps(r, f) == r.directOnly => f.direct

\* A leg that has no aggregate: every provider is counted as failed, and none is named.
FailedLeg ==
    [failed |-> TRUE, hit |-> FALSE, flights |-> {}, named |-> {}, succeeded |-> {},
     errors |-> Cardinality(Providers),
     total |-> 0, dropped |-> 0, filtered |-> 0, merged |-> 0, age |-> 0]

\* A leg whose order is unknown: its providers are named, its flights and counts are left out.
UnsortedLeg(a, hit) ==
    [FailedLeg EXCEPT !.hit = hit, !.named = Providers, !.succeeded = a.succeeded,
                      !.errors = Cardinality(Providers \ a.succeeded), !.age = now - a.began]

\* Mutant: the comparison of fares is the wrong way round.
Dearest(fs) == {f \in fs : \A e \in fs : e.number = f.number => e.fare <= f.fare}

\* The offers left when every flight keeps only its cheapest ones.
Cheapest(fs) == {f \in fs : \A e \in fs : e.number = f.number => f.fare <= e.fare}

\* Mutant: an offer that was merged away is counted as filtered as well.
SearchedLegCountingTwice(r, a, hit) ==
    LET kept    == {f \in a.flights : Keeps(r, f)}
        numbers == {f.number : f \in kept}
    IN  [UnsortedLeg(a, hit) EXCEPT
            !.failed   = FALSE,
            !.flights  = Cheapest(kept),
            !.total    = Cardinality(numbers),
            !.dropped  = a.dropped,
            !.filtered = Cardinality(a.flights) - Cardinality(numbers),
            !.merged   = Cardinality(kept) - Cardinality(numbers)]

\* searchLeg: filter, then merge the offers of one flight, then report.
SearchedLeg(r, a, hit) ==
    LET kept    == {f \in a.flights : Keeps(r, f)}
        numbers == {f.number : f \in kept}
    IN  IF ~r.knownSort
        THEN UnsortedLeg(a, hit)
        ELSE [UnsortedLeg(a, hit) EXCEPT
                !.failed   = FALSE,
                !.flights  = Cheapest(kept),
                !.total    = Cardinality(numbers),
                !.dropped  = a.dropped,
                !.filtered = Cardinality(a.flights \ kept),
                !.merged   = Cardinality(kept) - Cardinality(numbers)]

-----------------------------------------------------------------------------
(* Steps.                                                                  *)

\* The handler and Search: a request that is not well formed is refused before any leg runs.
Receive(s, r) ==
    /\ search[s].at = "idle" /\ now <= Horizon
    /\ IF r.wellFormed
       THEN /\ search' = [search EXCEPT ![s] = [at |-> "running", req |-> r, started |-> now]]
            /\ leg' = [g \in Goroutines |->
                         IF g[1] = s /\ g[2] \in DOMAIN r.legs THEN [at |-> "lookup"] ELSE leg[g]]
       ELSE /\ search' = [search EXCEPT ![s] = [at |-> "answered", req |-> r, code |-> 400]]
            /\ UNCHANGED leg
    /\ UNCHANGED <<now, storeVars, gone, slots, outcome, asked>>

\* cache.Get, in its up to three parts.
LookUp(g) ==
    /\ leg[g].at = "lookup"
    /\ \/ gets[g].at = "idle" /\ Store!GetRead(g, Key(Req(g), Leg(g)))
       \/ Store!GetCheck(g)
       \/ Store!GetReap(g)
    /\ UNCHANGED <<search, gone, leg, slots, outcome, asked>>

\* A hit: the cached aggregate goes through this request's own pipeline.
Serve(g) ==
    /\ leg[g].at = "lookup" /\ gets[g].at = "hit"
    /\ outcome' = [outcome EXCEPT ![g] = SearchedLeg(Req(g), gets[g].value, TRUE)]
    /\ leg' = [leg EXCEPT ![g] = [at |-> "done"]]
    /\ UNCHANGED <<now, storeVars, search, gone, slots, asked>>

\* A miss: every provider is called, each under its own deadline.
FanOut(g) ==
    /\ leg[g].at = "lookup" /\ gets[g].at = "miss"
    /\ leg' = [leg EXCEPT ![g] = [at |-> "fanout", began |-> now]]
    /\ asked' = [asked EXCEPT ![g[1]] = @ + 1]
    /\ UNCHANGED <<now, storeVars, search, gone, slots, outcome>>

\* Mutant: the overall budget is forgotten, and a second provider timeout is granted.
DueLate(g) == leg[g].began + 2 * ProviderTimeout

\* When the context of a leg's provider calls reaches its deadline: whichever of the
\* provider's timeout and the overall one comes first.
Due(g) == leg[g].began + Least(ProviderTimeout, OverallTimeout)

Pending(g, p) == leg[g].at = "fanout" /\ slots[g][p] = "pending"

\* Nothing in the code makes a provider answer: it may take until its deadline, or for ever.
ProviderAnswers(g, p) ==
    /\ Pending(g, p)
    /\ \E result \in IF p \in Flaky THEN {"ok", "err"} ELSE {"ok"} :
          slots' = [slots EXCEPT ![g][p] = result]
    /\ UNCHANGED <<now, storeVars, search, gone, leg, outcome, asked>>

\* Mutant: neither the deadline nor the client's going away ends a provider call by itself.
OverWithBoth(g) == Due(g) <= now /\ g[1] \in gone

\* The context of a leg's provider calls is over: its deadline, or the client has gone.
ContextOver(g) == Due(g) <= now \/ g[1] \in gone

\* The slot's context is over, and the provider's client notices: an error fills the slot.
CutOff(g, p) ==
    /\ Pending(g, p) /\ ContextOver(g)
    /\ slots' = [slots EXCEPT ![g][p] = "err"]
    /\ UNCHANGED <<now, storeVars, search, gone, leg, outcome, asked>>

Succeeded(g) == {p \in Providers : slots[g][p] = "ok"}

\* Mutant: the aggregate is stored before anyone asks whether it is an outage.
GatherStoringOutages(g) ==
    /\ leg[g].at = "fanout" /\ \A p \in Providers : slots[g][p] # "pending"
    /\ LET a == Gathered(Req(g), Leg(g), Succeeded(g), leg[g].began)
       IN  /\ Store!Put(Key(Req(g), Leg(g)), a)
           /\ outcome' = [outcome EXCEPT ![g] = IF Succeeded(g) = {} THEN FailedLeg
                                                ELSE SearchedLeg(Req(g), a, FALSE)]
    /\ leg' = [leg EXCEPT ![g] = [at |-> "done"]]
    /\ UNCHANGED <<now, gets, search, gone, slots, asked>>

\* Mutant: the caller's own filter is applied before the aggregate is stored.
GatherFiltered(g) ==
    /\ leg[g].at = "fanout" /\ \A p \in Providers : slots[g][p] # "pending"
    /\ LET a == Gathered(Req(g), Leg(g), Succeeded(g), leg[g].began)
           b == [a EXCEPT !.flights = {f \in a.flights : Keeps(Req(g), f)}]
       IN  /\ Store!Put(Key(Req(g), Leg(g)), b)
           /\ outcome' = [outcome EXCEPT ![g] = SearchedLeg(Req(g), b, FALSE)]
    /\ leg' = [leg EXCEPT ![g] = [at |-> "done"]]
    /\ UNCHANGED <<now, gets, search, gone, slots, asked>>

\* Mutant: one provider's failure is an outage.
GatherAllOrNothing(g) ==
    /\ leg[g].at = "fanout" /\ \A p \in Providers : slots[g][p] # "pending"
    /\ LET a == Gathered(Req(g), Leg(g), Succeeded(g), leg[g].began)
       IN  IF Succeeded(g) # Providers
           THEN /\ outcome' = [outcome EXCEPT ![g] = FailedLeg]
                /\ UNCHANGED entries
           ELSE /\ Store!Put(Key(Req(g), Leg(g)), a)
                /\ outcome' = [outcome EXCEPT ![g] = SearchedLeg(Req(g), a, FALSE)]
    /\ leg' = [leg EXCEPT ![g] = [at |-> "done"]]
    /\ UNCHANGED <<now, gets, search, gone, slots, asked>>

\* wg.Wait returns: a total outage is an error and leaves the cache alone; anything else is
\* stored for everyone and then searched for this caller.
Gather(g) ==
    /\ leg[g].at = "fanout" /\ \A p \in Providers : slots[g][p] # "pending"
    /\ LET a == Gathered(Req(g), Leg(g), Succeeded(g), leg[g].began)
       IN  IF Succeeded(g) = {} /\ Providers # {}
           THEN /\ outcome' = [outcome EXCEPT ![g] = FailedLeg]
                /\ UNCHANGED entries
           ELSE /\ Store!Put(Key(Req(g), Leg(g)), a)
                /\ outcome' = [outcome EXCEPT ![g] = SearchedLeg(Req(g), a, FALSE)]
    /\ leg' = [leg EXCEPT ![g] = [at |-> "done"]]
    /\ UNCHANGED <<now, gets, search, gone, slots, asked>>

\* Mutant: one leg from the cache makes the whole search a hit.
AnyHit(s) == \E g \in LegsOf(s) : outcome[g].hit

\* The summary's CacheHit: only if every leg avoided the providers.
AllHits(s) == \A g \in LegsOf(s) : outcome[g].hit

\* Mutant: one failed leg fails the search.
StatusOfWorst(s) == IF \E g \in LegsOf(s) : outcome[g].failed THEN 502 ELSE 200

\* Search's error, as the handler reports it: only a search that failed on every leg is one.
StatusOf(s) == IF \A g \in LegsOf(s) : outcome[g].failed THEN 502 ELSE 200

\* Search returns once every leg has: the legs' goroutines are joined.
Answer(s) ==
    /\ search[s].at = "running"
    /\ \A g \in LegsOf(s) : leg[g].at = "done"
    /\ search' = [search EXCEPT ![s] = [at |-> "answered", req |-> search[s].req,
                                        code |-> StatusOf(s), hit |-> AllHits(s)]]
    /\ UNCHANGED <<now, storeVars, gone, leg, slots, outcome, asked>>

\* The client closes its connection: the request's context ends, and with it every slot's.
Disconnect(s) ==
    /\ search[s].at = "running" /\ s \notin gone
    /\ gone' = gone \cup {s}
    /\ UNCHANGED <<now, storeVars, search, leg, slots, outcome, asked>>

\* What a search's goroutines do without any provider's help.
Work(s) ==
    \/ \E g \in LegsOf(s) :
          \/ LookUp(g)
          \/ Serve(g)
          \/ FanOut(g)
          \/ \E p \in Providers : CutOff(g, p)
          \/ Gather(g)
    \/ Answer(s)

Running(s) == search[s].at = "running"

\* Work(s) is enabled for a running search: some leg need not wait for a provider, or all are
\* done.
Ready(s) ==
    \/ \E g \in LegsOf(s) :
          \/ leg[g].at = "lookup"
          \/ /\ leg[g].at = "fanout"
             /\ ContextOver(g) \/ \A p \in Providers : slots[g][p] # "pending"
    \/ \A g \in LegsOf(s) : leg[g].at = "done"

Tick ==
    /\ now < MaxTime
    /\ \A s \in Searches : Running(s) => ~Ready(s)
    /\ now' = now + 1
    /\ UNCHANGED <<storeVars, search, gone, leg, slots, outcome, asked>>

\* Every search is answered and no new one may start.
Quiet ==
    /\ now = MaxTime /\ \A s \in Searches : ~Running(s)
    /\ UNCHANGED vars

Next ==
    \/ Tick
    \/ \E s \in Searches :
          \/ \E r \in Requests : Receive(s, r)
          \/ Running(s) /\ Work(s)
          \/ \E g \in Goroutines, p \in Providers : g[1] = s /\ ProviderAnswers(g, p)
          \/ Disconnect(s)
    \/ Quiet

\* Some goroutine that can go on does, and otherwise time passes.  Providers need never answer.
Fairness == WF_vars(Tick \/ \E s \in Searches : Running(s) /\ Work(s))

Spec == Init /\ [][Next]_vars /\ Fairness

-----------------------------------------------------------------------------
(* Properties.                                                             *)

SearchState ==
    [at : {"idle"}]
        \cup [at : {"running"}, req : Requests, started : Nat]
        \cup [at : {"answered"}, req : Requests, code : {400}]
        \cup [at : {"answered"}, req : Requests, code : {200, 502}, hit : BOOLEAN]

LegState == [at : {"off", "lookup", "done"}] \cup [at : {"fanout"}, began : Nat]

LegOutcome ==
    [failed : BOOLEAN, hit : BOOLEAN, flights : SUBSET Offers,
     named : SUBSET Providers, succeeded : SUBSET Providers, errors : Nat,
     total : Nat, dropped : Nat, filtered : Nat, merged : Nat, age : Nat]

\* Every variable has its type (search.go, legs.go).
TypeOK ==
    /\ now \in Nat
    /\ entries \in [Keys -> Store!Entry \cup {Absent}]
    /\ gets \in [Goroutines -> Store!GetState]
    /\ search \in [Searches -> SearchState]
    /\ gone \subseteq Searches
    /\ leg \in [Goroutines -> LegState]
    /\ slots \in [Goroutines -> [Providers -> {"pending", "ok", "err"}]]
    /\ outcome \in [Goroutines -> LegOutcome \cup {Absent}]
    /\ asked \in [Searches -> Nat]

\* Offer f is one that request r may be shown for leg l.
Answers(r, l, f) ==
    /\ f.sound /\ f.leg = l /\ f.cabin = r.cabin /\ f.seats >= r.passengers
    /\ r.directOnly => f.direct

\* Whatever other search filled the cache entry a leg is served from, with whatever filters,
\* cabin and party of its own, every flight in the leg's answer fits this caller's leg, cabin,
\* party and filters: the cache key keeps apart all that must be, and the pipeline does the rest.
AnswersMatchRequest ==
    \A g \in Goroutines :
        outcome[g] # Absent => \A f \in outcome[g].flights : Answers(Req(g), Leg(g), f)

\* An outage never outlives its cause: no entry comes from a fan-out on which every provider
\* failed, so the next caller asks again (search.go: aggregate).
OutageIsNotCached ==
    \A k \in Keys : entries[k] # Absent => entries[k].value.succeeded # {}

\* An entry holds everything its providers have for its key: no caller's filter and no caller's
\* order went into what everyone else is served from.
CacheIsUnfiltered ==
    \A k \in Keys : entries[k] # Absent =>
        entries[k].value.flights =
            {f \in Received(entries[k].value.succeeded) :
                f.sound /\ f.leg = k.leg /\ f.cabin = k.cabin /\ f.seats >= k.passengers}

\* Nothing is lost and nothing is counted twice: on every leg that succeeds, what is returned,
\* dropped, filtered out and merged add up to what its providers sent, and each provider either
\* succeeded or is counted as failed.
ResultsConserved ==
    \A g \in Goroutines :
        outcome[g] # Absent /\ ~outcome[g].failed =>
            /\ outcome[g].total + outcome[g].dropped + outcome[g].filtered + outcome[g].merged
                  = Cardinality(Received(outcome[g].succeeded))
            /\ outcome[g].errors + Cardinality(outcome[g].succeeded) = Cardinality(Providers)

\* What a search tells its caller was fetched at most the time to live and one provider
\* deadline ago: hits do not renew an entry, nor does waiting in a fan-out.
AnswersAreRecent ==
    \A g \in Goroutines :
        outcome[g] # Absent => outcome[g].age <= TTL + Least(ProviderTimeout, OverallTimeout)

\* README.md's status table: 502 exactly when every provider failed, on every leg, after
\* having been asked; one provider on one leg, or one leg from the cache, makes it a 200.  (For
\* an order that is unknown see UnknownSortIs400.)
OnlyTotalFailureIs502 ==
    \A s \in Searches :
        search[s].at = "answered" /\ search[s].code # 400 /\ search[s].req.knownSort =>
            (search[s].code = 502 <=>
                \A g \in LegsOf(s), p \in Providers : slots[g][p] = "err")

\* A search reports a cache hit exactly when it called no provider at all, however its legs
\* raced each other to the cache (search.go: "only avoided the providers if every leg did").
HitMeansNoCalls ==
    \A s \in Searches :
        search[s].at = "answered" /\ search[s].code # 400 =>
            (search[s].hit <=> asked[s] = 0)

\* Slow, hanging and failing providers never hold a search beyond its budget.
BackInBudget ==
    \A s \in Searches :
        Running(s) => now <= search[s].started + Least(ProviderTimeout, OverallTimeout)

\* When no more requests come in, every search is answered, even if no provider ever answers.
EverySearchIsAnswered ==
    (\E s \in Searches : Running(s)) ~> (\A s \in Searches : ~Running(s))

\* What a search has told its caller, in FlightSearch's terms: no cache and no goroutines.
ToldSearch ==
    [s \in Searches |->
        IF search[s].at = "answered" /\ search[s].code # 400
        THEN [at |-> "answered", req |-> search[s].req, code |-> search[s].code]
        ELSE search[s]]

ToldLeg(o) ==
    IF o.failed THEN [from |-> {}, flights |-> {}, age |-> 0]
                ELSE [from |-> o.succeeded, flights |-> o.flights, age |-> o.age]

ToldAnswer ==
    [s \in Searches |->
        IF search[s].at = "answered" /\ search[s].code # 400
        THEN [i \in DOMAIN search[s].req.legs |-> ToldLeg(outcome[<<s, i>>])]
        ELSE <<>>]

Promise == INSTANCE FlightSearch
    WITH search <- ToldSearch, answer <- ToldAnswer,
         Budget <- Least(ProviderTimeout, OverallTimeout),
         MaxAge <- TTL + Least(ProviderTimeout, OverallTimeout)

\* The service implements FlightSearch: whatever its searches share and however they race, each
\* is answered in time as if it had asked some of the providers itself, not long ago.
ImplementsFlightSearch == Promise!Spec

\* README.md's status table has 400 for an unknown sort.  The sort is only looked at when a leg
\* has its flights, where its error counts as the leg's failure: this does not hold.
UnknownSortIs400 ==
    \A s \in Searches :
        search[s].at = "answered" /\ ~search[s].req.knownSort => search[s].code = 400

\* README.md: a provider that fails "is counted in providers_failed, named in provider_status
\* with its error".  A leg on which all of them fail names none: this does not hold.
FailedProvidersAreNamed ==
    \A s \in Searches :
        search[s].at = "answered" /\ search[s].code = 200 =>
            \A g \in LegsOf(s) :
                outcome[g].errors = Cardinality(outcome[g].named \ outcome[g].succeeded)
=============================================================================
