# A TLA+ model of fareway

fareway is a Go service that searches four airlines at once. This directory holds TLA+ modules
translated from its source (paths below are relative to the repository), the TLC configurations
that check them on small instances, and TLAPS proofs of what must hold for every instance.
`PROJECT.json` lists runs, theorems, hazards, findings, and for every definition the lines of code
it stands for.

## 1. The system

| Component | State | Operations | Interacts with |
| --- | --- | --- | --- |
| HTTP handler (`internal/handler/search`) | none of its own; the request's context | `Search`, `Health` | calls the search service; its context ends when the client leaves |
| Search service (`internal/usecase/search/search.go`, `legs.go`) | per search: legs, slots of each fan-out, outcomes | `Search`, `searchLegs`, `searchLeg`, `aggregate`, `fanOut`, `accept` | one goroutine per leg, one per provider and leg; shares the cache with every other search |
| Trip request (`internal/model/request.go`) | the request | `HasBothForms`, `Normalize`, `TripType`; `validateRequest` in the service | first lines of `Search` |
| TTL cache (`internal/util/cache`) | a map of entries with deadlines, a lock | `Get`, `Set`, `Purge`, `Len` | called by every leg |
| Result pipeline (`filter.go`, `compare.go`, `ranking.go`, `sort.go`) | slices, some of them shared with the cache | `compileFilters`, `applyFilters`, `dedupeAcrossProviders`, `scoreBestValue`, `sortFlights` | run by each leg over a fetched or cached aggregate |
| Throttle decorator (`throttle.go`) | none | `FetchFlights` | waits for a limiter, then calls a client |
| Token bucket (`internal/util/ratelimit`) | level, time of last refill, a lock | `Allow`, `Wait`, `Tokens` | one per provider, shared by all searches |
| Retry loop (`internal/util/retry`) | attempt, delay | `Do` | wraps AirAsia's `fetchOnce` |
| Provider clients (`internal/repo/external_client`) | each a random source under a lock | `FetchFlights` | called by the service through the throttle |
| Flight model (`internal/model`) | none | totals, stops, `Validate`, views | used everywhere |
| Utilities (`timeutil`, `airport`, `currency`, `normalize`) | tables | parsing, formatting | used by clients and pipeline |
| Server (`cmd`) | listener, signal context | `main`, wiring | starts and shuts down the handler |

What is hard here: goroutines of different searches interleave in the cache, in each limiter and
over the slices a cache entry shares; `Get` and `Wait` are not one critical section each; three
deadlines are nested (overall, per provider, backoff or limiter timer) and can fire with an
answer; providers fail alone or together, and a leg may fail while its siblings succeed; a client
may leave at any time. Nothing is persisted and nothing is sent twice over a network, so there is
no recovery and no lost or duplicated message to model.

What makes each component correct, in short:

- cache: no hit older than the time to live; the lazy delete never removes a refreshed entry;
- limiter: the quota in every window; dead contexts get nothing; every wait ends with its context;
- retry: exactly the configured attempts, no more once the context is over, back by the deadline;
- throttled provider: no fetch without a token, one deadline for the queue and the fetch;
- service: answers fit their caller whoever filled the cache, outages are not cached, counts add
  up, 502 and `cache_hit` mean what they say, a search is back within its budget and is answered;
- request: the two request forms mean the same, mixed forms are refused, only flyable trips go on;
- clients: every airline's telling of a journey comes out the same and true, an unusable record
  costs only itself, and what a record says against itself is reported;
- server: a shutdown cuts off nobody who reads the answer, and always ends;
- pipeline: offers are conserved, the cheapest fare is shown, order is total, scores are monotone,
  and no leg writes into what another is served from.

## 2. The modules

```
FlightSearch  <== implemented by ==  SearchService *    TripRequest *  (before it)
                                        |               Pipeline *     (inside each leg)
TTLCache * ----------------- INSTANCE --+

TokenBucket * --------------+
                            +-- INSTANCE -- ThrottledProvider *  (one of SearchService's slots)
RetriedFetch * -------------+

Flight <- Journeys <-+- Garuda   --+
                     +- LionAir    +-- EXTENDS -- Adapters *    (what fills the slots)
                     +- BatikAir   |
                     +- AirAsia  --+

Lifecycle *                                                     (around all of it)
```

`MC_X` instantiates `X` for TLC; where a module has a star, `X_proofs`
proves theorems about it (`Clients_proofs` about both `RetriedFetch` and `Adapters`: the loop around a
fetch and what the fetch makes of its payload). Operators named in a comment as a *Mutant* are
wrong versions of the definition that follows them; no specification uses them. They show that the
properties notice the bug they describe (`PROJECT.json`, "mutants").

**TTLCache.** `entries` is `c.entries`, `gets` the local state of each goroutine's `Get`. A critical
section is a step: `GetRead` (under the read lock), `GetCheck` (no lock; reads the clock),
`GetReap` (under the write lock, looks again before deleting). `writes` is a history variable. An
entry counts at its very deadline, as `now.After(expiresAt)` has it. `Len` only reads.

**TokenBucket.** Tokens are counted in `Unit` credits so that the code's fractions are whole
numbers; `Refilled` is `refillLocked`. `Wait` is the loop of the code: `Look` at the context,
`Reserve` under the lock, sleep, `TimerFires` or `ContextInterrupts`; between any two of them
others act. `TimeToToken` truncates as `time.Duration(...)` does. `spent` and `before` are history.

**RetriedFetch.** `loop[c]` holds the local variables of `Do` and `policy[c]` the `cfg` it runs
with, once `Do` has made it `Usable`. `Look` is the look at the context at the top of the loop and
`Attempt` the call of the operation, a step of its own: between the two (`at = "call"`) nothing
watches the context, so a caller may leave there and the attempt is still made. Everywhere else
(`Watching`) a context that is over can end the call. The operation takes one of `Latencies` and then
succeeds or fails; a context that is over may cut it short. Timers fire when the clock has reached
them, and the clock moves only when no goroutine can go on (`Prompt`): computation takes no time,
sleeping does.
That a goroutine can go on is written out as `Ready`, here and in `TokenBucket` and `SearchService`,
so that it can be reasoned about without `ENABLED`. Where a timer and a deadline are ready together,
either is taken, as `select` does.

**ThrottledProvider.** `TokenBucket` and `RetriedFetch` instantiated over one clock: a call queues in
`Wait` and then (`Delegate`) enters the retry loop with the same context. `made` counts fetches.

**SearchService.** `search`, `leg`, `slots` and `outcome` are the goroutines of `Search`, `searchLeg`
and `fanOut` and what they report; `TTLCache` is instantiated as the shared store with the legs as
its goroutines. `Receive` stands for decoder, validation and filter compilation;
`ProviderAnswers` is the environment; `CutOff` a client that notices its context; `Gather` is
`aggregate` after `wg.Wait` with the pipeline that follows it, which shares no state (Pipeline
shows why). Flights are records of what decides if they are counted: a leg for
route and date, cabin, seats, a number for flight and departure, fare, directness, soundness.

**TripRequest.** A piece of text is what it reads as and whether it is spelled tidily, which is all
that `TrimSpace`, `ToUpper` and the comparisons see. Steps are the first lines of `Search`:
`RefuseBothForms`, `Normalize`, `Validate`.

**Pipeline.** A slice is a reference into `heap`. With no filter, `applyFilters` returns the cached
slice itself; `dedupeAcrossProviders` copies; scoring and sorting write in place. Each stage of a
leg is a step, so that stages of legs on one aggregate interleave. Scores are exact fractions in
tenths; the float64 rounding of the code is not modelled.

**FlightSearch.** What the use case promises a caller, with no cache, no fan-out and no other search:
a well-formed request is answered within its budget, each leg either fails or names providers and
shows exactly what these have for it, not longer ago than the time to live and one provider
deadline, and the code is 502 only if every leg failed. `SearchService` implements it
(`ImplementsFlightSearch`) under a refinement mapping that hides cache, slots and lookups
(`ToldSearch`, `ToldAnswer`): every step of a goroutine is a stutter, except `Receive`, `Answer` and
the clock.

**Flight.** Operators for `model.go`, `validate.go`, the computed fields of `response.go`, and what of
`timeutil` and `airport` they rest on. Time is counted in half minutes, so that rounding to
minutes does something. A timestamp is what it reads on the wall, the offset it may name and the
layout it is in; a parser that fails returns the empty set. A `time.Time` is an instant and the
offset it is shown in. The registry has four airports in two zones, none with daylight saving.

**Journeys.** The airlines, outside of the repository: a journey with its true instants, and an item,
which is a journey with at most one fault in its telling. *Misstatements* are figures that contradict
the record's own timestamps, stops or fare; *defects* make a record unusable; *quirks* depend on the
format.

**Garuda, LionAir, BatikAir, AirAsia.** A client each: `Told` is the payload record that `dto.go`
describes, `Normalize` the client's `normalize` or `normalizeFlight`, with its `Discrepancies` and
`Validate`, and its result is a flight or nothing. Strings with more than one spelling (codes,
cabins) are mapped by what trimming and case do to them.

**Adapters.** `Fetch(i)` and `FetchFails(i)` are `FetchFlights` of the i-th client, in any order;
`Gather` is
`aggregate`, `accept` and `NewFlightView`. All airlines tell the same items, so that the
properties can compare what comes out with the journeys and not with what a client made of them.

**Lifecycle.** `listener`, `serverErr`, `signalled` and `main` are `main`'s goroutines, channel and
context; `request` is what net/http and the handler do with each connection. net/http is external:
`ReadTimeout` counts from the connection and covers headers and body, `WriteTimeout` counts from
the headers, `Shutdown` closes the listener and then looks at intervals for idle connections.
A deadline is enforced when it comes (`Overdue` holds the clock), and clients are as slow as they
like before it. How long a search may take is taken from `BackInBudget`.

## 3. What the runs check

| Run | Shows | Bounds and why they suffice |
| --- | --- | --- |
| `cache` | `HitIsFresh`, `ReapSparesFreshEntries` | two goroutines, two keys, TTL 1, clock to 3: an entry can be read, expire, be replaced, expire again while a `Get` is between parts |
| `bucket` | `QuotaHolds`, `DeadContextIsDenied`, `DeadlineEndsWait`, `LoneWaitEnds` | two goroutines, a burst of two, 2/3 token per tick, five ticks: the bucket empties, refills past full, a waiter is overtaken, and a truncated delay wakes one early |
| `retry` | `PolicyFitsBudget`, `GivesUpAfterAllAttempts`, `NoRetryOnceOver` | one call (calls share nothing) under any of four policies: the default one in ticks of 50 ms (base 1, cap 4, latencies 1 to 3, budget 16), one of zeroes, one whose cap is below its base, one with more attempts than its budget of 5 allows |
| `provider` | `FetchesArePaidFor`, `BackByDeadline` | two callers, one token, two attempts, half a token per tick: one queues while the other retries |
| `search` | `AnswersMatchRequest`, `OutageIsNotCached`, `CacheIsUnfiltered`, `ResultsConserved`, `AnswersAreRecent`, `BackInBudget`, `OnlyTotalFailureIs502`, `ImplementsFlightSearch` | two overlapping searches that differ in party or filter, two providers (one flaky, either may hang), TTL 1, clock to 4: entries are shared, expire and are refilled |
| `search_trips` | `OnlyTotalFailureIs502`, `HitMeansNoCalls`, `EverySearchIsAnswered` | two searches, each a one-way, a round trip or a leg asked for twice: up to four legs race to two keys; one provider that may fail, hang or be cut off (two that differ are in `search`) |
| `trip` | `SearchedTripsAreSound`, `FormsAgree` | all flat requests over three airports, a code of three other characters, a longer one, three days, a bad date and blank, tidy and untidy; all lists of up to four of seven legs, with `MaxLegs` 3, with and without party, cabin and order |
| `pipeline` | `OffersAreConserved`, `HeadlineIsCheapest`, `OrderIsTotal`, `ScoresAreFair`, `CachedAggregateUntouched`, `SameRequestSameAnswer` | two legs in all interleavings of their stages, over every aggregate of up to three of six offers (three of one flight, so that merging is chained), every kind of filter in one order and all seven orders unfiltered |
| `adapters` | `TellingsAgree`, `BadRecordCostsOnlyItself`, `ContradictionsAreReported`, `AnswerFitsRequest` | five journeys (after midnight by local clocks only, over two days, the day after, no ground time at all with half minutes, two stops), each with any of 16 faults, alone or beside a faultless one, four clients that answer or fail, four requests |
| `lifecycle` | `ShutdownIsGraceful`, `ServerStops` | two clients and the constants of `app.go` in seconds (5, 10, 10), a search of two; signal, failures and connections in the first two seconds: every order of reading, searching, writing and shutting down |

Runs also check the `TypeOK` of their module, where they are the first to use it and it is worth a
check.

`MaxTime`, `Horizon`, `MaxOffers` and `MaxListed` bound the models, not the code. Goroutines,
searches and legs of a run are interchangeable where a configuration uses symmetry; temporal
properties with fairness are checked without it.

**Runs that end in a violation** show where a document and the code disagree:

| Run | The document | The code |
| --- | --- | --- |
| `search_sort` | README.md:250, unknown sort is 400 | 502, after asking all providers (`legs.go:85`, `search.go:97`) |
| `search_named` | README.md:391-392, a failing provider is named in `provider_status` | a leg on which all fail names none (`legs.go:46`) |

`OnlyTotalFailureIs502`, and the theorem about it, speak of searches whose order is known:
`search_sort` is the other case.

Other differences, of which no run is made:

- README.md:250 lists "round-trip requested" under 400; round trips are served (`request.go:103`),
  and `search_trips` and `trip` are about them.
- The message at `search.go:256` asks for a "3-letter IATA code"; only the length is checked
  (`search.go:255`), and `OddCodes` in `TripRequest` are codes that pass.
- README.md:487-488 has the limiter "exactly where the outbound HTTP call would be"; retries happen
  below it (`airasia.go:101`), so a window can see more fetches than the quota. What does hold is
  `FetchesArePaidFor`.
- README.md:484-485 says that the quota "is not spent on a request nobody is waiting for any more" if
  the context ends a wait. For such waits it is so (`DeadContextIsDenied`, `BackByDeadline`); a
  context that ends between `Wait`'s look at it and its reservation (`ratelimit.go:82`) does spend
  a token.
- batikair.go:231-232 says that a duration that cannot be read "costs a warning rather than a wrong
  answer". Whether that means that it gets a warning or that it forgoes one, a wait told so is shown
  as zero and without a warning (`batikair.go:192`). `TellingsAgree` and `ContradictionsAreReported`
  ask nothing of such durations (`ProseIsRead`; the fault `prose` in `Journeys`), so neither sides
  with the code.
- `airport.go:70-71` matches codes "case-insensitively and trimmed, since provider payloads are not
  guaranteed to be tidy"; an untidy code gets its city and then never matches a route
  (`model.go:176`), so that the flight is counted as dropped: the fault `untidy`.
- Garuda's stop count is compared on connections only, where the record's top level describes the
  first leg (`garuda.go:233`): a connection whose top says so is always warned about, a direct
  flight never (`Misstated` in `Adapters` says exactly when).

**Fairness.** `TokenBucket` assumes that time passes and that a goroutine that can go on does (weak
fairness of `Proceed`), which is the Go scheduler's and the runtime timers' promise; nobody is
obliged to call, and no order among waiters is assumed. `SearchService` assumes that
some goroutine of the service that can go on does, and that time passes otherwise; this includes
that a client notices that its context is over (every client selects on `ctx.Done()`), and nothing
of the providers' answers. `EverySearchIsAnswered` speaks of the time after the last request, which
the bounds make come: then no search is left without its answer. `Lifecycle` assumes that `main`
goes on when its select or `Shutdown` can, that time passes, and that net/http enforces a deadline
that has come; its clients owe nothing. The other modules check safety and need none.

## 4. What is proved

| Module | Theorem | Statement |
| --- | --- | --- |
| `TTLCache_proofs` | `TypeCorrect` | `Spec => []TypeOK` |
| | `HitsAreFresh` | `Spec => []HitIsFresh` |
| | `ReapsAreSafe` | `Spec => ReapSparesFreshEntries` |
| `TokenBucket_proofs` | `TypeCorrect` | `Spec => []TypeOK` |
| | `QuotaIsKept` | `Spec => []QuotaHolds` |
| | `DeadWaitsAreDenied` | `Spec => DeadContextIsDenied` |
| `Clients_proofs` | `TypeCorrect` | `Spec => []TypeOK` |
| | `AttemptsAreCounted` | `Spec => []GivesUpAfterAllAttempts` |
| | `DeadCallsAreNotRetried` | `Spec => NoRetryOnceOver` |
| | `PoliciesFit`, `ThreeAttemptsFit` | `Spec => []PolicyFitsBudget`, where the worst case fits (see below) |
| | `BadRecordsCostOnlyThemselves` | `AdaptersSpec => []BadRecordCostsOnlyItself` |
| | `EveryContradictionIsReported` | `AdaptersSpec => []ContradictionsAreReported` |
| | `AllTellingsAgree` | `AdaptersSpec => []TellingsAgree` |
| | `AnswersFitRequests` | `AdaptersSpec => []AnswerFitsRequest` |
| `ThrottledProvider_proofs` | `CallsEndInTime` | `Spec => []BackByDeadline` |
| | `TokensPayForFetches` | `Spec => []FetchesArePaidFor` |
| `SearchService_proofs` | `TypeCorrect` | `Spec => []TypeOK` |
| | `FlightsFitTheirCaller` | `Spec => []AnswersMatchRequest` |
| | `OutagesAreForgotten` | `Spec => []OutageIsNotCached` (P) |
| | `CacheServesEveryone` | `Spec => []CacheIsUnfiltered` |
| | `CountsAddUp` | `Spec => []ResultsConserved` |
| | `NothingStaleIsServed` | `Spec => []AnswersAreRecent` |
| | `SearchesEndInTime` | `Spec => []BackInBudget` |
| | `FailureMeansTotalFailure` | `Spec => []OnlyTotalFailureIs502` (P) |
| | `HitsAreFree` | `Spec => []HitMeansNoCalls` |
| | `ServesAsPromised` | `Spec => ImplementsFlightSearch` (P) |
| `TripRequest_proofs` | `OnlySoundTripsAreSearched` | `Spec => []SearchedTripsAreSound` |
| | `FormsAreOne` | `Spec => FormsAgree` |
| `Pipeline_proofs` | `CacheIsNotWrittenThrough` | `Spec => []CachedAggregateUntouched` |
| | `AnswersDependOnRequestsOnly` | `Spec => []SameRequestSameAnswer` |
| | `EveryOfferIsAccountedFor` | `Spec => []OffersAreConserved` |
| | `CheapestOfferIsShown` | `Spec => []HeadlineIsCheapest` |
| | `OrdersAreTotal` | `Spec => []OrderIsTotal` |
| | `ScoresFollowMerit` | `Spec => []ScoresAreFair` |
| `Lifecycle_proofs` | `ShutdownsAreGraceful` | `Spec => []ShutdownIsGraceful`, where the timeouts fit (see below) |

So every invariant and action property of the passing runs is a theorem for every value of the
constants that meets the assumptions below.

### Assumptions

Besides the types of the constants (the named `ASSUME`s, which TLC evaluates on each run):

- The cache's time to live is positive (`New` replaces any other), and `Absent` is not an entry.
- A token is at least one credit. A limiter may be without a rate (`Rate = 0`), which no run has.
- The callers of a throttled provider (`Procs`), and the providers and offers of a service, are finite
  sets: fetches, flights and providers are counted. They may be as many as one likes.
- (P) There is a provider: the wiring has four. `aggregate` over none would cache an empty answer and
  report no failure.
- `PoliciesFit` assumes `WorstCase` and `BudgetSuffices`: some bound on latencies and delays for
  which attempts and the backoffs between them end within the budget. `ThreeAttemptsFit` gives the
  instance of AirAsia: three attempts, and a budget for three latencies and for one and two base
  delays.
- `ShutdownsAreGraceful` assumes that reading and searching together (`Busy`) take less than the write
  timeout, and with one look of `Shutdown`'s less than its timeout. With `app.go`'s 5, 10 and 10
  seconds this is so for every search budget below five seconds less a look; the default is two.
- The cache's reference is not one of the slices that legs allocate, which a reference to memory
  cannot be.
- A timetable (`IsTimetable`) is a list of items whose journeys can be flown (`Flies`): each leg
  takes time and goes somewhere else, each leaves from where the one before landed and no earlier,
  the whole does not end where it began, fares are positive, and numbers tell the journeys of a list
  apart. Each item has one of the sixteen faults or none, in any combination with the others'
  faults. The faults have the sizes that `Journeys` gives them: a misstated duration is five minutes
  off, a misstated count of stops is one too many. Each client is one of the four, at most once
  (`repository.go` builds each once). The registry is the model's, with four airports in two zones.

Nothing is assumed of the number of goroutines, keys, values, searches, legs, clients or records,
of the offers in an aggregate, of the number or length of a journey's legs, or of the length of a
run; `MaxTime` and the other bounds of the runs are any naturals.

### The arguments

*Cache.* `HitIsFresh` speaks of finished `Get`s and is not inductive. `FreshInv` adds that every entry
in the map, and every copy a `Get` holds between its lock and its look at the clock, is backed by
a write of that key and value whose time and deadline differ by the time to live. Writes
accumulate and the clock advances, so backing persists (`BackedStays`); `GetCheck` turns a backed
copy that has not expired into a fresh hit. That reaps are safe needs types only: the write lock's
second look is the whole argument.

*Limiter.* `QuotaHolds` is not inductive, for what may still be granted in a window depends on the
level. `Account` bounds granted and held credits together, for every window that began before the
last refill, by a full bucket and what has accrued by that refill; in a window that began later
nothing has been granted. `AccountKept` shows it for any operation that refills, takes and
records; the steps of `Allow`, `Wait` and `Tokens` are instances. `BucketUnused` keeps the callers
of an unlimited limiter away from the bucket.

*Retries.* `LoopInv` adds to the types that `attempt` counts the attempts made (`CountsAgree`), which
is what giving up after all of them rests on. `TimeInv` bounds, for each point of the loop, what
is left of the budget by the latencies and delays still to come; delays grow to the cap and
no further (`GrownFacts`). A call that nobody cancels is then never over before it ends.
`NoRetryOnceOver` speaks of what happens ever after. Its proof names two sets of states with a
context that is over: in `NoneLeft` the call is at a place where it looks at its context, or has
returned; in `OneLeft` it is past its look. No step brings a context back (`OverStaysOver`), the
first set is never left (`NoneLeftStays`), and the second only into the first, by the one attempt
(`OneLeftStays`).

*Clients.* The heart of it is `ReadRight`: of one item, a client makes nothing if the record is
`Fatal` to it, and otherwise one flight that is `ToldRight`, that is, which says what the journey is
and is warned of exactly if `Misstated`. It is proved of each client (`LionReadsRight` to
`GarudaReadsConnections`), for every journey, and `ClientsReadRight` puts the four together:

- A journey is unfolded leg by leg (`LegsOfJourneys`), and lasts as long as its legs and waits
  (`LengthOfJourneys`, from the smallest leg at which the sums would part).
- The stamps of both ends are read back in each layout (`StampsAreRead`, `EndsAreRead`), prose and
  hours too: `HoursFacts` is that a number of minutes survives being written in hundredths of an
  hour.
- Three clients make a flight of one leg with declared waits (`OneLeg`); Garuda makes one from all
  legs of a connection (`ByLegs`), or from the ends of a direct flight. For both forms it is shown
  which figures they come to, when `Validate` lets them pass (`ValidOneLeg`, `ValidByLegs`), and
  that they say what the journey is (`SaysSo`). That separately rounded legs and waits stay within
  one rounding each is `SumsOfMinutes`, `SumOfWaits` and `LayoverOfLegs`.

From single records to payloads it is lists: `FlattenFacts` and `FlattenAlike` say what a flattened
list of lists contains and in which order, so that `TimetablesAreRead` and `NumbersInOrder` speak of
`FetchFlights`. The properties speak of replies and answers in any order of fetching, and
`RepliesAreRead` is the invariant that ties them to the timetable: each client has returned nothing
yet, a failure, or all that it makes of these items, and there is an answer only once all have,
gathered from them. It is inductive, and TLC agrees to it on the instance of the run.
`AcceptedIfFits` then says of a flight that is told right that the service accepts it exactly if its
journey fits, and `AcceptedAreKept` carries this through the second flattening.

*Throttled provider.* The limiter and the loop are instances over one set of variables; their steps
are reduced to what they do to one caller (`QueueMoves`, `FetchMoves`). `DeadlineInv` is
inductive because the clock waits for every call whose context is over (`OnlyLiveCallsWait`).
`FetchesArePaidFor` is not: a granted token pays for attempts not yet made. `PaidInv` counts them
(`Unused`) on the side of the fetches, so that a grant adds as much to both sides and a fetch
moves one from one to the other.

*Service.* `ServiceInv` ties every place a value passes through to where it comes from: a cache entry,
the copy in a lookup, and the outcome of a leg are each `Genuine` for the leg's key, that is all
that some providers have for it, asked for at a time the clock has passed by at most a fan-out, and
by a time to live more once cached. The store is an instance, and its `Get` is followed through its
three parts. Freshness, matching, counts and hits are consequences for the leg that reports;
`SearchInv` and `AskedInv` carry them over to the search. The clock cannot pass a budget, because a
search that could go on holds it.

*Refinement.* Under the mapping of section 2, initial states map to initial states, `Receive`,
`Answer` and `Tick` map to their namesakes, and the other steps leave the mapped state alone: a leg
that has ended keeps its outcome (`OutcomeInv`). What an answer has to show to be allowed by the
promise is what `ServiceInv` says of outcomes.

*Request.* `TripInv` says what `Normalize` leaves in a request (`Prepared`) and what validation has
let through (`Valid`). The code compares each leg's date with the one before it; that this orders
any two of them (`NeighboursSuffice`) is proved from the smallest position at which it fails
(`SmallestNat`).

*Pipeline.* `PipeInv` says, for each stage, that a leg's slice holds what its own stages make of the
aggregate (`Filtered`, `Deduped`, `Scored`, `Sorted`), and which slice it is. A leg writes into
slices of its own only (`OwnSlice`), so that neither the cache nor another leg notices.
What a stage makes of its flights is shown stage by stage, and for `Passing` and `Deduped`, which
are loops, from the smallest number of offers at which a claim would fail (`SmallestNat`; induction
itself is out of the provers' reach):

- `Passes` places what a filter lets through at distinct positions of the aggregate, and misses
  nothing that it keeps; equal numbers follow from the bijection (`PassingCounts`).
- `Tells` says that no two flights kept are the same flight, that each offer so far has one, and
  that each is the `Headline` of its offers: as many alternatives as other offers, no dearer than
  any, the same fares altogether. An offer starts a flight, joins one or passes it by
  (`HeadlineStarts`, `HeadlineMerges`, `HeadlineStays`).
- `StableSorted` numbers positions by ranks. `Ranking` shows that a strict total order has each rank
  once, because an injection of a finite set into itself is onto; `StableOrder` that a weak order
  with ties left as they were is one. Orders with their tie-breaks are weak orders
  (`ComesFirstFacts`), and only offers of one flight tie, which `Tells` excludes.
- `ScoreFacts` is arithmetic: excesses lie between 0 and their spread, a penalty is at most ten tenths
  of the common denominator and grows with each excess, and the rounded quotient keeps the order
  and both ends of the scale.

Scoring and sorting only rearrange and mark (`Rearranges`, `TellsLikewise`), so the answer tells what
`Deduped` told.

*Server.* `LifeInv` bounds, for each connection, how long it can still keep the server busy. During a
shutdown, `AtMostBusySince` holds of every connection from the moment the listener closed, so that the
shutdown's timeout can only find clients that leave their answer unread.

### Only model-checked

Liveness (`LoneWaitEnds`, `DeadlineEndsWait`, `EverySearchIsAnswered`, `ServerStops`): fairness and
`ENABLED` are outside what the provers handle. The two runs that end in a violation.

## 5. What is not modelled, and what comes next

Not modelled: response layout and messages, formatting of prices and durations, baggage, amenities
and aircraft, logging, JSON beyond accepted or refused, routes and constructors, `Len`, `Health`,
the cache of time zones in `timeutil.Location`, and time zones that change their clocks. float64 is
replaced by exact numbers in limiter, scores and AirAsia's hours. net/http and a provider's network
are external.

Two effects the models contain and no property forbids, because no document rules them out: a
client that leaves during a fan-out makes a poorer aggregate that is cached for others until it
expires, and a context that ends between a look and what follows it spends a token (`Wait`) or makes
one more attempt (`Do`). A third is that a listener which fails as the signal arrives may end the
process with code 0, because select takes either.

What is left to prove, in order:

1. `ThrottledProvider` as an implementation of what `SearchService` takes a slot to be: an abstract
   module for one provider that answers or fails by its deadline, and the refinement in TLAPS.
2. The cache as an implementation of a map whose entries end by themselves.
3. From service to pipeline: that what `SearchService` shows of a leg by its matching flights is what
   `Pipeline` keeps of the aggregate it is served; and from the clients to the service, that its
   offers are the flights of `Adapters`.
