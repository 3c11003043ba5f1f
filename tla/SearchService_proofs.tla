------------------------ MODULE SearchService_proofs ------------------------
(* The search service, for every set of searches, requests, providers and  *)
(* offers, every deadline and every time to live.                          *)
EXTENDS SearchService, FiniteSetTheorems, TLAPS

\* The budget of a fan-out.
Slack == Least(ProviderTimeout, OverallTimeout)

-----------------------------------------------------------------------------
(* The inductive invariant.  What the properties say of finished legs and  *)
(* searches rests on what is true of the cache and of everything that is   *)
(* still on its way.                                                       *)

\* Aggregate a is all that some of the providers have for key k, and they were asked in the past.
Genuine(k, a) ==
    /\ a \in Aggregate
    /\ Providers # {} => a.succeeded # {}
    /\ a.flights = {f \in Received(a.succeeded) :
                       f.sound /\ f.leg = k.leg /\ f.cabin = k.cabin /\ f.seats >= k.passengers}
    /\ a.dropped = Cardinality(Received(a.succeeded) \ a.flights)
    /\ a.began <= now

\* An entry is genuine for its key, and its deadline is a fan-out and a time to live after the
\* question it answers.
GenuineEntry(k, e) ==
    /\ e \in Store!Entry /\ Genuine(k, e.value)
    /\ e.expiresAt <= e.value.began + Slack + TTL

EntryInv(k) == entries[k] # Absent => GenuineEntry(k, entries[k])

\* A search has its request from the moment it is received; its legs have started if it is being
\* answered, and have ended once it is.
Accepted(s) == search[s].at = "running" \/ (search[s].at = "answered" /\ search[s].code # 400)

SearchInv(s) ==
    /\ Accepted(s) => \A g \in LegsOf(s) : leg[g].at # "off"
    /\ search[s].at = "answered" /\ search[s].code # 400 =>
          /\ \A g \in LegsOf(s) : leg[g].at = "done"
          /\ search[s].code = StatusOf(s) /\ search[s].hit = AllHits(s)
    /\ search[s].at = "running" => now <= search[s].started + Slack
    /\ search[s].at = "idle" => asked[s] = 0

\* A leg belongs to a search, and works at once on what needs no provider, so that the clock finds
\* it at the start of its search or waiting for providers.
LegInv(g) ==
    /\ leg[g].at # "off" => Accepted(g[1]) /\ g \in LegsOf(g[1])
    /\ leg[g].at \in {"lookup", "fanout"} => search[g[1]].at = "running"
    /\ leg[g].at = "lookup" => search[g[1]].started = now
    /\ leg[g].at = "fanout" => leg[g].began = search[g[1]].started /\ leg[g].began <= now
    /\ leg[g].at \in {"off", "lookup"} => \A p \in Providers : slots[g][p] = "pending"

\* A lookup is for the leg's own key, and what it has found and not yet given up is genuine.
LookupInv(g) ==
    /\ leg[g].at = "off" => gets[g] = Store!Idle
    /\ leg[g].at = "lookup" /\ gets[g].at # "idle" => gets[g].key = Key(Req(g), Leg(g))
    /\ gets[g].at = "check" => GenuineEntry(gets[g].key, gets[g].found)
    /\ leg[g].at = "lookup" /\ gets[g].at = "hit" =>
          Genuine(gets[g].key, gets[g].value) /\ now <= gets[g].value.began + Slack + TTL

\* What a leg that shows flights reports.
Shows(g, o) ==
    /\ Providers # {} => o.succeeded # {}
    /\ o.flights = Promise!Shown(Req(g), Leg(g), o.succeeded)
    /\ o.total + o.dropped + o.filtered + o.merged = Cardinality(Received(o.succeeded))
    /\ o.errors + Cardinality(o.succeeded) = Cardinality(Providers)

\* A leg reports when it is done: flights, if the order is known and not every provider failed.
OutcomeInv(g) ==
    /\ leg[g].at # "done" => outcome[g] = Absent
    /\ leg[g].at = "done" =>
          /\ outcome[g] \in LegOutcome
          /\ outcome[g].age <= TTL + Slack
          /\ outcome[g].failed => outcome[g].flights = {}
          /\ ~outcome[g].failed => Shows(g, outcome[g]) /\ Req(g).knownSort
          /\ outcome[g].hit => \A p \in Providers : slots[g][p] = "pending"
          /\ Req(g).knownSort /\ Providers # {} =>
                (outcome[g].failed <=> \A p \in Providers : slots[g][p] = "err")

\* A leg that has asked the providers, or is asking them.
Asked(g) == leg[g].at = "fanout" \/ (leg[g].at = "done" /\ ~outcome[g].hit)

\* A search has asked providers exactly if one of its legs has.
AskedInv(s) == asked[s] > 0 <=> \E i \in 1 .. MaxLegs : Asked(<<s, i>>)

Known(g) == LegInv(g) /\ LookupInv(g) /\ OutcomeInv(g)

ServiceInv ==
    /\ TypeOK
    /\ \A k \in Keys : EntryInv(k)
    /\ \A s \in Searches : SearchInv(s) /\ AskedInv(s)
    /\ \A g \in Goroutines : Known(g)

-----------------------------------------------------------------------------
(* The operators of the model.                                             *)

\* A fan-out has a positive budget.
LEMMA SlackFacts == Slack \in Nat /\ Slack >= 1 /\ TTL \in Nat
  BY ServiceAssumption DEF Slack, Least

\* What providers send is some of the finitely many offers there are.
LEMMA ReceivedFacts ==
  ASSUME NEW ps \in SUBSET Providers
  PROVE  Received(ps) \subseteq Offers /\ IsFiniteSet(Received(ps))
<1>1. Received(ps) \subseteq Offers
  BY DEF Received, Offers
<1>2. QED
  BY <1>1, ServiceAssumption, FS_Subset

\* Flights are no more than the offers that tell of them.
LEMMA NumbersFacts ==
  ASSUME NEW S, IsFiniteSet(S)
  PROVE  LET numbers == {f.number : f \in S}
         IN  /\ IsFiniteSet(numbers) /\ Cardinality(numbers) \in Nat
             /\ Cardinality(S) \in Nat /\ Cardinality(numbers) <= Cardinality(S)
<1> DEFINE numbers == {f.number : f \in S}
           number  == [f \in S |-> f.number]
<1>1. number \in Surjection(S, numbers)
  BY DEF Surjection
<1>2. QED
  BY <1>1, FS_Surjection, FS_CardinalityType

\* UnsortedLeg, field by field.
LEMMA UnsortedLegIs ==
  ASSUME NEW a, NEW hit \in BOOLEAN
  PROVE  LET u == UnsortedLeg(a, hit)
         IN  /\ u.failed /\ u.hit = hit /\ u.flights = {} /\ u.succeeded = a.succeeded
             /\ u.errors = Cardinality(Providers \ a.succeeded) /\ u.age = now - a.began
             /\ (/\ a.succeeded \in SUBSET Providers /\ now - a.began \in Nat
                 /\ Cardinality(Providers \ a.succeeded) \in Nat) => u \in LegOutcome
<1>1. FailedLeg \in LegOutcome
  BY ServiceAssumption, FS_CardinalityType DEF FailedLeg, LegOutcome
<1>2. (/\ a.succeeded \in SUBSET Providers /\ now - a.began \in Nat
       /\ Cardinality(Providers \ a.succeeded) \in Nat) => UnsortedLeg(a, hit) \in LegOutcome
  BY <1>1 DEF UnsortedLeg, LegOutcome
<1>3. QED
  BY <1>2 DEF UnsortedLeg, FailedLeg

\* SearchedLeg for an order that is known, field by field.
LEMMA SearchedLegIs ==
  ASSUME NEW r, NEW a, NEW hit \in BOOLEAN, r.knownSort
  PROVE  LET o       == SearchedLeg(r, a, hit)
             u       == UnsortedLeg(a, hit)
             kept    == {f \in a.flights : Keeps(r, f)}
             numbers == {f.number : f \in kept}
         IN  u \in LegOutcome =>
               /\ ~o.failed /\ o.hit = u.hit /\ o.flights = Cheapest(kept)
               /\ o.succeeded = u.succeeded /\ o.errors = u.errors /\ o.age = u.age
               /\ o.total = Cardinality(numbers) /\ o.dropped = a.dropped
               /\ o.filtered = Cardinality(a.flights \ kept)
               /\ o.merged = Cardinality(kept) - Cardinality(numbers)
               /\ (/\ Cheapest(kept) \in SUBSET Offers /\ Cardinality(numbers) \in Nat
                   /\ a.dropped \in Nat /\ Cardinality(a.flights \ kept) \in Nat
                   /\ Cardinality(kept) - Cardinality(numbers) \in Nat) => o \in LegOutcome
  BY DEF SearchedLeg, LegOutcome

\* A set and its parts.
LEMMA Parts ==
  ASSUME NEW S, IsFiniteSet(S), NEW T \in SUBSET S
  PROVE  /\ IsFiniteSet(T) /\ Cardinality(T) \in Nat /\ Cardinality(S \ T) \in Nat
         /\ Cardinality(S) = Cardinality(T) + Cardinality(S \ T)
<1>1. IsFiniteSet(T) /\ IsFiniteSet(S \ T)
  BY FS_Subset, FS_Difference
<1>2. Cardinality(S \ T) = Cardinality(S) - Cardinality(T)
  <2>1. S \cap T = T
    OBVIOUS
  <2>2. Cardinality(S \ T) = Cardinality(S) - Cardinality(S \cap T)
    BY FS_Difference
  <2>3. QED
    BY <2>1, <2>2, Zenon
<1>3. Cardinality(S) \in Nat /\ Cardinality(T) \in Nat /\ Cardinality(S \ T) \in Nat
  BY <1>1, FS_CardinalityType
<1>4. QED
  BY <1>1, <1>2, <1>3

\* What a leg reports of an aggregate that is genuine for its key, whoever fetched it: exactly what
\* FlightSearch would show, with counts that add up.
LEMMA Reports ==
  ASSUME NEW g \in Goroutines, NEW a, Genuine(Key(Req(g), Leg(g)), a),
         Req(g).knownSort \in BOOLEAN, NEW hit \in BOOLEAN,
         now \in Nat, now <= a.began + Slack + TTL
  PROVE  LET o == SearchedLeg(Req(g), a, hit)
         IN  /\ o \in LegOutcome /\ o.hit = hit /\ o.age <= TTL + Slack
             /\ o.failed => o.flights = {}
             /\ o.failed <=> ~Req(g).knownSort
             /\ ~o.failed => Shows(g, o)
<1> DEFINE o    == SearchedLeg(Req(g), a, hit)
           kept == {f \in a.flights : Keeps(Req(g), f)}
           rest == a.flights \ kept
           lost == Received(a.succeeded) \ a.flights
           nums == {f.number : f \in kept}
<1>a. /\ a.flights \in SUBSET Offers /\ a.succeeded \in SUBSET Providers
      /\ a.dropped \in Nat /\ a.began \in Nat /\ a.began <= now
      /\ now - a.began \in Nat /\ now - a.began <= TTL + Slack
      /\ a.flights \in SUBSET Received(a.succeeded)
      /\ a.dropped = Cardinality(lost)
      /\ Providers # {} => a.succeeded # {}
  BY SlackFacts DEF Genuine, Aggregate
<1>p. /\ Cardinality(Providers \ a.succeeded) \in Nat /\ Cardinality(a.succeeded) \in Nat
      /\ Cardinality(Providers) = Cardinality(a.succeeded) + Cardinality(Providers \ a.succeeded)
  BY <1>a, ServiceAssumption, Parts
<1>u. /\ UnsortedLeg(a, hit) \in LegOutcome
      /\ UnsortedLeg(a, hit).failed /\ UnsortedLeg(a, hit).hit = hit
      /\ UnsortedLeg(a, hit).flights = {} /\ UnsortedLeg(a, hit).succeeded = a.succeeded
      /\ UnsortedLeg(a, hit).errors = Cardinality(Providers \ a.succeeded)
      /\ UnsortedLeg(a, hit).age = now - a.began
  BY <1>a, <1>p, UnsortedLegIs
<1>1. CASE ~Req(g).knownSort
  <2>1. o = UnsortedLeg(a, hit)
    BY <1>1 DEF SearchedLeg
  <2>2. QED
    BY <1>1, <1>a, <1>u, <2>1
<1>2. CASE Req(g).knownSort
  <2>1. /\ IsFiniteSet(a.flights) /\ Cardinality(a.flights) \in Nat /\ Cardinality(lost) \in Nat
        /\ Cardinality(Received(a.succeeded)) = Cardinality(a.flights) + Cardinality(lost)
    BY <1>a, ReceivedFacts, Parts
  <2>2. kept \in SUBSET a.flights
    OBVIOUS
  <2>3. /\ IsFiniteSet(kept) /\ Cardinality(kept) \in Nat /\ Cardinality(rest) \in Nat
        /\ Cardinality(a.flights) = Cardinality(kept) + Cardinality(rest)
    BY <2>1, <2>2, Parts
  <2>4. Cardinality(nums) \in Nat /\ Cardinality(nums) <= Cardinality(kept)
    BY <2>3, NumbersFacts
  <2>5. Cardinality(kept) - Cardinality(nums) \in Nat
    BY <2>3, <2>4
  <2>6. Cheapest(kept) \in SUBSET Offers
    BY <1>a, <2>2 DEF Cheapest
  <2>7. Cheapest(kept) = Promise!Shown(Req(g), Leg(g), a.succeeded)
    <3>1. a.flights = {f \in Received(a.succeeded) :
                          f.sound /\ f.leg = Leg(g) /\ f.cabin = Req(g).cabin
                            /\ f.seats >= Req(g).passengers}
      BY DEF Genuine, Key
    <3>2. kept = {f \in Received(a.succeeded) : Promise!Fits(Req(g), Leg(g), f)}
      BY <3>1 DEF Keeps, Promise!Fits
    <3>3. QED
      BY <3>2 DEF Cheapest, Promise!Shown, Received
  <2>8. /\ o \in LegOutcome /\ ~o.failed /\ o.hit = hit /\ o.flights = Cheapest(kept)
        /\ o.succeeded = a.succeeded /\ o.age = now - a.began
        /\ o.errors = Cardinality(Providers \ a.succeeded)
        /\ o.total = Cardinality(nums) /\ o.dropped = a.dropped
        /\ o.filtered = Cardinality(rest) /\ o.merged = Cardinality(kept) - Cardinality(nums)
    BY <1>2, <1>u, <1>a, <2>3, <2>4, <2>5, <2>6, SearchedLegIs
  <2> HIDE DEF o, kept, rest, lost, nums
  <2>9. o.total + o.dropped + o.filtered + o.merged = Cardinality(Received(o.succeeded))
    BY <1>a, <2>8, <2>1, <2>3, <2>4
  <2>10. o.errors + Cardinality(o.succeeded) = Cardinality(Providers)
    BY <1>p, <2>8
  <2>11. Shows(g, o)
    BY <1>a, <2>8, <2>7, <2>9, <2>10 DEF Shows
  <2>12. QED
    BY <1>2, <1>a, <2>8, <2>11 DEF o
<1>3. QED
  BY <1>1, <1>2

-----------------------------------------------------------------------------
(* Searches, their legs and their keys.                                    *)

\* Requests have legs, and the service has a goroutine for each of them.
LEMMA RequestFacts ==
  ASSUME NEW r \in Requests
  PROVE  /\ DOMAIN r.legs \subseteq 1 .. MaxLegs /\ \A i \in DOMAIN r.legs : r.legs[i] \in Legs
         /\ r.knownSort \in BOOLEAN
<1>1. r.legs \in Seq(Legs) /\ Len(r.legs) <= MaxLegs /\ r.knownSort \in BOOLEAN
  BY RequestAssumption
<1>2. Len(r.legs) \in Nat /\ DOMAIN r.legs = 1 .. Len(r.legs) /\ MaxLegs \in Nat
  BY <1>1, ServiceAssumption
<1>3. QED
  BY <1>1, <1>2

\* A search that has been accepted has a request of its own, and its legs are goroutines.
LEMMA AcceptedFacts ==
  ASSUME TypeOK, NEW s \in Searches, search[s].at # "idle"
  PROVE  search[s].req \in Requests /\ LegsOf(s) \subseteq Goroutines
<1>1. search[s] \in SearchState
  BY DEF TypeOK
<1>2. search[s].req \in Requests
  BY <1>1 DEF SearchState
<1>3. QED
  BY <1>2, RequestFacts DEF LegsOf, Goroutines

\* A leg that runs or has run is one of its search's, and its key is one of the cache's.
LEMMA LegFacts ==
  ASSUME TypeOK, NEW g \in Goroutines, LegInv(g), leg[g].at # "off"
  PROVE  /\ g[1] \in Searches /\ g[2] \in 1 .. MaxLegs /\ g = <<g[1], g[2]>>
         /\ Req(g) \in Requests /\ Req(g).knownSort \in BOOLEAN
         /\ Key(Req(g), Leg(g)) \in Keys
<1>1. g[1] \in Searches /\ g[2] \in 1 .. MaxLegs /\ g = <<g[1], g[2]>>
  BY DEF Goroutines
<1>2. search[g[1]].at # "idle" /\ g \in LegsOf(g[1])
  BY DEF LegInv, Accepted
<1>3. Req(g) \in Requests
  BY <1>1, <1>2, AcceptedFacts DEF Req
<1>4. g[2] \in DOMAIN Req(g).legs
  BY <1>1, <1>2 DEF LegsOf, Req
<1>5. Key(Req(g), Leg(g)) \in Keys
  BY <1>3, <1>4 DEF Keys, Leg
<1>6. QED
  BY <1>1, <1>3, <1>5, RequestFacts

\* What is genuine stays genuine while the clock advances.
LEMMA GenuineStays ==
  ASSUME now \in Nat, now' \in Nat, now <= now'
  PROVE  /\ \A k, a : Genuine(k, a) => Genuine(k, a)'
         /\ \A k, e : GenuineEntry(k, e) => GenuineEntry(k, e)'
<1>1. ASSUME NEW k, NEW a, Genuine(k, a) PROVE Genuine(k, a)'
  <2>1. a.began \in Nat /\ a.began <= now
    BY <1>1 DEF Genuine, Aggregate
  <2>2. QED
    BY <1>1, <2>1 DEF Genuine
<1>2. QED
  BY <1>1 DEF GenuineEntry

\* A leg that is left alone stays as it is, as long as its search and the clock do.
LEMMA LeftAlone ==
  ASSUME NEW h, Known(h), search'[h[1]] = search[h[1]], now' = now, now \in Nat,
         leg'[h] = leg[h], gets'[h] = gets[h], slots'[h] = slots[h], outcome'[h] = outcome[h]
  PROVE  Known(h)'
<1>1. \A k, e : GenuineEntry(k, e) => GenuineEntry(k, e)'
  BY GenuineStays
<1>2. \A k, a : Genuine(k, a) => Genuine(k, a)'
  BY GenuineStays
<1>r. Req(h)' = Req(h) /\ Leg(h)' = Leg(h)
  BY DEF Req, Leg
<1>3. LegInv(h)'
  BY DEF Known, LegInv, Accepted, LegsOf
<1>4. LookupInv(h)'
  BY <1>1, <1>2, <1>r DEF Known, LookupInv
<1>5. OutcomeInv(h)'
  BY <1>r DEF Known, OutcomeInv, Shows
<1>6. QED
  BY <1>3, <1>4, <1>5 DEF Known

\* Only leg g moves, and neither the searches nor the clock do.
OnlyLegMoves(g) ==
    /\ search' = search /\ now' = now /\ gone' = gone
    /\ leg' = [leg EXCEPT ![g] = leg'[g]] /\ gets' = [gets EXCEPT ![g] = gets'[g]]
    /\ slots' = [slots EXCEPT ![g] = slots'[g]] /\ outcome' = [outcome EXCEPT ![g] = outcome'[g]]

\* The search's count follows leg g.
CountFollows(g) ==
    \/ asked' = asked /\ (Asked(g)' <=> Asked(g))
    \/ asked' = [asked EXCEPT ![g[1]] = @ + 1] /\ Asked(g)'

\* A step of one running leg that keeps the types, the cache and what is known of that leg keeps
\* the whole invariant.
LEMMA LegMoves ==
  ASSUME ServiceInv, NEW g \in Goroutines, leg[g].at \in {"lookup", "fanout"},
         OnlyLegMoves(g), CountFollows(g),
         leg'[g] \in LegState, leg'[g].at # "off", gets'[g] \in Store!GetState,
         slots'[g] \in [Providers -> {"pending", "ok", "err"}],
         outcome'[g] \in LegOutcome \cup {Absent},
         entries' \in [Keys -> Store!Entry \cup {Absent}],
         \A k \in Keys : EntryInv(k)',
         Known(g)'
  PROVE  ServiceInv'
<1>i. /\ TypeOK /\ now \in Nat /\ Known(g)
      /\ \A s \in Searches : SearchInv(s) /\ AskedInv(s)
      /\ \A h \in Goroutines : Known(h)
  BY DEF ServiceInv, TypeOK
<1>g. g[1] \in Searches /\ g[2] \in 1 .. MaxLegs /\ g = <<g[1], g[2]>>
  BY DEF Goroutines
<1>o. \A h \in Goroutines \ {g} : /\ leg'[h] = leg[h] /\ gets'[h] = gets[h]
                                  /\ slots'[h] = slots[h] /\ outcome'[h] = outcome[h]
  BY <1>i DEF TypeOK, OnlyLegMoves
<1>a. asked' \in [Searches -> Nat]
  BY <1>i, <1>g DEF CountFollows, TypeOK
<1>1. TypeOK'
  BY <1>i, <1>a DEF TypeOK, OnlyLegMoves
<1>2. ASSUME NEW s \in Searches PROVE SearchInv(s)'
  <2>1. search' = search /\ now' = now /\ SearchInv(s) /\ LegsOf(s)' = LegsOf(s)
        /\ (Accepted(s)' <=> Accepted(s))
    BY <1>i DEF OnlyLegMoves, LegsOf, Accepted
  <2>2. Accepted(s) => LegsOf(s) \subseteq Goroutines
    BY <1>i, AcceptedFacts DEF Accepted
  <2>3. Accepted(s)' => \A h \in LegsOf(s)' : leg'[h].at # "off"
    BY <2>1, <2>2, <1>o DEF SearchInv
  <2>4. ASSUME search[s].at = "answered", search[s].code # 400
        PROVE  /\ \A h \in LegsOf(s) : leg'[h].at = "done"
               /\ StatusOf(s)' = StatusOf(s) /\ AllHits(s)' = AllHits(s)
    <3>1. g \notin LegsOf(s)
      BY <2>1, <2>4 DEF SearchInv
    <3>2. \A h \in LegsOf(s) : leg'[h] = leg[h] /\ outcome'[h] = outcome[h]
      BY <2>2, <2>4, <3>1, <1>o DEF Accepted
    <3>3. \A h \in LegsOf(s) : leg'[h].at = "done"
      BY <2>1, <2>4, <3>2 DEF SearchInv
    <3>4. StatusOf(s)' = StatusOf(s)
      <4>1. (\A h \in LegsOf(s)' : outcome'[h].failed) <=> (\A h \in LegsOf(s) : outcome[h].failed)
        BY <2>1, <3>2, Zenon
      <4>2. QED
        BY <4>1, Zenon DEF StatusOf
    <3>5. AllHits(s)' = AllHits(s)
      BY <2>1, <3>2, Zenon DEF AllHits
    <3>6. QED
      BY <3>3, <3>4, <3>5
  <2>5. search[s].at = "idle" => asked'[s] = 0
    <3> SUFFICES ASSUME search[s].at = "idle" PROVE asked'[s] = 0
      OBVIOUS
    <3>1. s # g[1] /\ asked[s] = 0
      BY <1>i, <2>1 DEF Known, LegInv, SearchInv
    <3>2. QED
      BY <3>1, <1>i DEF CountFollows, TypeOK
  <2>6. QED
    BY <2>1, <2>3, <2>4, <2>5 DEF SearchInv
<1>3. ASSUME NEW s \in Searches PROVE AskedInv(s)'
  <2>1. AskedInv(s) /\ asked[s] \in Nat
    BY <1>i DEF TypeOK
  <2>2. ASSUME NEW i \in 1 .. MaxLegs, <<s, i>> # g
        PROVE  Asked(<<s, i>>)' <=> Asked(<<s, i>>)
    <3>1. <<s, i>> \in Goroutines \ {g}
      BY <2>2 DEF Goroutines
    <3>2. QED
      BY <3>1, <1>o DEF Asked
  <2>3. CASE asked' = asked /\ (Asked(g)' <=> Asked(g))
    BY <2>1, <2>2, <2>3 DEF AskedInv
  <2>4. CASE asked' = [asked EXCEPT ![g[1]] = @ + 1] /\ Asked(g)'
    <3>1. CASE s = g[1]
      <4>1. asked'[s] > 0
        BY <2>1, <2>4, <3>1, <1>i DEF TypeOK
      <4>i. Asked(<<s, g[2]>>)'
        BY <2>4, <3>1, <1>g
      <4>2. QED
        BY <4>1, <4>i, <1>g DEF AskedInv
    <3>2. CASE s # g[1]
      <4>1. asked'[s] = asked[s]
        BY <2>4, <3>2, <1>i DEF TypeOK
      <4>2. \A i \in 1 .. MaxLegs : <<s, i>> # g
        BY <3>2
      <4>3. QED
        BY <4>1, <4>2, <2>1, <2>2 DEF AskedInv
    <3>3. QED
      BY <3>1, <3>2
  <2>5. QED
    BY <2>3, <2>4 DEF CountFollows
<1>4. ASSUME NEW h \in Goroutines PROVE Known(h)'
  BY <1>i, <1>o, LeftAlone DEF OnlyLegMoves
<1>5. QED
  BY <1>1, <1>2, <1>3, <1>4 DEF ServiceInv

-----------------------------------------------------------------------------
(* The steps of a leg.                                                     *)

\* What the invariant gives a step of leg g.
LEMMA LegHas ==
  ASSUME ServiceInv, NEW g \in Goroutines, leg[g].at # "off"
  PROVE  /\ TypeOK /\ Known(g) /\ \A k \in Keys : EntryInv(k)
         /\ now \in Nat /\ g[1] \in Searches
         /\ leg[g] \in LegState /\ gets[g] \in Store!GetState
         /\ slots[g] \in [Providers -> {"pending", "ok", "err"}]
         /\ outcome[g] \in LegOutcome \cup {Absent}
         /\ Req(g) \in Requests /\ Req(g).knownSort \in BOOLEAN
         /\ Key(Req(g), Leg(g)) \in Keys
<1>1. TypeOK /\ Known(g) /\ \A k \in Keys : EntryInv(k)
  BY DEF ServiceInv
<1>2. /\ g[1] \in Searches /\ Req(g) \in Requests /\ Req(g).knownSort \in BOOLEAN
      /\ Key(Req(g), Leg(g)) \in Keys
  BY <1>1, LegFacts DEF Known
<1>3. QED
  BY <1>1, <1>2 DEF TypeOK

\* The cache stays genuine when it is left alone.
LEMMA EntriesStay ==
  ASSUME NEW k \in Keys, EntryInv(k), entries'[k] = entries[k],
         now \in Nat, now' \in Nat, now <= now'
  PROVE  EntryInv(k)'
  BY GenuineStays DEF EntryInv

\* Looking up changes only where the lookup stands, and sometimes reaps an entry: what it has
\* read stays genuine, and a hit has not expired.
LEMMA LookUpKeeps ==
  ASSUME ServiceInv, NEW g \in Goroutines, LookUp(g)
  PROVE  ServiceInv'
<1> DEFINE k == Key(Req(g), Leg(g))
<1>h. /\ leg[g].at = "lookup"
      /\ search' = search /\ gone' = gone /\ leg' = leg /\ slots' = slots /\ outcome' = outcome
      /\ asked' = asked
  BY DEF LookUp
<1>i. /\ TypeOK /\ Known(g) /\ \A j \in Keys : EntryInv(j)
      /\ now \in Nat /\ leg[g] \in LegState /\ gets[g] \in Store!GetState
      /\ slots[g] \in [Providers -> {"pending", "ok", "err"}]
      /\ outcome[g] \in LegOutcome \cup {Absent} /\ k \in Keys
  BY <1>h, LegHas
<1> HIDE DEF k
<1>r. /\ Req(g)' = Req(g) /\ Leg(g)' = Leg(g) /\ k' = k
  BY <1>h DEF Req, Leg, k
<1>c. gets[g].at # "idle" => gets[g].key = k
  BY <1>h, <1>i DEF Known, LookupInv, k
<1>1. SUFFICES /\ now' = now /\ gets' = [gets EXCEPT ![g] = gets'[g]]
               /\ gets'[g] \in Store!GetState /\ gets'[g].at # "idle" /\ gets'[g].key = k
               /\ gets'[g].at = "check" => GenuineEntry(k, gets'[g].found)
               /\ gets'[g].at = "hit" => /\ Genuine(k, gets'[g].value)
                                         /\ now <= gets'[g].value.began + Slack + TTL
               /\ entries' \in [Keys -> Store!Entry \cup {Absent}]
               /\ \A j \in Keys : entries'[j] = Absent \/ entries'[j] = entries[j]
  <2>1. OnlyLegMoves(g) /\ CountFollows(g)
    BY <1>h, <1>1, <1>i DEF OnlyLegMoves, CountFollows, Asked, TypeOK
  <2>2. ASSUME NEW j \in Keys PROVE EntryInv(j)'
    BY <1>1, <1>i, EntriesStay DEF EntryInv
  <2>3. Known(g)'
    <3>1. LegInv(g)'
      BY <1>h, <1>i, <1>1 DEF Known, LegInv, Accepted, LegsOf
    <3>2. LookupInv(g)'
      <4>1. gets'[g].at = "check" => GenuineEntry(gets[g].key, gets[g].found)'
        BY <1>1, <1>i, GenuineStays
      <4>2. gets'[g].at = "hit" => Genuine(gets[g].key, gets[g].value)'
        BY <1>1, <1>i, GenuineStays
      <4>3. QED
        BY <1>h, <1>1, <1>r, <4>1, <4>2 DEF LookupInv, k
    <3>3. OutcomeInv(g)'
      BY <1>h, <1>i DEF Known, OutcomeInv
    <3>4. QED
      BY <3>1, <3>2, <3>3 DEF Known
  <2>4. QED
    BY <1>h, <1>i, <1>1, <2>1, <2>2, <2>3, LegMoves
<1>2. CASE gets[g].at = "idle" /\ Store!GetRead(g, k)
  <2>1. /\ now' = now /\ entries' = entries
        /\ gets' = [gets EXCEPT ![g] = IF entries[k] = Absent THEN Store!Miss(k)
                                       ELSE Store!Checking(k, entries[k])]
    BY <1>2 DEF Store!GetRead
  <2>2. entries \in [Keys -> Store!Entry \cup {Absent}] /\ gets \in [Goroutines -> Store!GetState]
    BY <1>i DEF TypeOK
  <2>3. CASE entries[k] = Absent
    <3>1. gets'[g] = Store!Miss(k) /\ Store!Miss(k) \in Store!GetState
      BY <2>1, <2>2, <2>3, <1>i DEF Store!Miss, Store!GetState
    <3>2. QED
      BY <2>1, <2>2, <2>3, <3>1 DEF Store!Miss
  <2>4. CASE entries[k] # Absent
    <3>1. entries[k] \in Store!Entry /\ GenuineEntry(k, entries[k])
      BY <2>2, <2>4, <1>i DEF EntryInv
    <3>2. /\ gets'[g] = Store!Checking(k, entries[k])
          /\ Store!Checking(k, entries[k]) \in Store!GetState
      BY <2>1, <2>2, <2>4, <3>1, <1>i DEF Store!Checking, Store!GetState
    <3>3. QED
      BY <2>1, <2>2, <3>1, <3>2 DEF Store!Checking
  <2>5. QED
    BY <2>3, <2>4
<1>3. CASE Store!GetCheck(g)
  <2>1. /\ now' = now /\ entries' = entries /\ gets[g].at = "check"
        /\ gets' = [gets EXCEPT ![g] = IF Store!Expired(gets[g].found)
                                       THEN Store!Reaping(gets[g].key)
                                       ELSE Store!Hit(gets[g].key, gets[g].found)]
    BY <1>3 DEF Store!GetCheck
  <2>2. /\ entries \in [Keys -> Store!Entry \cup {Absent}] /\ gets \in [Goroutines -> Store!GetState]
        /\ gets[g].key = k /\ GenuineEntry(k, gets[g].found)
    BY <1>i, <1>c, <2>1 DEF TypeOK, Known, LookupInv
  <2>3. CASE Store!Expired(gets[g].found)
    <3>1. gets'[g] = Store!Reaping(k) /\ Store!Reaping(k) \in Store!GetState
      BY <2>1, <2>2, <2>3, <1>i DEF Store!Reaping, Store!GetState
    <3>2. QED
      BY <2>1, <2>2, <3>1 DEF Store!Reaping
  <2>4. CASE ~Store!Expired(gets[g].found)
    <3> DEFINE e == gets[g].found
    <3>1. /\ e.value \in Aggregate /\ e.expiresAt \in Nat /\ Genuine(k, e.value)
          /\ e.expiresAt <= e.value.began + Slack + TTL /\ now <= e.expiresAt
          /\ e.value.began \in Nat
      BY <2>2, <2>4, <1>i DEF GenuineEntry, Store!Entry, Store!Expired, Aggregate
    <3>2. gets'[g] = Store!Hit(k, e) /\ Store!Hit(k, e) \in Store!GetState
      BY <2>1, <2>2, <2>4, <3>1, <1>i DEF Store!Hit, Store!GetState
    <3>3. now <= e.value.began + Slack + TTL
      BY <3>1, <1>i, SlackFacts
    <3>4. QED
      BY <2>1, <2>2, <3>1, <3>2, <3>3 DEF Store!Hit
  <2>5. QED
    BY <2>3, <2>4
<1>4. CASE Store!GetReap(g)
  <2>1. /\ now' = now /\ gets[g].at = "reap" /\ gets[g].key = k
        /\ gets' = [gets EXCEPT ![g] = Store!Miss(k)] /\ entries' = Store!Reaped(k)
    BY <1>4, <1>c DEF Store!GetReap
  <2>2. entries \in [Keys -> Store!Entry \cup {Absent}] /\ gets \in [Goroutines -> Store!GetState]
    BY <1>i DEF TypeOK
  <2>3. gets'[g] = Store!Miss(k) /\ Store!Miss(k) \in Store!GetState
    BY <2>1, <2>2, <1>i DEF Store!Miss, Store!GetState
  <2>4. QED
    BY <2>1, <2>2, <2>3 DEF Store!Miss, Store!Reaped
<1>5. QED
  BY <1>2, <1>3, <1>4 DEF LookUp, k

\* A fan-out begins at the start of its search: the lookup before it took no time.
LEMMA FanOutKeeps ==
  ASSUME ServiceInv, NEW g \in Goroutines, FanOut(g)
  PROVE  ServiceInv'
<1>h. /\ leg[g].at = "lookup" /\ gets[g].at = "miss"
      /\ leg' = [leg EXCEPT ![g] = [at |-> "fanout", began |-> now]]
      /\ asked' = [asked EXCEPT ![g[1]] = @ + 1]
      /\ UNCHANGED <<now, entries, gets, search, gone, slots, outcome>>
  BY DEF FanOut, storeVars
<1>i. /\ TypeOK /\ Known(g) /\ \A j \in Keys : EntryInv(j)
      /\ now \in Nat /\ gets[g] \in Store!GetState
      /\ slots[g] \in [Providers -> {"pending", "ok", "err"}]
      /\ outcome[g] \in LegOutcome \cup {Absent}
  BY <1>h, LegHas
<1>1. leg'[g] = [at |-> "fanout", began |-> now] /\ leg'[g] \in LegState
  BY <1>h, <1>i DEF TypeOK, LegState
<1>2. OnlyLegMoves(g) /\ CountFollows(g)
  BY <1>h, <1>1, <1>i DEF OnlyLegMoves, CountFollows, Asked, TypeOK
<1>3. ASSUME NEW j \in Keys PROVE EntryInv(j)'
  BY <1>h, <1>i, EntriesStay
<1>4. LegInv(g)'
  BY <1>h, <1>1, <1>i DEF Known, LegInv, Accepted, LegsOf
<1>5. LookupInv(g)' /\ OutcomeInv(g)'
  BY <1>h, <1>1, <1>i DEF Known, LookupInv, OutcomeInv
<1>6. entries' \in [Keys -> Store!Entry \cup {Absent}]
  BY <1>h, <1>i DEF TypeOK
<1>7. QED
  BY <1>h, <1>i, <1>1, <1>2, <1>3, <1>4, <1>5, <1>6, LegMoves DEF Known

\* Filling a slot of a leg that is waiting for it keeps the invariant.
LEMMA SlotKeeps ==
  ASSUME ServiceInv, NEW g \in Goroutines, NEW p \in Providers, Pending(g, p),
         NEW result \in {"ok", "err"}, slots' = [slots EXCEPT ![g][p] = result],
         UNCHANGED <<now, entries, gets, search, gone, leg, outcome, asked>>
  PROVE  ServiceInv'
<1>h. leg[g].at = "fanout"
  BY DEF Pending
<1>i. /\ TypeOK /\ Known(g) /\ \A j \in Keys : EntryInv(j)
      /\ now \in Nat /\ gets[g] \in Store!GetState /\ leg[g] \in LegState
      /\ slots[g] \in [Providers -> {"pending", "ok", "err"}]
      /\ outcome[g] \in LegOutcome \cup {Absent}
  BY <1>h, LegHas
<1>1. /\ slots' = [slots EXCEPT ![g] = slots'[g]]
      /\ slots'[g] \in [Providers -> {"pending", "ok", "err"}]
  BY <1>i DEF TypeOK
<1>2. OnlyLegMoves(g) /\ CountFollows(g)
  BY <1>1, <1>i DEF OnlyLegMoves, CountFollows, Asked, TypeOK
<1>3. ASSUME NEW j \in Keys PROVE EntryInv(j)'
  BY <1>i, EntriesStay
<1>4. LegInv(g)'
  BY <1>h, <1>i DEF Known, LegInv, Accepted, LegsOf
<1>5. LookupInv(g)' /\ OutcomeInv(g)'
  <2>1. gets'[g].at = "check" => GenuineEntry(gets[g].key, gets[g].found)'
    BY <1>i, GenuineStays DEF Known, LookupInv
  <2>2. QED
    BY <2>1, <1>h, <1>i DEF Known, LookupInv, OutcomeInv
<1>6. entries' \in [Keys -> Store!Entry \cup {Absent}]
  BY <1>i DEF TypeOK
<1>7. QED
  BY <1>h, <1>i, <1>1, <1>2, <1>3, <1>4, <1>5, <1>6, LegMoves DEF Known

\* A leg that has its report is done: the invariant is kept if the report is true, and the cache
\* still genuine.
LEMMA DoneKeeps ==
  ASSUME ServiceInv, NEW g \in Goroutines, leg[g].at \in {"lookup", "fanout"},
         leg' = [leg EXCEPT ![g] = [at |-> "done"]],
         NEW o \in LegOutcome, outcome' = [outcome EXCEPT ![g] = o],
         UNCHANGED <<now, gets, search, gone, slots, asked>>,
         entries' \in [Keys -> Store!Entry \cup {Absent}], \A k \in Keys : EntryInv(k)',
         o.age <= TTL + Slack, o.failed => o.flights = {},
         ~o.failed => Shows(g, o) /\ Req(g).knownSort,
         o.hit => leg[g].at = "lookup", ~o.hit => leg[g].at = "fanout",
         Req(g).knownSort /\ Providers # {} =>
             (o.failed <=> \A p \in Providers : slots[g][p] = "err")
  PROVE  ServiceInv'
<1>i. /\ TypeOK /\ Known(g)
      /\ now \in Nat /\ gets[g] \in Store!GetState
      /\ slots[g] \in [Providers -> {"pending", "ok", "err"}]
  BY LegHas
<1>1. leg'[g] = [at |-> "done"] /\ leg'[g] \in LegState /\ outcome'[g] = o
  BY <1>i DEF TypeOK, LegState
<1>2. OnlyLegMoves(g)
  BY <1>1, <1>i DEF OnlyLegMoves, TypeOK
<1>3. CountFollows(g)
  <2>1. Asked(g)' <=> Asked(g)
    BY <1>1 DEF Asked
  <2>2. QED
    BY <2>1 DEF CountFollows
<1>4. LegInv(g)'
  BY <1>1, <1>i DEF Known, LegInv, Accepted, LegsOf
<1>5. LookupInv(g)'
  <2>1. gets'[g].at = "check" => GenuineEntry(gets[g].key, gets[g].found)'
    BY <1>i, GenuineStays DEF Known, LookupInv
  <2>2. QED
    BY <2>1, <1>1, <1>i DEF Known, LookupInv
<1>6. OutcomeInv(g)'
  <2>1. Req(g)' = Req(g) /\ Leg(g)' = Leg(g) /\ (Shows(g, o) => Shows(g, o)')
    BY DEF Req, Leg, Shows
  <2>2. o.hit => \A p \in Providers : slots[g][p] = "pending"
    BY <1>i DEF Known, LegInv
  <2>3. QED
    BY <1>1, <2>1, <2>2 DEF OutcomeInv, Shows
<1>7. QED
  BY <1>i, <1>1, <1>2, <1>3, <1>4, <1>5, <1>6, LegMoves DEF Known

\* A hit is reported as what it is: genuine, and at most a time to live past its fan-out.
LEMMA ServeKeeps ==
  ASSUME ServiceInv, NEW g \in Goroutines, Serve(g)
  PROVE  ServiceInv'
<1> DEFINE a == gets[g].value
           o == SearchedLeg(Req(g), a, TRUE)
<1>h. /\ leg[g].at = "lookup" /\ gets[g].at = "hit"
      /\ leg' = [leg EXCEPT ![g] = [at |-> "done"]] /\ outcome' = [outcome EXCEPT ![g] = o]
      /\ UNCHANGED <<now, entries, gets, search, gone, slots, asked>>
  BY DEF Serve, storeVars
<1>i. /\ TypeOK /\ Known(g) /\ \A k \in Keys : EntryInv(k)
      /\ now \in Nat /\ Req(g).knownSort \in BOOLEAN
      /\ slots[g] \in [Providers -> {"pending", "ok", "err"}]
  BY <1>h, LegHas
<1>1. Genuine(Key(Req(g), Leg(g)), a) /\ now <= a.began + Slack + TTL
  BY <1>h, <1>i DEF Known, LookupInv
<1>2. /\ o \in LegOutcome /\ o.hit = TRUE /\ o.age <= TTL + Slack
      /\ o.failed => o.flights = {}
      /\ o.failed <=> ~Req(g).knownSort
      /\ ~o.failed => Shows(g, o)
  BY <1>1, <1>i, Reports
<1> HIDE DEF o, a
<1>3. Req(g).knownSort /\ Providers # {} => (o.failed <=> \A p \in Providers : slots[g][p] = "err")
  <2>1. \A p \in Providers : slots[g][p] = "pending"
    BY <1>h, <1>i DEF Known, LegInv
  <2>2. QED
    BY <2>1, <1>2
<1>4. entries' \in [Keys -> Store!Entry \cup {Absent}] /\ \A k \in Keys : EntryInv(k)'
  BY <1>h, <1>i, EntriesStay DEF TypeOK
<1>5. /\ o.age <= TTL + Slack /\ (o.failed => o.flights = {})
      /\ (~o.failed => Shows(g, o) /\ Req(g).knownSort)
      /\ (o.hit => leg[g].at = "lookup") /\ (~o.hit => leg[g].at = "fanout")
  BY <1>h, <1>2
<1>6. QED
  BY <1>h, <1>2, <1>3, <1>4, <1>5, DoneKeeps

\* What a fan-out gathers is genuine for the leg's key.
LEMMA GatheredIsGenuine ==
  ASSUME NEW g \in Goroutines, NEW ps \in SUBSET Providers, Providers # {} => ps # {},
         NEW t \in Nat, now \in Nat, t <= now
  PROVE  LET a == Gathered(Req(g), Leg(g), ps, t)
         IN  Genuine(Key(Req(g), Leg(g)), a) /\ a.began = t
<1> DEFINE a    == Gathered(Req(g), Leg(g), ps, t)
           kept == {f \in Received(ps) : Accepts(Req(g), Leg(g), f)}
<1>1. /\ a.flights = kept /\ a.succeeded = ps /\ a.began = t
      /\ a.dropped = Cardinality(Received(ps) \ kept)
      /\ a = [flights |-> kept, succeeded |-> ps,
              dropped |-> Cardinality(Received(ps) \ kept), began |-> t]
  BY DEF Gathered
<1>2. kept \in SUBSET Received(ps) /\ kept \in SUBSET Offers
  BY ReceivedFacts
<1>3. Cardinality(Received(ps) \ kept) \in Nat
  BY <1>2, ReceivedFacts, Parts
<1>4. kept = {f \in Received(ps) : f.sound /\ f.leg = Key(Req(g), Leg(g)).leg
                  /\ f.cabin = Key(Req(g), Leg(g)).cabin
                  /\ f.seats >= Key(Req(g), Leg(g)).passengers}
  BY DEF Accepts, Key
<1> HIDE DEF a, kept
<1>5. a \in Aggregate
  BY <1>1, <1>2, <1>3 DEF Aggregate
<1>6. QED
  BY <1>1, <1>4, <1>5 DEF Genuine, a

\* A fan-out that comes back reports an outage, which leaves the cache alone, or stores and reports
\* what is genuine.
LEMMA GatherKeeps ==
  ASSUME ServiceInv, NEW g \in Goroutines, Gather(g)
  PROVE  ServiceInv'
<1> DEFINE k == Key(Req(g), Leg(g))
           a == Gathered(Req(g), Leg(g), Succeeded(g), leg[g].began)
           o == SearchedLeg(Req(g), a, FALSE)
<1>h. /\ leg[g].at = "fanout" /\ \A p \in Providers : slots[g][p] # "pending"
      /\ leg' = [leg EXCEPT ![g] = [at |-> "done"]]
      /\ UNCHANGED <<now, gets, search, gone, slots, asked>>
  BY DEF Gather
<1>i. /\ TypeOK /\ Known(g) /\ \A j \in Keys : EntryInv(j)
      /\ now \in Nat /\ Req(g).knownSort \in BOOLEAN /\ k \in Keys
      /\ leg[g] \in LegState /\ g[1] \in Searches
      /\ slots[g] \in [Providers -> {"pending", "ok", "err"}]
  BY <1>h, LegHas
<1>s. Succeeded(g) \in SUBSET Providers
  BY DEF Succeeded
<1>1. CASE Succeeded(g) = {} /\ Providers # {}
  <2>1. outcome' = [outcome EXCEPT ![g] = FailedLeg] /\ entries' = entries
    BY <1>1 DEF Gather
  <2>2. /\ FailedLeg \in LegOutcome /\ FailedLeg.failed /\ ~FailedLeg.hit
        /\ FailedLeg.flights = {} /\ FailedLeg.age = 0
    BY ServiceAssumption, FS_CardinalityType DEF FailedLeg, LegOutcome
  <2>3. \A p \in Providers : slots[g][p] = "err"
    BY <1>1, <1>h, <1>i DEF Succeeded
  <2>4. entries' \in [Keys -> Store!Entry \cup {Absent}] /\ \A j \in Keys : EntryInv(j)'
    BY <1>h, <1>i, <2>1, EntriesStay DEF TypeOK
  <2>5. FailedLeg.age <= TTL + Slack
    BY <2>2, SlackFacts
  <2> HIDE DEF k, a, o
  <2>6. QED
    BY <1>h, <2>1, <2>2, <2>3, <2>4, <2>5, DoneKeeps
<1>2. CASE ~(Succeeded(g) = {} /\ Providers # {})
  <2>1. /\ outcome' = [outcome EXCEPT ![g] = o]
        /\ entries' = [entries EXCEPT ![k] = Store!NewEntry(a)]
    BY <1>2 DEF Gather, Store!Put
  <2>2. /\ leg[g].began \in Nat /\ leg[g].began <= now /\ now <= leg[g].began + Slack
    <3>1. leg[g].began \in Nat
      BY <1>h, <1>i DEF LegState
    <3>2. /\ leg[g].began = search[g[1]].started /\ leg[g].began <= now
          /\ search[g[1]].at = "running"
      BY <1>h, <1>i DEF Known, LegInv
    <3>3. SearchInv(g[1])
      BY <1>i DEF ServiceInv
    <3>4. QED
      BY <3>1, <3>2, <3>3 DEF SearchInv
  <2>3. Genuine(k, a) /\ a.began = leg[g].began
    BY <1>2, <1>s, <1>i, <2>2, GatheredIsGenuine
  <2> HIDE DEF k, a
  <2>4. now <= a.began + Slack + TTL
    BY <2>2, <2>3, <1>i, SlackFacts
  <2>5. /\ o \in LegOutcome /\ o.hit = FALSE /\ o.age <= TTL + Slack
        /\ o.failed => o.flights = {}
        /\ o.failed <=> ~Req(g).knownSort
        /\ ~o.failed => Shows(g, o)
    BY <2>3, <2>4, <1>i, Reports DEF k
  <2> HIDE DEF o
  <2>6. Req(g).knownSort /\ Providers # {} =>
            (o.failed <=> \A p \in Providers : slots[g][p] = "err")
    <3>1. Providers # {} => \E p \in Providers : slots[g][p] = "ok"
      BY <1>2 DEF Succeeded
    <3>2. QED
      BY <3>1, <2>5
  <2>7. /\ Store!NewEntry(a) \in Store!Entry
        /\ \A j, e : j = k /\ e = Store!NewEntry(a) => GenuineEntry(j, e)'
    <3>1. now + TTL \in Nat /\ now + TTL <= a.began + Slack + TTL
      BY <2>2, <2>3, <1>i, SlackFacts
    <3>2. Store!NewEntry(a) = [value |-> a, expiresAt |-> now + TTL] /\ a \in Aggregate
      BY <2>3 DEF Store!NewEntry, Genuine
    <3>3. GenuineEntry(k, Store!NewEntry(a)) /\ Store!NewEntry(a) \in Store!Entry
      BY <3>1, <3>2, <2>3 DEF GenuineEntry, Store!Entry
    <3>4. \A j, e : GenuineEntry(j, e) => GenuineEntry(j, e)'
      BY <1>h, <1>i, GenuineStays
    <3>5. QED
      BY <3>3, <3>4
  <2>8. entries' \in [Keys -> Store!Entry \cup {Absent}] /\ \A j \in Keys : EntryInv(j)'
    <3>1. entries' \in [Keys -> Store!Entry \cup {Absent}]
      BY <2>1, <2>7, <1>i DEF TypeOK
    <3>2. ASSUME NEW j \in Keys PROVE EntryInv(j)'
      <4>1. CASE j = k
        <5>1. entries'[j] = Store!NewEntry(a)
          BY <4>1, <2>1, <1>i DEF TypeOK
        <5>2. GenuineEntry(j, entries[j])'
          BY <4>1, <5>1, <2>7
        <5>3. QED
          BY <5>2 DEF EntryInv
      <4>2. CASE j # k
        BY <4>2, <2>1, <1>h, <1>i, EntriesStay DEF TypeOK
      <4>3. QED
        BY <4>1, <4>2
    <3>3. QED
      BY <3>1, <3>2
  <2>9. /\ (~o.failed => Shows(g, o) /\ Req(g).knownSort)
        /\ (o.hit => leg[g].at = "lookup") /\ (~o.hit => leg[g].at = "fanout")
    BY <1>h, <2>5
  <2>10. QED
    BY <1>h, <2>1, <2>5, <2>6, <2>8, <2>9, DoneKeeps
<1>3. QED
  BY <1>1, <1>2

-----------------------------------------------------------------------------
(* The steps of a search.                                                  *)

\* A search that is received starts its legs afresh, or is refused and has none.
LEMMA ReceiveKeeps ==
  ASSUME ServiceInv, NEW s \in Searches, NEW r \in Requests, Receive(s, r)
  PROVE  ServiceInv'
<1>h. /\ search[s].at = "idle"
      /\ UNCHANGED <<now, entries, gets, gone, slots, outcome, asked>>
  BY DEF Receive, storeVars
<1>i. /\ TypeOK /\ now \in Nat
      /\ \A t \in Searches : SearchInv(t) /\ AskedInv(t)
      /\ \A g \in Goroutines : Known(g)
      /\ \A k \in Keys : EntryInv(k)
  BY DEF ServiceInv, TypeOK
<1>r. DOMAIN r.legs \subseteq 1 .. MaxLegs
  BY RequestFacts
\* The search's state, and where its legs are then.
<1>1. /\ search' = [search EXCEPT ![s] = search'[s]] /\ search'[s] \in SearchState
      /\ search'[s].req = r
      /\ \/ search'[s].at = "running" /\ search'[s].started = now
         \/ search'[s].at = "answered" /\ search'[s].code = 400
  BY <1>i DEF Receive, TypeOK, SearchState
<1>2. /\ leg' \in [Goroutines -> LegState]
      /\ \A g \in Goroutines : g[1] # s => leg'[g] = leg[g]
      /\ \A g \in Goroutines : g[1] = s =>
            leg'[g].at = IF search'[s].at = "running" /\ g[2] \in DOMAIN r.legs
                         THEN "lookup" ELSE "off"
  <2>1. ASSUME NEW g \in Goroutines, g[1] = s PROVE leg[g].at = "off"
    BY <1>h, <1>i, <2>1 DEF Known, LegInv, Accepted
  <2>2. CASE r.wellFormed
    <3>1. leg' = [g \in Goroutines |->
                    IF g[1] = s /\ g[2] \in DOMAIN r.legs THEN [at |-> "lookup"] ELSE leg[g]]
          /\ search'[s].at = "running"
      BY <2>2, <1>i DEF Receive, TypeOK
    <3>2. QED
      BY <3>1, <2>1, <1>i DEF TypeOK, LegState
  <2>3. CASE ~r.wellFormed
    <3>1. leg' = leg /\ search'[s].at = "answered"
      BY <2>3, <1>i DEF Receive, TypeOK
    <3>2. QED
      BY <3>1, <2>1, <1>i DEF TypeOK
  <2>4. QED
    BY <2>2, <2>3
<1>3. TypeOK'
  BY <1>h, <1>i, <1>1, <1>2 DEF TypeOK
<1>4. ASSUME NEW k \in Keys PROVE EntryInv(k)'
  BY <1>h, <1>i, EntriesStay
<1>5. ASSUME NEW g \in Goroutines PROVE Known(g)'
  <2>1. CASE g[1] # s
    <3>1. search'[g[1]] = search[g[1]] /\ leg'[g] = leg[g]
      BY <2>1, <1>1, <1>2, <1>i DEF TypeOK, Goroutines
    <3>2. QED
      BY <3>1, <1>h, <1>i, LeftAlone
  <2>2. CASE g[1] = s
    <3>1. leg[g].at = "off"
      BY <1>h, <1>i, <2>2 DEF Known, LegInv, Accepted
    <3>2. gets[g] = Store!Idle /\ outcome[g] = Absent /\ \A p \in Providers : slots[g][p] = "pending"
      BY <3>1, <1>i DEF Known, LegInv, LookupInv, OutcomeInv
    <3>3. /\ leg'[g].at \in {"off", "lookup"}
          /\ leg'[g].at = "lookup" => search'[s].at = "running" /\ g[2] \in DOMAIN r.legs
      BY <1>2, <2>2
    <3>4. g = <<s, g[2]>>
      BY <2>2 DEF Goroutines
    <3>5. LegInv(g)'
      BY <3>2, <3>3, <3>4, <2>2, <1>h, <1>1 DEF LegInv, Accepted, LegsOf
    <3>6. LookupInv(g)' /\ OutcomeInv(g)'
      BY <3>2, <3>3, <1>h DEF LookupInv, OutcomeInv, Store!Idle
    <3>7. QED
      BY <3>5, <3>6 DEF Known
  <2>3. QED
    BY <2>1, <2>2
<1>6. ASSUME NEW t \in Searches PROVE SearchInv(t)'
  <2>1. CASE t # s
    <3>1. search'[t] = search[t] /\ LegsOf(t)' = LegsOf(t) /\ (Accepted(t)' <=> Accepted(t))
          /\ SearchInv(t)
      BY <2>1, <1>1, <1>i DEF TypeOK, LegsOf, Accepted
    <3>2. search[t].at # "idle" => LegsOf(t) \subseteq Goroutines
      BY <1>i, AcceptedFacts
    <3>3. search[t].at # "idle" => \A g \in LegsOf(t) : leg'[g] = leg[g]
      BY <3>2, <2>1, <1>2 DEF LegsOf
    <3>4. StatusOf(t)' = StatusOf(t) /\ AllHits(t)' = AllHits(t)
      BY <3>1, <1>h DEF StatusOf, AllHits
    <3>5. QED
      BY <3>1, <3>3, <3>4, <1>h DEF SearchInv, Accepted
  <2>2. CASE t = s
    <3>1. search'[s].at = "running" => \A g \in LegsOf(s)' : leg'[g].at = "lookup"
      <4> SUFFICES ASSUME search'[s].at = "running", NEW g \in LegsOf(s)' PROVE leg'[g].at = "lookup"
        OBVIOUS
      <4>1. PICK i \in DOMAIN r.legs : g = <<s, i>>
        BY <1>1 DEF LegsOf
      <4>2. g \in Goroutines /\ g[1] = s /\ g[2] \in DOMAIN r.legs
        BY <4>1, <1>r DEF Goroutines
      <4>3. QED
        BY <4>2, <1>2
    <3>2. now <= now + Slack
      BY <1>i, SlackFacts
    <3>3. QED
      BY <2>2, <3>1, <3>2, <1>h, <1>1 DEF SearchInv, Accepted
  <2>3. QED
    BY <2>1, <2>2
<1>7. ASSUME NEW t \in Searches PROVE AskedInv(t)'
  <2>1. ASSUME NEW i \in 1 .. MaxLegs PROVE Asked(<<t, i>>)' <=> Asked(<<t, i>>)
    <3>1. <<t, i>> \in Goroutines /\ <<t, i>>[1] = t
      BY DEF Goroutines
    <3>2. CASE t # s
      BY <3>1, <3>2, <1>2, <1>h DEF Asked
    <3>3. CASE t = s
      <4>1. leg[<<t, i>>].at = "off"
        BY <3>1, <3>3, <1>h, <1>i DEF Known, LegInv, Accepted
      <4>2. leg'[<<t, i>>].at \in {"off", "lookup"}
        BY <3>1, <3>3, <1>2
      <4>3. QED
        BY <4>1, <4>2 DEF Asked
    <3>4. QED
      BY <3>2, <3>3
  <2>2. QED
    BY <2>1, <1>h, <1>i DEF AskedInv
<1>8. QED
  BY <1>3, <1>4, <1>5, <1>6, <1>7 DEF ServiceInv

\* A search that answers has all of its legs done, and they stay as they are.
LEMMA AnswerKeeps ==
  ASSUME ServiceInv, NEW s \in Searches, Answer(s)
  PROVE  ServiceInv'
<1>h. /\ search[s].at = "running" /\ \A g \in LegsOf(s) : leg[g].at = "done"
      /\ search' = [search EXCEPT ![s] = [at |-> "answered", req |-> search[s].req,
                                          code |-> StatusOf(s), hit |-> AllHits(s)]]
      /\ UNCHANGED <<now, entries, gets, gone, leg, slots, outcome, asked>>
  BY DEF Answer, storeVars
<1>i. /\ TypeOK /\ now \in Nat
      /\ \A t \in Searches : SearchInv(t) /\ AskedInv(t)
      /\ \A g \in Goroutines : Known(g)
      /\ \A k \in Keys : EntryInv(k)
  BY DEF ServiceInv, TypeOK
<1>c. StatusOf(s) \in {200, 502} /\ AllHits(s) \in BOOLEAN
  BY DEF StatusOf, AllHits
<1>1. /\ search'[s].at = "answered" /\ search'[s].req = search[s].req
      /\ search'[s].code = StatusOf(s) /\ search'[s].hit = AllHits(s)
      /\ search'[s] \in SearchState
      /\ \A t \in Searches : t # s => search'[t] = search[t]
  <2>1. search[s].req \in Requests
    BY <1>h, <1>i, AcceptedFacts
  <2>2. search'[s] = [at |-> "answered", req |-> search[s].req,
                      code |-> StatusOf(s), hit |-> AllHits(s)]
    BY <1>h, <1>i DEF TypeOK
  <2>3. [at |-> "answered", req |-> search[s].req, code |-> StatusOf(s), hit |-> AllHits(s)]
          \in [at : {"answered"}, req : Requests, code : {200, 502}, hit : BOOLEAN]
    BY <2>1, <1>c
  <2>4. search'[s] \in SearchState
    BY <2>2, <2>3 DEF SearchState
  <2>5. /\ search'[s].at = "answered" /\ search'[s].req = search[s].req
        /\ search'[s].code = StatusOf(s) /\ search'[s].hit = AllHits(s)
    BY <2>2
  <2>6. \A t \in Searches : t # s => search'[t] = search[t]
    BY <1>h, <1>i DEF TypeOK
  <2>7. QED
    BY <2>4, <2>5, <2>6
<1>2. TypeOK'
  BY <1>h, <1>i, <1>1 DEF TypeOK
<1>3. ASSUME NEW k \in Keys PROVE EntryInv(k)'
  BY <1>h, <1>i, EntriesStay
<1>4. ASSUME NEW g \in Goroutines PROVE Known(g)'
  <2>1. CASE g[1] # s
    BY <2>1, <1>1, <1>h, <1>i, LeftAlone DEF Goroutines
  <2>2. CASE g[1] = s
    <3>1. leg[g].at \in {"off", "done"}
      BY <2>2, <1>h, <1>i DEF Known, LegInv, TypeOK, LegState
    <3>2. Req(g)' = Req(g) /\ Leg(g)' = Leg(g) /\ LegsOf(s)' = LegsOf(s)
      BY <2>2, <1>1 DEF Req, Leg, LegsOf
    <3>3. Accepted(s)'
      BY <1>1, <1>c DEF Accepted
    <3>4. LegInv(g)'
      BY <3>1, <3>2, <3>3, <2>2, <1>h, <1>i DEF Known, LegInv
    <3>5. LookupInv(g)'
      <4>1. gets'[g].at = "check" => GenuineEntry(gets[g].key, gets[g].found)'
        BY <1>h, <1>i, GenuineStays DEF Known, LookupInv
      <4>2. QED
        BY <4>1, <3>1, <1>h, <1>i DEF Known, LookupInv
    <3>6. OutcomeInv(g)'
      BY <3>2, <1>h, <1>i DEF Known, OutcomeInv, Shows
    <3>7. QED
      BY <3>4, <3>5, <3>6 DEF Known
  <2>3. QED
    BY <2>1, <2>2
<1>5. ASSUME NEW t \in Searches PROVE SearchInv(t)'
  <2>1. LegsOf(t)' = LegsOf(t)
    BY <1>1 DEF LegsOf
  <2>2. StatusOf(t)' = StatusOf(t) /\ AllHits(t)' = AllHits(t)
    BY <2>1, <1>h DEF StatusOf, AllHits
  <2>3. CASE t = s
    BY <2>1, <2>2, <2>3, <1>1, <1>h DEF SearchInv, Accepted
  <2>4. CASE t # s
    BY <2>1, <2>2, <2>4, <1>1, <1>h, <1>i DEF SearchInv, Accepted
  <2>5. QED
    BY <2>3, <2>4
<1>6. ASSUME NEW t \in Searches PROVE AskedInv(t)'
  BY <1>h, <1>i DEF AskedInv, Asked
<1>7. QED
  BY <1>2, <1>3, <1>4, <1>5, <1>6 DEF ServiceInv

\* A client that leaves changes nothing the invariant speaks of.
LEMMA DisconnectKeeps ==
  ASSUME ServiceInv, NEW s \in Searches, Disconnect(s)
  PROVE  ServiceInv'
<1>h. UNCHANGED <<now, entries, gets, search, leg, slots, outcome, asked>> /\ gone' = gone \cup {s}
  BY DEF Disconnect, storeVars
<1>i. /\ TypeOK /\ now \in Nat
      /\ \A t \in Searches : SearchInv(t) /\ AskedInv(t)
      /\ \A g \in Goroutines : Known(g)
      /\ \A k \in Keys : EntryInv(k)
  BY DEF ServiceInv, TypeOK
<1>1. TypeOK'
  BY <1>h, <1>i DEF TypeOK
<1>2. \A g \in Goroutines : Known(g)'
  BY <1>h, <1>i, LeftAlone
<1>3. \A k \in Keys : EntryInv(k)'
  BY <1>h, <1>i, EntriesStay
<1>4. ASSUME NEW t \in Searches PROVE SearchInv(t)' /\ AskedInv(t)'
  <2>1. LegsOf(t)' = LegsOf(t)
    BY <1>h DEF LegsOf
  <2>2. StatusOf(t)' = StatusOf(t) /\ AllHits(t)' = AllHits(t)
    BY <2>1, <1>h DEF StatusOf, AllHits
  <2>3. QED
    BY <2>1, <2>2, <1>h, <1>i DEF SearchInv, Accepted, AskedInv, Asked
<1>5. QED
  BY <1>1, <1>2, <1>3, <1>4 DEF ServiceInv

\* A search that has to wait for the clock waits for providers, whose deadline has not come.
LEMMA OnlyProvidersAreWaitedFor ==
  ASSUME ServiceInv, Tick, NEW s \in Searches, Running(s)
  PROVE  /\ \A g \in LegsOf(s) : leg[g].at \in {"fanout", "done"}
         /\ now < search[s].started + Slack
<1>i. TypeOK /\ SearchInv(s) /\ ~Ready(s)
  BY DEF ServiceInv, Tick
<1>1. LegsOf(s) \subseteq Goroutines
  BY <1>i, AcceptedFacts DEF Running
<1>2. \A g \in LegsOf(s) : leg[g].at \in {"fanout", "done"}
  BY <1>i, <1>1 DEF SearchInv, Accepted, Running, Ready, TypeOK, LegState
<1>3. PICK g \in LegsOf(s) : leg[g].at # "done"
  BY <1>i DEF Ready
<1>4. leg[g].at = "fanout" /\ g[1] = s
  BY <1>2, <1>3 DEF LegsOf
<1>5. ~(Due(g) <= now) /\ Due(g) = leg[g].began + Slack
  BY <1>i, <1>4 DEF Ready, ContextOver, Due, Slack
<1>6. leg[g].began = search[s].started /\ leg[g].began \in Nat /\ now \in Nat
  <2>1. Known(g) /\ leg[g] \in LegState
    BY <1>1 DEF ServiceInv, TypeOK
  <2>2. QED
    BY <2>1, <1>4, <1>i DEF Known, LegInv, LegState, TypeOK
<1>7. QED
  BY <1>2, <1>5, <1>6, SlackFacts

\* The clock moves past no lookup and no deadline.
LEMMA TickKeeps ==
  ASSUME ServiceInv, Tick
  PROVE  ServiceInv'
<1>h. UNCHANGED <<entries, gets, search, gone, leg, slots, outcome, asked>> /\ now' = now + 1
  BY DEF Tick, storeVars
<1>i. /\ TypeOK /\ now \in Nat /\ now + 1 \in Nat
      /\ \A t \in Searches : SearchInv(t) /\ AskedInv(t)
      /\ \A g \in Goroutines : Known(g)
      /\ \A k \in Keys : EntryInv(k)
  BY DEF ServiceInv, TypeOK
<1>1. TypeOK'
  BY <1>h, <1>i DEF TypeOK
<1>2. \A k \in Keys : EntryInv(k)'
  BY <1>h, <1>i, EntriesStay
<1>3. ASSUME NEW g \in Goroutines PROVE Known(g)'
  <2>1. leg[g].at # "lookup"
    <3> SUFFICES ASSUME leg[g].at = "lookup" PROVE FALSE
      OBVIOUS
    <3>1. g[1] \in Searches /\ Running(g[1]) /\ g \in LegsOf(g[1])
      BY <1>i DEF Known, LegInv, Running, Goroutines
    <3>2. QED
      BY <3>1, OnlyProvidersAreWaitedFor
  <2>2. Req(g)' = Req(g) /\ Leg(g)' = Leg(g) /\ LegsOf(g[1])' = LegsOf(g[1])
    BY <1>h DEF Req, Leg, LegsOf
  <2>3. LegInv(g)'
    <3>1. leg[g].at = "fanout" => leg[g].began \in Nat
      BY <1>i DEF TypeOK, LegState
    <3>2. QED
      BY <2>1, <2>2, <3>1, <1>h, <1>i DEF Known, LegInv, Accepted
  <2>4. LookupInv(g)'
    <3>1. gets'[g].at = "check" => GenuineEntry(gets[g].key, gets[g].found)'
      BY <1>h, <1>i, GenuineStays DEF Known, LookupInv
    <3>2. QED
      BY <2>1, <3>1, <1>h, <1>i DEF Known, LookupInv
  <2>5. OutcomeInv(g)'
    BY <2>2, <1>h, <1>i DEF Known, OutcomeInv, Shows
  <2>6. QED
    BY <2>3, <2>4, <2>5 DEF Known
<1>4. ASSUME NEW t \in Searches PROVE SearchInv(t)' /\ AskedInv(t)'
  <2>1. LegsOf(t)' = LegsOf(t)
    BY <1>h DEF LegsOf
  <2>2. StatusOf(t)' = StatusOf(t) /\ AllHits(t)' = AllHits(t)
    BY <2>1, <1>h DEF StatusOf, AllHits
  <2>3. search[t].at = "running" => now + 1 <= search[t].started + Slack
    <3>1. search[t].at = "running" => search[t].started \in Nat
      BY <1>i DEF TypeOK, SearchState
    <3>2. QED
      BY <3>1, <1>i, OnlyProvidersAreWaitedFor, SlackFacts DEF Running
  <2>4. QED
    BY <2>1, <2>2, <2>3, <1>h, <1>i DEF SearchInv, Accepted, AskedInv, Asked
<1>5. QED
  BY <1>1, <1>2, <1>3, <1>4 DEF ServiceInv

\* A state that stays keeps the invariant.
LEMMA StutterKeeps ==
  ASSUME ServiceInv, UNCHANGED vars
  PROVE  ServiceInv'
<1>i. /\ TypeOK /\ now \in Nat
      /\ \A t \in Searches : SearchInv(t) /\ AskedInv(t)
      /\ \A g \in Goroutines : Known(g)
      /\ \A k \in Keys : EntryInv(k)
  BY DEF ServiceInv, TypeOK
<1>h. UNCHANGED <<now, entries, gets, search, gone, leg, slots, outcome, asked>>
  BY DEF vars
<1>1. TypeOK'
  BY <1>h, <1>i DEF TypeOK
<1>2. \A g \in Goroutines : Known(g)'
  BY <1>h, <1>i, LeftAlone
<1>3. \A k \in Keys : EntryInv(k)'
  BY <1>h, <1>i, EntriesStay
<1>4. ASSUME NEW t \in Searches PROVE SearchInv(t)' /\ AskedInv(t)'
  <2>1. LegsOf(t)' = LegsOf(t)
    BY <1>h DEF LegsOf
  <2>2. StatusOf(t)' = StatusOf(t) /\ AllHits(t)' = AllHits(t)
    BY <2>1, <1>h DEF StatusOf, AllHits
  <2>3. QED
    BY <2>1, <2>2, <1>h, <1>i DEF SearchInv, Accepted, AskedInv, Asked
<1>5. QED
  BY <1>1, <1>2, <1>3, <1>4 DEF ServiceInv

\* Every step of the service keeps the invariant.
LEMMA ServiceStep == ServiceInv /\ [Next]_vars => ServiceInv'
<1> SUFFICES ASSUME ServiceInv, [Next]_vars PROVE ServiceInv'
  OBVIOUS
<1>1. CASE Tick
  BY <1>1, TickKeeps
<1>2. ASSUME NEW s \in Searches, NEW r \in Requests, Receive(s, r) PROVE ServiceInv'
  BY <1>2, ReceiveKeeps
<1>3. ASSUME NEW s \in Searches, Running(s), Work(s) PROVE ServiceInv'
  <2>1. LegsOf(s) \subseteq Goroutines
    BY <1>3, AcceptedFacts DEF ServiceInv, Running
  <2>2. ASSUME NEW g \in LegsOf(s), LookUp(g) PROVE ServiceInv'
    BY <2>1, <2>2, LookUpKeeps
  <2>3. ASSUME NEW g \in LegsOf(s), Serve(g) PROVE ServiceInv'
    BY <2>1, <2>3, ServeKeeps
  <2>4. ASSUME NEW g \in LegsOf(s), FanOut(g) PROVE ServiceInv'
    BY <2>1, <2>4, FanOutKeeps
  <2>5. ASSUME NEW g \in LegsOf(s), NEW p \in Providers, CutOff(g, p) PROVE ServiceInv'
    <3>1. /\ Pending(g, p) /\ slots' = [slots EXCEPT ![g][p] = "err"]
          /\ UNCHANGED <<now, entries, gets, search, gone, leg, outcome, asked>>
      BY <2>5 DEF CutOff, storeVars
    <3>2. QED
      BY <2>1, <3>1, SlotKeeps
  <2>6. ASSUME NEW g \in LegsOf(s), Gather(g) PROVE ServiceInv'
    BY <2>1, <2>6, GatherKeeps
  <2>7. CASE Answer(s)
    BY <2>7, AnswerKeeps
  <2>8. QED
    BY <1>3, <2>2, <2>3, <2>4, <2>5, <2>6, <2>7 DEF Work
<1>4. ASSUME NEW g \in Goroutines, NEW p \in Providers, ProviderAnswers(g, p) PROVE ServiceInv'
  <2>1. PICK result \in {"ok", "err"} : slots' = [slots EXCEPT ![g][p] = result]
    BY <1>4 DEF ProviderAnswers
  <2>2. /\ Pending(g, p)
        /\ UNCHANGED <<now, entries, gets, search, gone, leg, outcome, asked>>
    BY <1>4 DEF ProviderAnswers, storeVars
  <2>3. QED
    BY <2>1, <2>2, SlotKeeps
<1>5. ASSUME NEW s \in Searches, Disconnect(s) PROVE ServiceInv'
  BY <1>5, DisconnectKeeps
<1>6. CASE UNCHANGED vars
  BY <1>6, StutterKeeps
<1>7. QED
  BY <1>1, <1>2, <1>3, <1>4, <1>5, <1>6 DEF Next, Quiet

\* The service starts with nothing cached, nothing asked and nothing running.
LEMMA ServiceInit == Init => ServiceInv
<1> SUFFICES ASSUME Init PROVE ServiceInv
  OBVIOUS
<1>1. TypeOK
  BY DEF Init, TypeOK, SearchState, LegState, Store!GetState, Store!Idle
<1>2. \A k \in Keys : EntryInv(k)
  BY DEF Init, EntryInv
<1>3. ASSUME NEW s \in Searches PROVE SearchInv(s) /\ AskedInv(s)
  <2>1. search[s].at = "idle" /\ asked[s] = 0
    BY DEF Init
  <2>2. \A i \in 1 .. MaxLegs : ~Asked(<<s, i>>)
    BY DEF Init, Asked, Goroutines
  <2>3. SearchInv(s)
    BY <2>1 DEF SearchInv, Accepted
  <2>4. ~(asked[s] > 0)
    BY <2>1
  <2>5. QED
    BY <2>2, <2>3, <2>4, Zenon DEF AskedInv
<1>4. \A g \in Goroutines : Known(g)
  BY DEF Init, Known, LegInv, LookupInv, OutcomeInv, Store!Idle
<1>5. QED
  BY <1>1, <1>2, <1>3, <1>4 DEF ServiceInv

\* The invariant holds in every reachable state.
LEMMA ServiceInvariant == Spec => []ServiceInv
  BY ServiceInit, ServiceStep, PTL DEF Spec

-----------------------------------------------------------------------------
(* What the service guarantees.                                            *)

\* A leg whose answer is there is done, and one of its search's.
LEMMA ReportedLeg ==
  ASSUME ServiceInv, NEW g \in Goroutines, outcome[g] # Absent
  PROVE  leg[g].at = "done" /\ LegInv(g) /\ OutcomeInv(g)
  BY DEF ServiceInv, Known, OutcomeInv

\* Searches, legs, cache and clock have their types throughout (search.go, legs.go).
THEOREM TypeCorrect == Spec => []TypeOK
<1>1. ServiceInv => TypeOK
  BY DEF ServiceInv
<1>2. QED
  BY <1>1, ServiceInvariant, PTL

\* Every flight a caller is shown is for that caller's leg, cabin, party and filters, whichever
\* search filled the cache entry it comes from, and with whatever filters of its own.
THEOREM FlightsFitTheirCaller == Spec => []AnswersMatchRequest
<1>1. ASSUME ServiceInv PROVE AnswersMatchRequest
  <2>1. SUFFICES ASSUME NEW g \in Goroutines, outcome[g] # Absent, NEW f \in outcome[g].flights
                 PROVE  Answers(Req(g), Leg(g), f)
    BY DEF AnswersMatchRequest
  <2>2. outcome[g].flights = Promise!Shown(Req(g), Leg(g), outcome[g].succeeded)
    <3>1. outcome[g].failed \in BOOLEAN /\ (outcome[g].failed => outcome[g].flights = {})
      BY <2>1, <1>1, ReportedLeg DEF OutcomeInv, LegOutcome
    <3>2. ~outcome[g].failed
      BY <2>1, <3>1
    <3>3. QED
      BY <2>1, <1>1, <3>2, ReportedLeg DEF OutcomeInv, Shows
  <2>3. Promise!Fits(Req(g), Leg(g), f)
    BY <2>1, <2>2 DEF Promise!Shown
  <2>4. QED
    BY <2>3 DEF Promise!Fits, Answers
<1>2. QED
  BY <1>1, ServiceInvariant, PTL

\* No cached aggregate comes from a fan-out on which every provider failed: an outage is forgotten
\* with the search that met it.
THEOREM OutagesAreForgotten ==
  ASSUME Providers # {}
  PROVE  Spec => []OutageIsNotCached
<1>1. ServiceInv => OutageIsNotCached
  BY DEF ServiceInv, EntryInv, GenuineEntry, Genuine, OutageIsNotCached
<1>2. QED
  BY <1>1, ServiceInvariant, PTL

\* A cached aggregate is all its providers have for the key, and nothing else: no caller's filter
\* or order is left in it, and no offer of another leg, cabin or party.
THEOREM CacheServesEveryone == Spec => []CacheIsUnfiltered
<1>1. ServiceInv => CacheIsUnfiltered
  BY DEF ServiceInv, EntryInv, GenuineEntry, Genuine, CacheIsUnfiltered
<1>2. QED
  BY <1>1, ServiceInvariant, PTL

\* On every leg that succeeds, offers returned, dropped, filtered out and merged away are all the
\* offers its providers sent, and every provider is counted once.
THEOREM CountsAddUp == Spec => []ResultsConserved
<1>1. ASSUME ServiceInv PROVE ResultsConserved
  BY <1>1, ReportedLeg DEF ResultsConserved, OutcomeInv, Shows
<1>2. QED
  BY <1>1, ServiceInvariant, PTL

\* What a leg reports was asked for at most a time to live and one fan-out before, however often
\* the entry has been hit and however long its fan-out took.
THEOREM NothingStaleIsServed == Spec => []AnswersAreRecent
<1>1. ASSUME ServiceInv PROVE AnswersAreRecent
  BY <1>1, ReportedLeg DEF AnswersAreRecent, OutcomeInv, Slack
<1>2. QED
  BY <1>1, ServiceInvariant, PTL

\* No search runs longer than the smaller of its two timeouts, whatever its providers do.
THEOREM SearchesEndInTime == Spec => []BackInBudget
<1>1. ServiceInv => BackInBudget
  BY DEF ServiceInv, SearchInv, BackInBudget, Running, Slack
<1>2. QED
  BY <1>1, ServiceInvariant, PTL

\* An answered search that was accepted has a status, a code and legs that are done.
LEMMA AnsweredSearch ==
  ASSUME ServiceInv, NEW s \in Searches, search[s].at = "answered", search[s].code # 400
  PROVE  /\ SearchInv(s) /\ AskedInv(s) /\ LegsOf(s) \subseteq Goroutines
         /\ search[s].req \in Requests /\ search[s].hit \in BOOLEAN
         /\ \A g \in LegsOf(s) : g[1] = s /\ leg[g].at = "done" /\ OutcomeInv(g)
<1>1. TypeOK /\ SearchInv(s) /\ AskedInv(s)
  BY DEF ServiceInv
<1>2. LegsOf(s) \subseteq Goroutines /\ search[s].req \in Requests
  BY <1>1, AcceptedFacts
<1>3. search[s] \in SearchState
  BY <1>1 DEF TypeOK
<1>4. search[s].hit \in BOOLEAN
  BY <1>3 DEF SearchState
<1>5. ASSUME NEW g \in LegsOf(s) PROVE g[1] = s /\ leg[g].at = "done" /\ OutcomeInv(g)
  BY <1>1, <1>2, <1>5 DEF ServiceInv, Known, SearchInv, LegsOf
<1>6. QED
  BY <1>1, <1>2, <1>4, <1>5

\* A search whose order is known is a 502 exactly if every provider failed it on every leg: a leg
\* from the cache, or one provider's answer, makes it a 200.
THEOREM FailureMeansTotalFailure ==
  ASSUME Providers # {}
  PROVE  Spec => []OnlyTotalFailureIs502
<1>1. ASSUME ServiceInv PROVE OnlyTotalFailureIs502
  <2>1. SUFFICES ASSUME NEW s \in Searches, search[s].at = "answered", search[s].code # 400,
                        search[s].req.knownSort
                 PROVE  search[s].code = 502 <=>
                          \A g \in LegsOf(s), p \in Providers : slots[g][p] = "err"
    BY DEF OnlyTotalFailureIs502
  <2>2. search[s].code = 502 <=> \A g \in LegsOf(s) : outcome[g].failed
    BY <1>1, <2>1, AnsweredSearch DEF SearchInv, StatusOf
  <2>3. \A g \in LegsOf(s) : outcome[g].failed <=> \A p \in Providers : slots[g][p] = "err"
    BY <1>1, <2>1, AnsweredSearch DEF OutcomeInv, Req
  <2>4. (\A g \in LegsOf(s) : outcome[g].failed) <=>
           \A g \in LegsOf(s) : \A p \in Providers : slots[g][p] = "err"
    BY <2>3, Zenon
  <2>5. QED
    BY <2>2, <2>4
<1>2. QED
  BY <1>1, ServiceInvariant, PTL

\* A search says it was served from the cache exactly if no goroutine of it called a provider.
THEOREM HitsAreFree == Spec => []HitMeansNoCalls
<1>1. ASSUME ServiceInv PROVE HitMeansNoCalls
  <2>1. SUFFICES ASSUME NEW s \in Searches, search[s].at = "answered", search[s].code # 400
                 PROVE  search[s].hit <=> asked[s] = 0
    BY DEF HitMeansNoCalls
  <2>2. search[s].hit <=> \A g \in LegsOf(s) : outcome[g].hit
    BY <1>1, <2>1, AnsweredSearch DEF SearchInv, AllHits
  <2>3. asked[s] \in Nat
    BY <1>1 DEF ServiceInv, TypeOK
  <2>4. asked[s] = 0 <=> \A i \in 1 .. MaxLegs : ~Asked(<<s, i>>)
    <3>1. asked[s] > 0 <=> \E i \in 1 .. MaxLegs : Asked(<<s, i>>)
      BY <1>1, <2>1, AnsweredSearch DEF AskedInv
    <3>2. asked[s] = 0 <=> ~(asked[s] > 0)
      BY <2>3
    <3>3. QED
      BY <3>1, <3>2, Zenon
  <2>5. ASSUME NEW g \in LegsOf(s) PROVE outcome[g].hit <=> ~Asked(g)
    BY <1>1, <2>1, AnsweredSearch DEF Asked
  <2>6. ASSUME NEW i \in 1 .. MaxLegs, <<s, i>> \notin LegsOf(s) PROVE ~Asked(<<s, i>>)
    <3>1. <<s, i>> \in Goroutines /\ <<s, i>>[1] = s
      BY DEF Goroutines
    <3>2. leg[<<s, i>>].at = "off"
      BY <1>1, <2>6, <3>1 DEF ServiceInv, Known, LegInv
    <3>3. QED
      BY <3>2 DEF Asked
  <2>7. \A g \in LegsOf(s) : \E i \in 1 .. MaxLegs : g = <<s, i>>
    BY <1>1, <2>1, AnsweredSearch DEF LegsOf, Goroutines
  <2>8. (\A g \in LegsOf(s) : outcome[g].hit) <=> \A i \in 1 .. MaxLegs : ~Asked(<<s, i>>)
    BY <2>5, <2>6, <2>7, Zenon
  <2>9. QED
    BY <2>2, <2>4, <2>8, Zenon
<1>2. QED
  BY <1>1, ServiceInvariant, PTL

-----------------------------------------------------------------------------
(* The service implements FlightSearch: every step of the service is a     *)
(* step of the promise, or says nothing to any caller.                     *)

\* While no search is received or answered, callers are told nothing: a leg reports to a search
\* that is still running.
LEMMA ToldNothing ==
  ASSUME TypeOK, search' = search,
         \A g \in Goroutines : search[g[1]].at # "running" => outcome'[g] = outcome[g]
  PROVE  ToldSearch' = ToldSearch /\ ToldAnswer' = ToldAnswer
<1>1. ToldSearch' = ToldSearch
  BY DEF ToldSearch
<1>2. ASSUME NEW s \in Searches, search[s].at = "answered", search[s].code # 400,
             NEW i \in DOMAIN search[s].req.legs
      PROVE  outcome'[<<s, i>>] = outcome[<<s, i>>]
  <2>1. <<s, i>> \in Goroutines
    BY <1>2, AcceptedFacts DEF LegsOf
  <2>2. search[<<s, i>>[1]].at # "running"
    BY <1>2
  <2>3. QED
    BY <2>1, <2>2
<1>3. ASSUME NEW s \in Searches PROVE ToldAnswer'[s] = ToldAnswer[s]
  <2>1. CASE search[s].at = "answered" /\ search[s].code # 400
    <3>1. \A i \in DOMAIN search[s].req.legs :
             ToldLeg(outcome'[<<s, i>>]) = ToldLeg(outcome[<<s, i>>])
      BY <1>2, <2>1
    <3>2. ToldAnswer[s] = [i \in DOMAIN search[s].req.legs |-> ToldLeg(outcome[<<s, i>>])]
      BY <2>1 DEF ToldAnswer
    <3>3. ToldAnswer'[s] = [i \in DOMAIN search[s].req.legs |-> ToldLeg(outcome'[<<s, i>>])]
      BY <2>1 DEF ToldAnswer, ToldLeg
    <3>4. QED
      BY <3>1, <3>2, <3>3, Zenon
  <2>2. CASE ~(search[s].at = "answered" /\ search[s].code # 400)
    BY <2>2 DEF ToldAnswer
  <2>3. QED
    BY <2>1, <2>2
<1>4. QED
  BY <1>1, <1>3 DEF ToldAnswer

\* A search that is received or refused is told so, and no caller is told anything of a leg.
LEMMA ToldReceived ==
  ASSUME TypeOK, NEW s \in Searches, search[s].at = "idle", NEW v,
         search' = [search EXCEPT ![s] = v], v.at # "answered" \/ v.code = 400,
         outcome' = outcome
  PROVE  /\ ToldSearch[s] = search[s]
         /\ ToldSearch' = [ToldSearch EXCEPT ![s] = v] /\ ToldAnswer' = ToldAnswer
<1>1. search'[s] = v /\ \A t \in Searches : t # s => search'[t] = search[t]
  BY DEF TypeOK
<1>2. ToldSearch[s] = search[s] /\ ToldSearch'[s] = v
  BY <1>1 DEF ToldSearch
<1>3. ASSUME NEW t \in Searches, t # s
      PROVE  ToldSearch'[t] = ToldSearch[t] /\ ToldAnswer'[t] = ToldAnswer[t]
  <2>1. search'[t] = search[t]
    BY <1>1, <1>3
  <2>2. ToldSearch'[t] = ToldSearch[t]
    BY <2>1 DEF ToldSearch
  <2>3. CASE search[t].at = "answered" /\ search[t].code # 400
    <3>1. ToldAnswer[t] = [i \in DOMAIN search[t].req.legs |-> ToldLeg(outcome[<<t, i>>])]
      BY <2>3 DEF ToldAnswer
    <3>2. ToldAnswer'[t] = [i \in DOMAIN search'[t].req.legs |-> ToldLeg(outcome'[<<t, i>>])]
      BY <2>1, <2>3 DEF ToldAnswer, ToldLeg
    <3>3. ToldAnswer'[t] = ToldAnswer[t]
      <4>1. /\ DOMAIN search'[t].req.legs = DOMAIN search[t].req.legs
            /\ \A i : ToldLeg(outcome'[<<t, i>>]) = ToldLeg(outcome[<<t, i>>])
        BY <2>1
      <4>2. QED
        BY <3>1, <3>2, <4>1
    <3>4. QED
      BY <2>2, <3>3
  <2>4. CASE ~(search[t].at = "answered" /\ search[t].code # 400)
    BY <2>1, <2>2, <2>4 DEF ToldAnswer
  <2>5. QED
    BY <2>3, <2>4
<1>4. /\ ToldSearch = [t \in Searches |-> ToldSearch[t]]
      /\ ToldSearch' = [t \in Searches |-> ToldSearch'[t]]
      /\ ToldAnswer = [t \in Searches |-> ToldAnswer[t]]
      /\ ToldAnswer' = [t \in Searches |-> ToldAnswer'[t]]
  BY DEF ToldSearch, ToldAnswer
<1>5. ToldSearch' = [ToldSearch EXCEPT ![s] = v]
  BY <1>2, <1>3, <1>4
<1>6. ToldAnswer[s] = <<>> /\ ToldAnswer'[s] = <<>>
  BY <1>1 DEF ToldAnswer
<1>7. ToldAnswer' = ToldAnswer
  BY <1>3, <1>4, <1>6
<1>8. QED
  BY <1>2, <1>5, <1>7

\* What a finished leg tells is what FlightSearch allows it to: the flights its providers have, or
\* a failure that names nobody.
LEMMA ToldLegIs ==
  ASSUME TypeOK, Providers # {}, NEW g \in Goroutines, LegInv(g), OutcomeInv(g),
         leg[g].at = "done"
  PROVE  LET o == outcome[g]
             t == ToldLeg(o)
         IN  /\ t.from \in SUBSET Providers /\ t.age \in 0 .. (TTL + Slack)
             /\ o.failed <=> t.from = {}
             /\ Req(g).knownSort \/ t.from = {}
             /\ t = Promise!LegAnswer(Req(g), Leg(g), t.from, t.age)
<1> DEFINE o == outcome[g]
           t == ToldLeg(o)
<1>1. /\ o \in LegOutcome /\ o.age <= TTL + Slack
      /\ ~o.failed => Shows(g, o) /\ Req(g).knownSort
  BY DEF OutcomeInv
<1>2. o.failed \in BOOLEAN /\ o.age \in Nat /\ o.succeeded \in SUBSET Providers
  BY <1>1 DEF LegOutcome
<1> HIDE DEF o
<1>3. CASE o.failed
  <2>1. t = [from |-> {}, flights |-> {}, age |-> 0]
    BY <1>3 DEF ToldLeg
  <2>2. t.from = {} /\ t.age = 0 /\ 0 \in 0 .. (TTL + Slack)
    BY <2>1, SlackFacts
  <2>3. t = Promise!LegAnswer(Req(g), Leg(g), t.from, t.age)
    BY <2>1, <2>2 DEF Promise!LegAnswer
  <2>4. QED
    BY <1>3, <2>2, <2>3 DEF o
<1>4. CASE ~o.failed
  <2>1. t = [from |-> o.succeeded, flights |-> o.flights, age |-> o.age]
    BY <1>4 DEF ToldLeg
  <2>2. o.succeeded # {} /\ o.flights = Promise!Shown(Req(g), Leg(g), o.succeeded)
    BY <1>1, <1>4 DEF Shows
  <2>3. /\ t.from = o.succeeded /\ t.from # {} /\ t.from \in SUBSET Providers
        /\ t.age = o.age /\ t.age \in 0 .. (TTL + Slack)
    BY <1>1, <1>2, <2>1, <2>2, SlackFacts
  <2>4. t = Promise!LegAnswer(Req(g), Leg(g), t.from, t.age)
    BY <2>1, <2>2, <2>3 DEF Promise!LegAnswer
  <2>5. QED
    BY <1>1, <1>4, <2>3, <2>4 DEF o
<1>5. QED
  BY <1>2, <1>3, <1>4

\* Answering a search is FlightSearch's Answer: each leg's providers and age are what the leg has
\* reported, and only failed legs name no provider.
LEMMA ToldAnswered ==
  ASSUME ServiceInv, Providers # {}, NEW s \in Searches, Answer(s)
  PROVE  Promise!Answer(s)
<1> DEFINE r    == ToldSearch[s].req
           told == [i \in DOMAIN r.legs |-> ToldLeg(outcome[<<s, i>>])]
           from == [i \in DOMAIN r.legs |-> told[i].from]
           age  == [i \in DOMAIN r.legs |-> told[i].age]
           v    == [at |-> "answered", req |-> r, code |-> StatusOf(s)]
<1>1. /\ TypeOK /\ search[s].at = "running" /\ \A g \in LegsOf(s) : leg[g].at = "done"
      /\ search' = [search EXCEPT ![s] = [at |-> "answered", req |-> search[s].req,
                                          code |-> StatusOf(s), hit |-> AllHits(s)]]
      /\ UNCHANGED <<now, outcome>>
  BY DEF ServiceInv, Answer
<1>r. ToldSearch[s] = search[s] /\ r = search[s].req
  BY <1>1 DEF ToldSearch
<1> HIDE DEF r
<1>2. /\ search'[s].at = "answered" /\ search'[s].req = r /\ search'[s].code = StatusOf(s)
      /\ \A t \in Searches : t # s => search'[t] = search[t]
  BY <1>1, <1>r DEF TypeOK
<1>3. StatusOf(s) # 400
  BY DEF StatusOf
<1>4. r \in Requests /\ LegsOf(s) \subseteq Goroutines
  BY <1>1, <1>r, AcceptedFacts
<1>5. ASSUME NEW i \in DOMAIN r.legs
      PROVE  /\ told[i].from \in SUBSET Providers /\ told[i].age \in 0 .. (TTL + Slack)
             /\ outcome[<<s, i>>].failed <=> from[i] = {}
             /\ r.knownSort \/ from[i] = {}
             /\ told[i] = Promise!LegAnswer(r, r.legs[i], from[i], age[i])
  <2>1. <<s, i>> \in LegsOf(s)
    BY <1>r DEF LegsOf
  <2>2. <<s, i>> \in Goroutines /\ leg[<<s, i>>].at = "done"
    BY <1>1, <1>4, <2>1
  <2>3. LegInv(<<s, i>>) /\ OutcomeInv(<<s, i>>)
    BY <2>2 DEF ServiceInv, Known
  <2>4. Req(<<s, i>>) = r /\ Leg(<<s, i>>) = r.legs[i]
    BY <1>r DEF Req, Leg
  <2>5. told[i] = ToldLeg(outcome[<<s, i>>]) /\ from[i] = told[i].from /\ age[i] = told[i].age
    OBVIOUS
  <2> HIDE DEF told, from, age
  <2>6. QED
    BY <1>1, <2>2, <2>3, <2>4, <2>5, ToldLegIs
<1>6. from \in [DOMAIN r.legs -> SUBSET Providers] /\ age \in [DOMAIN r.legs -> 0 .. (TTL + Slack)]
  BY <1>5
<1>7. r.knownSort \/ \A i \in DOMAIN r.legs : from[i] = {}
  BY <1>5, Zenon
<1>8. StatusOf(s) = IF \A i \in DOMAIN r.legs : from[i] = {} THEN 502 ELSE 200
  <2>1. (\A g \in LegsOf(s) : outcome[g].failed) <=> \A i \in DOMAIN r.legs : outcome[<<s, i>>].failed
    BY <1>r DEF LegsOf
  <2>2. (\A i \in DOMAIN r.legs : outcome[<<s, i>>].failed) <=> \A i \in DOMAIN r.legs : from[i] = {}
    BY <1>5, Zenon
  <2>3. QED
    BY <2>1, <2>2 DEF StatusOf
<1>9. ToldSearch' = [ToldSearch EXCEPT ![s] = v]
  <2>1. ToldSearch'[s] = v
    BY <1>2, <1>3 DEF ToldSearch
  <2>2. \A t \in Searches : t # s => ToldSearch'[t] = ToldSearch[t]
    BY <1>2 DEF ToldSearch
  <2>3. /\ ToldSearch = [t \in Searches |-> ToldSearch[t]]
        /\ ToldSearch' = [t \in Searches |-> ToldSearch'[t]]
    BY DEF ToldSearch
  <2> HIDE DEF v
  <2>4. QED
    BY <2>1, <2>2, <2>3
<1>10. ToldAnswer' = [ToldAnswer EXCEPT ![s] = told]
  <2>1. ToldAnswer'[s] = told
    <3>1. ToldAnswer'[s] = [i \in DOMAIN search'[s].req.legs |-> ToldLeg(outcome'[<<s, i>>])]
      BY <1>2, <1>3 DEF ToldAnswer, ToldLeg
    <3>2. /\ DOMAIN search'[s].req.legs = DOMAIN r.legs
          /\ \A i : ToldLeg(outcome'[<<s, i>>]) = ToldLeg(outcome[<<s, i>>])
      BY <1>1, <1>2
    <3>3. QED
      BY <3>1, <3>2
  <2>2. ASSUME NEW t \in Searches, t # s PROVE ToldAnswer'[t] = ToldAnswer[t]
    <3>1. search'[t] = search[t]
      BY <1>2, <2>2
    <3>2. CASE search[t].at = "answered" /\ search[t].code # 400
      <4>1. ToldAnswer[t] = [i \in DOMAIN search[t].req.legs |-> ToldLeg(outcome[<<t, i>>])]
        BY <3>2 DEF ToldAnswer
      <4>2. ToldAnswer'[t] = [i \in DOMAIN search'[t].req.legs |-> ToldLeg(outcome'[<<t, i>>])]
        BY <3>1, <3>2 DEF ToldAnswer, ToldLeg
      <4>3. /\ DOMAIN search'[t].req.legs = DOMAIN search[t].req.legs
            /\ \A i : ToldLeg(outcome'[<<t, i>>]) = ToldLeg(outcome[<<t, i>>])
        BY <1>1, <3>1
      <4>4. QED
        BY <4>1, <4>2, <4>3
    <3>3. CASE ~(search[t].at = "answered" /\ search[t].code # 400)
      BY <3>1, <3>3 DEF ToldAnswer
    <3>4. QED
      BY <3>2, <3>3
  <2>3. /\ ToldAnswer = [t \in Searches |-> ToldAnswer[t]]
        /\ ToldAnswer' = [t \in Searches |-> ToldAnswer'[t]]
    BY DEF ToldAnswer
  <2> HIDE DEF told
  <2>4. QED
    BY <2>1, <2>2, <2>3
<1>11. told = [i \in DOMAIN r.legs |-> Promise!LegAnswer(r, r.legs[i], from[i], age[i])]
  <2>1. \A i \in DOMAIN r.legs : told[i] = Promise!LegAnswer(r, r.legs[i], from[i], age[i])
    BY <1>5
  <2>2. told = [i \in DOMAIN r.legs |-> told[i]]
    OBVIOUS
  <2> HIDE DEF told, from, age
  <2>3. QED
    BY <2>1, <2>2, Zenon
<1>12. ToldSearch[s].at = "running" /\ now' = now
  BY <1>1, <1>r
<1> HIDE DEF told, from, age
<1>13. ToldSearch' = [ToldSearch EXCEPT ![s] =
                       [at |-> "answered", req |-> r,
                        code |-> IF \A i \in DOMAIN r.legs : from[i] = {} THEN 502 ELSE 200]]
  BY <1>8, <1>9, Zenon DEF v
<1>14. ToldAnswer' = [ToldAnswer EXCEPT ![s] =
                       [i \in DOMAIN r.legs |-> Promise!LegAnswer(r, r.legs[i], from[i], age[i])]]
  BY <1>10, <1>11, Zenon
<1>15. \E f \in [DOMAIN r.legs -> SUBSET Providers], a \in [DOMAIN r.legs -> 0 .. (TTL + Slack)] :
          /\ r.knownSort \/ \A i \in DOMAIN r.legs : f[i] = {}
          /\ ToldSearch' = [ToldSearch EXCEPT ![s] =
                              [at |-> "answered", req |-> r,
                               code |-> IF \A i \in DOMAIN r.legs : f[i] = {} THEN 502 ELSE 200]]
          /\ ToldAnswer' = [ToldAnswer EXCEPT ![s] =
                              [i \in DOMAIN r.legs |-> Promise!LegAnswer(r, r.legs[i], f[i], a[i])]]
  BY <1>6, <1>7, <1>13, <1>14, Zenon
<1>16. QED
  BY <1>12, <1>15, Zenon DEF Promise!Answer, Slack, r

\* Callers of the service cannot tell it from one without a cache, without goroutines and without
\* other searches, where each leg asks some of the providers itself, not long ago, and time stops
\* rather than run past a search's budget (search.go: Search, searchLegs, searchLeg, aggregate).
THEOREM ServesAsPromised ==
  ASSUME Providers # {}
  PROVE  Spec => ImplementsFlightSearch
<1>1. Init => Promise!Init
  <2>1. SUFFICES ASSUME Init PROVE Promise!Init
    OBVIOUS
  <2>2. \A s \in Searches : search[s] = [at |-> "idle"] /\ search[s].at # "answered"
    BY <2>1 DEF Init
  <2>3. ToldSearch = [s \in Searches |-> [at |-> "idle"]]
    BY <2>2 DEF ToldSearch
  <2>4. ToldAnswer = [s \in Searches |-> <<>>]
    BY <2>2 DEF ToldAnswer
  <2>5. QED
    BY <2>1, <2>3, <2>4 DEF Init, Promise!Init
<1>2. ServiceInv /\ ServiceInv' /\ [Next]_vars => [Promise!Next]_(Promise!vars)
  <2> SUFFICES ASSUME ServiceInv, ServiceInv', [Next]_vars
               PROVE  Promise!Next \/ UNCHANGED <<now, ToldSearch, ToldAnswer>>
    BY DEF Promise!vars
  <2>t. TypeOK /\ TypeOK'
    BY DEF ServiceInv
  <2>1. CASE Tick
    <3>1. now' = now + 1 /\ search' = search /\ outcome' = outcome
      BY <2>1 DEF Tick
    <3>2. ToldSearch' = ToldSearch /\ ToldAnswer' = ToldAnswer
      BY <2>t, <3>1, ToldNothing
    <3>3. ASSUME NEW s \in Searches, ToldSearch[s].at = "running"
          PROVE  now < ToldSearch[s].started + Slack
      <4>1. search[s].at = "running" /\ ToldSearch[s] = search[s]
        BY <3>3 DEF ToldSearch
      <4>2. now' <= search'[s].started + Slack
        BY <3>1, <4>1 DEF ServiceInv, SearchInv
      <4>3. search[s].started \in Nat /\ now \in Nat
        <5>1. search[s] \in SearchState /\ now \in Nat
          BY <2>t DEF TypeOK
        <5>2. QED
          BY <4>1, <5>1 DEF SearchState
      <4>4. QED
        BY <3>1, <4>1, <4>2, <4>3, SlackFacts
    <3>4. Promise!Tick
      BY <3>1, <3>2, <3>3 DEF Promise!Tick, Slack
    <3>5. QED
      BY <3>4 DEF Promise!Next
  <2>2. ASSUME NEW s \in Searches, NEW r \in Requests, Receive(s, r) PROVE Promise!Next
    <3>1. search[s].at = "idle" /\ UNCHANGED <<now, outcome>>
      BY <2>2 DEF Receive
    <3>2. CASE r.wellFormed
      <4> DEFINE v == [at |-> "running", req |-> r, started |-> now]
      <4>1. search' = [search EXCEPT ![s] = v] /\ v.at # "answered"
        BY <2>2, <3>2 DEF Receive
      <4> HIDE DEF v
      <4>2. /\ ToldSearch[s].at = "idle" /\ ToldSearch' = [ToldSearch EXCEPT ![s] = v]
            /\ ToldAnswer' = ToldAnswer
        BY <2>t, <3>1, <4>1, ToldReceived
      <4>3. Promise!Receive(s, r)
        BY <3>1, <3>2, <4>2 DEF Promise!Receive, v
      <4>4. QED
        BY <4>3 DEF Promise!Next
    <3>3. CASE ~r.wellFormed
      <4> DEFINE v == [at |-> "answered", req |-> r, code |-> 400]
      <4>1. search' = [search EXCEPT ![s] = v] /\ v.code = 400
        BY <2>2, <3>3 DEF Receive
      <4> HIDE DEF v
      <4>2. /\ ToldSearch[s].at = "idle" /\ ToldSearch' = [ToldSearch EXCEPT ![s] = v]
            /\ ToldAnswer' = ToldAnswer
        BY <2>t, <3>1, <4>1, ToldReceived
      <4>3. Promise!Refuse(s, r)
        BY <3>1, <3>3, <4>2 DEF Promise!Refuse, v
      <4>4. QED
        BY <4>3 DEF Promise!Next
    <3>4. QED
      BY <3>2, <3>3
  <2>3. ASSUME NEW s \in Searches, Answer(s) PROVE Promise!Next
    BY <2>3, ToldAnswered DEF Promise!Next
  <2>4. ASSUME UNCHANGED <<now, search>>,
               \A g \in Goroutines : search[g[1]].at # "running" => outcome'[g] = outcome[g]
        PROVE  UNCHANGED <<now, ToldSearch, ToldAnswer>>
    BY <2>t, <2>4, ToldNothing
  <2>5. ASSUME NEW s \in Searches, NEW g \in LegsOf(s), search[s].at = "running",
               Serve(g) \/ Gather(g)
        PROVE  UNCHANGED <<now, ToldSearch, ToldAnswer>>
    <3>1. g \in Goroutines /\ g[1] = s
      BY <2>t, <2>5, AcceptedFacts DEF LegsOf
    <3>2. UNCHANGED <<now, search>> /\ \E o : outcome' = [outcome EXCEPT ![g] = o]
      BY <2>5 DEF Serve, Gather
    <3>3. \A h \in Goroutines : search[h[1]].at # "running" => outcome'[h] = outcome[h]
      BY <2>t, <2>5, <3>1, <3>2 DEF TypeOK
    <3>4. QED
      BY <2>4, <3>2, <3>3
  <2>6. ASSUME NEW s \in Searches, NEW g \in LegsOf(s),
               LookUp(g) \/ FanOut(g) \/ \E p \in Providers : CutOff(g, p)
        PROVE  UNCHANGED <<now, ToldSearch, ToldAnswer>>
    <3>1. UNCHANGED <<now, search, outcome>>
      BY <2>6 DEF LookUp, FanOut, CutOff, storeVars, Store!GetRead, Store!GetCheck, Store!GetReap
    <3>2. QED
      BY <2>4, <3>1
  <2>7. ASSUME NEW s \in Searches, Running(s), Work(s)
        PROVE  Promise!Next \/ UNCHANGED <<now, ToldSearch, ToldAnswer>>
    BY <2>3, <2>5, <2>6, <2>7 DEF Work, Running
  <2>8. ASSUME NEW g \in Goroutines, NEW p \in Providers, ProviderAnswers(g, p)
        PROVE  UNCHANGED <<now, ToldSearch, ToldAnswer>>
    <3>1. UNCHANGED <<now, search, outcome>>
      BY <2>8 DEF ProviderAnswers
    <3>2. QED
      BY <2>4, <3>1
  <2>9. ASSUME NEW s \in Searches, Disconnect(s)
        PROVE  UNCHANGED <<now, ToldSearch, ToldAnswer>>
    <3>1. UNCHANGED <<now, search, outcome>>
      BY <2>9 DEF Disconnect
    <3>2. QED
      BY <2>4, <3>1
  <2>10. CASE UNCHANGED vars
    <3>1. UNCHANGED <<now, search, outcome>>
      BY <2>10 DEF vars
    <3>2. QED
      BY <2>4, <3>1
  <2>11. QED
    BY <2>1, <2>2, <2>7, <2>8, <2>9, <2>10 DEF Next, Quiet
<1>3. QED
  BY <1>1, <1>2, ServiceInvariant, PTL DEF Spec, ImplementsFlightSearch, Promise!Spec
=============================================================================
