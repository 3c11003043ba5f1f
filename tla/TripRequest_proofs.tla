-------------------------- MODULE TripRequest_proofs --------------------------
(* What a request becomes before it is searched, for all airports, dates,  *)
(* spellings and legs.                                                     *)
EXTENDS TripRequest, WellFoundedInduction, TLAPS

\* Every non-empty set of naturals has a smallest element.
LEMMA SmallestNat ==
  ASSUME NEW T \in SUBSET Nat, T # {}
  PROVE  \E x \in T : \A y \in T : x <= y
<1>1. PICK x \in T : \A y \in T : ~(<<y, x>> \in OpToRel(<, Nat))
  BY NatLessThanWellFounded, WFMin, Zenon
<1>2. \A y \in T : ~(y < x)
  BY <1>1 DEF OpToRel
<1>3. QED
  BY <1>2

\* Dates of which none precedes the one before it are in order throughout (validateRequest looks at
\* neighbours only).
LEMMA NeighboursSuffice ==
  ASSUME NEW n \in Nat, NEW d \in [1 .. n -> Int], \A i \in 2 .. n : d[i - 1] <= d[i],
         NEW i \in 1 .. n, NEW j \in 1 .. n, i < j
  PROVE  d[i] <= d[j]
<1> DEFINE Late == {k \in Nat : k \in 1 .. n /\ i < k /\ ~(d[i] <= d[k])}
<1>1. SUFFICES ASSUME j \in Late PROVE FALSE
  OBVIOUS
<1>2. PICK k \in Late : \A l \in Late : k <= l
  BY <1>1, SmallestNat
<1>3. /\ k \in Nat /\ k - 1 \in 1 .. n /\ k - 1 \in Nat /\ k \in 2 .. n
      /\ d[k - 1] <= d[k] /\ d[k - 1] \in Int /\ d[k] \in Int /\ d[i] \in Int
  BY <1>2
<1>4. k - 1 = i \/ k - 1 \in Late \/ d[i] <= d[k - 1]
  BY <1>2, <1>3
<1>5. QED
  BY <1>2, <1>3, <1>4

-----------------------------------------------------------------------------
(* Text and legs.                                                          *)

\* Trimming keeps what a text reads as, and a tidy text as it is.
LEMMA TidyFacts ==
  ASSUME NEW S, NEW t \in Text(S)
  PROVE  /\ Tidied(t) \in Text(S) /\ Tidied(t).tidy /\ Tidied(t).reads = t.reads
         /\ Tidied(Tidied(t)) = Tidied(t)
         /\ t.tidy => Tidied(t) = t
  BY DEF Text, Tidied

\* Two tidy texts that read the same are the same.
LEMMA TidyTextsAreWhatTheyRead ==
  ASSUME NEW S, NEW t \in Text(S), NEW u \in Text(S), t.tidy, u.tidy, t.reads = u.reads
  PROVE  t = u
  BY DEF Text

TidyLeg(l) == l \in RawLeg /\ l.origin.tidy /\ l.destination.tidy /\ l.date.tidy

\* Tidying a leg keeps what its texts read as, and happens once.
LEMMA TidyLegFacts ==
  ASSUME NEW l \in RawLeg
  PROVE  /\ TidyLeg(TidiedLeg(l))
         /\ TidiedLeg(l).origin = Tidied(l.origin) /\ TidiedLeg(l).destination = Tidied(l.destination)
         /\ TidiedLeg(l).date = Tidied(l.date)
<1>1. l.origin \in Text(Codes) /\ l.destination \in Text(Codes) /\ l.date \in Text(Dates)
  BY DEF RawLeg
<1>2. /\ Tidied(l.origin) \in Text(Codes) /\ Tidied(l.origin).tidy
      /\ Tidied(l.destination) \in Text(Codes) /\ Tidied(l.destination).tidy
      /\ Tidied(l.date) \in Text(Dates) /\ Tidied(l.date).tidy
  BY <1>1, TidyFacts
<1>3. TidiedLeg(l) = [origin |-> Tidied(l.origin), destination |-> Tidied(l.destination),
                      date |-> Tidied(l.date)]
  BY DEF TidiedLeg
<1>4. TidiedLeg(l) \in RawLeg
  BY <1>2, <1>3 DEF RawLeg
<1>5. /\ TidiedLeg(l).origin = Tidied(l.origin) /\ TidiedLeg(l).destination = Tidied(l.destination)
      /\ TidiedLeg(l).date = Tidied(l.date)
  BY <1>3
<1>6. QED
  BY <1>2, <1>4, <1>5, Zenon DEF TidyLeg

-----------------------------------------------------------------------------
(* The invariant.                                                          *)

\* A request as it arrives, in either form, with or without its defaults.
ReceivedRequest ==
    [origin : Text(Codes), destination : Text(Codes), date : Text(Dates),
     returnDate : Text(Dates) \cup {Nil}, legs : Seq(RawLeg),
     passengers : Int, cabin : Cabins \cup {Blank, Economy}, sort : Orders \cup {Blank, BestValue}]

HasReturn(r) == r.returnDate # Nil /\ ~IsBlank(r.returnDate)

\* Two legs there and back.
ThereAndBack(legs) ==
    /\ Len(legs) = 2
    /\ legs[2].origin = legs[1].destination /\ legs[2].destination = legs[1].origin

\* A request once Normalize is done with it: tidy legs, nothing left out, and a return date has
\* become the way back.
Prepared(r) ==
    /\ r.legs \in Seq(RawLeg) /\ \A i \in DOMAIN r.legs : TidyLeg(r.legs[i])
    /\ r.passengers \in Int /\ r.passengers >= 1 /\ r.cabin # Blank /\ r.sort # Blank
    /\ HasReturn(r) => ThereAndBack(r.legs)

TripInv ==
    /\ stage \in {"received", "normalized", "searched", "refused"}
    /\ stage = "received" => req \in ReceivedRequest
    /\ stage \in {"normalized", "searched"} => Prepared(req)
    /\ stage = "searched" => Valid(req.legs)

\* A request that asks nothing has the type of a request.
LEMMA EmptyIsReceived == Empty \in ReceivedRequest
<1>1. Nothing \in Text(Codes) /\ Nothing \in Text(Dates)
  BY DEF Nothing, Text, Codes, Dates
<1>2. << >> \in Seq(RawLeg)
  OBVIOUS
<1>3. QED
  BY <1>1, <1>2 DEF Empty, ReceivedRequest

\* Requests come as Init says: flat, as a list, or as a mixture.
LEMMA TripInit == Init => TripInv
<1> SUFFICES ASSUME Init PROVE req \in ReceivedRequest
  BY DEF Init, TripInv
<1>1. \A n \in Nat : [1 .. n -> RawLegs] \subseteq Seq(RawLeg)
  BY TripAssumption
<1>2. << >> \in Seq(RawLeg) /\ \A l \in RawLegs : <<l>> \in Seq(RawLeg)
  BY TripAssumption
<1>3. ASSUME NEW r \in FlatRequests PROVE r \in ReceivedRequest
  <2>1. r = [origin |-> r.origin, destination |-> r.destination, date |-> r.date,
             returnDate |-> r.returnDate, legs |-> r.legs, passengers |-> r.passengers,
             cabin |-> r.cabin, sort |-> r.sort]
    BY DEF FlatRequests
  <2>2. /\ r.origin \in Text(Codes) /\ r.destination \in Text(Codes) /\ r.date \in Text(Dates)
        /\ r.returnDate \in Text(Dates) \cup {Nil}
        /\ r.legs = << >> /\ r.passengers = 0 /\ r.cabin = Blank /\ r.sort = Blank
    BY Zenon DEF FlatRequests
  <2>3. QED
    <3>1. /\ r.legs \in Seq(RawLeg) /\ r.passengers \in Int
          /\ r.cabin \in Cabins \cup {Blank, Economy} /\ r.sort \in Orders \cup {Blank, BestValue}
      BY <1>2, <2>2
    <3>2. QED
      BY <2>1, <2>2, <3>1, Zenon DEF ReceivedRequest
<1>4. ListRequests \subseteq ReceivedRequest
  <2> DEFINE list(ls, n, c, o) ==
               [Empty EXCEPT !.legs = ls, !.passengers = n, !.cabin = c, !.sort = o]
  <2>1. ASSUME NEW ls \in Lists(RawLegs), NEW n \in Parties, NEW c \in Cabins, NEW o \in Orders
        PROVE  list(ls, n, c, o) \in ReceivedRequest
    <3>1. ls \in Seq(RawLeg)
      BY <1>1, TripAssumption DEF Lists
    <3>2. n \in Int
      BY TripAssumption
    <3>3. QED
      BY EmptyIsReceived, <3>1, <3>2 DEF ReceivedRequest
  <2>2. ListRequests = {list(ls, n, c, o) : ls \in Lists(RawLegs), n \in Parties, c \in Cabins,
                                            o \in Orders}
    BY DEF ListRequests
  <2> HIDE DEF list
  <2>3. QED
    BY <2>1, <2>2
<1>5. MixedRequests \subseteq ReceivedRequest
  <2> DEFINE mixed(l, d) == [Empty EXCEPT !.legs = <<l>>, !.returnDate = d]
  <2>1. ASSUME NEW l \in RawLegs, NEW d \in Text(Dates) \cup {Nil}
        PROVE  mixed(l, d) \in ReceivedRequest
    BY <1>2, EmptyIsReceived DEF ReceivedRequest
  <2>2. MixedRequests = {mixed(l, d) : l \in RawLegs, d \in Text(Dates) \cup {Nil}}
    BY DEF MixedRequests
  <2> HIDE DEF mixed
  <2>3. QED
    BY <2>1, <2>2
<1>6. QED
  BY <1>3, <1>4, <1>5 DEF Init

-----------------------------------------------------------------------------
(* Normalize.                                                              *)

\* Defaults fill what was left out, and touch nothing of the itinerary.
LEMMA Defaults ==
  ASSUME NEW r \in ReceivedRequest
  PROVE  LET w == WithDefaults(r)
         IN  /\ w \in ReceivedRequest
             /\ w.legs = r.legs /\ w.origin = r.origin /\ w.destination = r.destination
             /\ w.date = r.date /\ w.returnDate = r.returnDate
             /\ w.passengers \in Int /\ w.passengers >= 1 /\ w.cabin # Blank /\ w.sort # Blank
<1> DEFINE n == IF r.passengers <= 0 THEN 1 ELSE r.passengers
           c == IF r.cabin = Blank THEN Economy ELSE r.cabin
           o == IF r.sort = Blank THEN BestValue ELSE r.sort
<1>1. /\ n \in Int /\ n >= 1 /\ c # Blank /\ o # Blank
      /\ c \in Cabins \cup {Blank, Economy} /\ o \in Orders \cup {Blank, BestValue}
  BY TripAssumption DEF ReceivedRequest
<1>2. WithDefaults(r) = [r EXCEPT !.passengers = n, !.cabin = c, !.sort = o]
  BY DEF WithDefaults
<1> HIDE DEF n, c, o
<1>3. QED
  BY <1>1, <1>2 DEF ReceivedRequest

\* A flat request makes one leg or, with a return date, a second one back.
LEMMA FlatLegs ==
  ASSUME NEW r \in ReceivedRequest
  PROVE  LET ls == LegsFromFlatForm(r)
         IN  /\ ls \in Seq(RawLeg) /\ Len(ls) = (IF HasReturn(r) THEN 2 ELSE 1)
             /\ ls[1].origin = r.origin /\ ls[1].destination = r.destination /\ ls[1].date = r.date
             /\ HasReturn(r) =>
                   /\ ls[2].origin = r.destination /\ ls[2].destination = r.origin
                   /\ ls[2].date = Tidied(r.returnDate)
<1> DEFINE there == [origin |-> r.origin, destination |-> r.destination, date |-> r.date]
           back  == [origin |-> r.destination, destination |-> r.origin, date |-> Tidied(r.returnDate)]
<1>1. /\ r.origin \in Text(Codes) /\ r.destination \in Text(Codes) /\ r.date \in Text(Dates)
      /\ r.returnDate \in Text(Dates) \cup {Nil}
  BY DEF ReceivedRequest
<1>2. there \in RawLeg
  BY <1>1 DEF RawLeg
<1>3. HasReturn(r) => back \in RawLeg
  <2>1. HasReturn(r) => Tidied(r.returnDate) \in Text(Dates)
    BY <1>1, TidyFacts DEF HasReturn
  <2>2. QED
    BY <1>1, <2>1 DEF RawLeg
<1>4. /\ there.origin = r.origin /\ there.destination = r.destination /\ there.date = r.date
      /\ back.origin = r.destination /\ back.destination = r.origin
      /\ back.date = Tidied(r.returnDate)
  OBVIOUS
<1>5. LegsFromFlatForm(r) = IF HasReturn(r) THEN <<there, back>> ELSE <<there>>
  BY DEF LegsFromFlatForm, HasReturn
<1> HIDE DEF there, back
<1>6. QED
  BY <1>2, <1>3, <1>4, <1>5

\* The legs Normalize starts from.
Given(r) == IF r.legs = << >> /\ HasFlatForm(r) THEN LegsFromFlatForm(r) ELSE r.legs

\* Normalize tidies each of the legs it starts from and adds none.
LEMMA NormalizedLegs ==
  ASSUME NEW r \in ReceivedRequest
  PROVE  LET n == Normalized(r)
         IN  /\ Given(r) \in Seq(RawLeg)
             /\ n.legs = [i \in DOMAIN Given(r) |-> TidiedLeg(Given(r)[i])]
             /\ n.returnDate = r.returnDate /\ n.passengers = r.passengers
             /\ n.cabin = r.cabin /\ n.sort = r.sort
<1> DEFINE legs == [i \in DOMAIN Given(r) |-> TidiedLeg(Given(r)[i])]
<1>1. r.legs \in Seq(RawLeg)
  BY DEF ReceivedRequest
<1>2. Given(r) \in Seq(RawLeg)
  BY <1>1, FlatLegs DEF Given
<1>3. CASE legs = << >>
  <2>1. Normalized(r) = r
    BY <1>3 DEF Normalized, Given
  <2>2. DOMAIN Given(r) = {}
    BY <1>3
  <2>3. Given(r) = r.legs
    BY <1>2, <2>2, FlatLegs DEF Given
  <2>4. r.legs = legs
    <3>1. Len(r.legs) = 0
      <4>1. Len(r.legs) \in Nat /\ DOMAIN r.legs = 1 .. Len(r.legs)
        BY <1>1
      <4>2. 1 \notin DOMAIN r.legs
        BY <2>2, <2>3
      <4>3. QED
        BY <4>1, <4>2
    <3>2. r.legs = << >>
      BY <1>1, <3>1
    <3>3. QED
      BY <1>3, <3>2
  <2>5. QED
    BY <1>2, <2>1, <2>4
<1>4. CASE legs # << >>
  <2>1. Normalized(r) = [r EXCEPT !.legs = legs, !.origin = legs[1].origin,
                                  !.destination = legs[1].destination, !.date = legs[1].date]
    BY <1>4 DEF Normalized, Given
  <2> HIDE DEF legs
  <2>2. QED
    BY <1>2, <2>1 DEF ReceivedRequest, legs
<1>5. QED
  BY <1>3, <1>4

\* Normalize leaves a request prepared: what came in one form only, with a return date or without.
LEMMA NormalizePrepares ==
  ASSUME NEW r \in ReceivedRequest, ~HasBothForms(r)
  PROVE  Prepared(Normalized(WithDefaults(r)))
<1> DEFINE w == WithDefaults(r)
           n == Normalized(w)
           g == Given(w)
<1>1. /\ w \in ReceivedRequest /\ w.legs = r.legs /\ w.returnDate = r.returnDate
      /\ w.passengers \in Int /\ w.passengers >= 1 /\ w.cabin # Blank /\ w.sort # Blank
  BY Defaults
<1>2. HasReturn(r) => HasFlatForm(w) /\ w.legs = << >>
  BY <1>1 DEF HasReturn, HasBothForms, HasFlatForm
<1> HIDE DEF w
<1>3. /\ g \in Seq(RawLeg) /\ n.legs = [i \in DOMAIN g |-> TidiedLeg(g[i])]
      /\ n.returnDate = w.returnDate /\ n.passengers = w.passengers
      /\ n.cabin = w.cabin /\ n.sort = w.sort
  BY <1>1, NormalizedLegs
<1>4. HasReturn(n) => HasReturn(r)
  BY <1>1, <1>3 DEF HasReturn
<1>5. HasReturn(n) => Len(g) = 2 /\ g[2].origin = g[1].destination /\ g[2].destination = g[1].origin
  <2>1. HasReturn(n) => g = LegsFromFlatForm(w) /\ HasReturn(w)
    BY <1>1, <1>2, <1>4 DEF Given, HasReturn
  <2> HIDE DEF g, n
  <2>2. QED
    BY <1>1, <2>1, FlatLegs
<1> HIDE DEF n, g
<1>6. /\ Len(g) \in Nat /\ DOMAIN g = 1 .. Len(g) /\ \A i \in 1 .. Len(g) : g[i] \in RawLeg
  BY <1>3
<1>7. \A i \in 1 .. Len(g) :
          /\ n.legs[i] = TidiedLeg(g[i]) /\ TidyLeg(n.legs[i])
          /\ n.legs[i].origin = Tidied(g[i].origin)
          /\ n.legs[i].destination = Tidied(g[i].destination)
  BY <1>3, <1>6, TidyLegFacts
<1>8. n.legs \in Seq(RawLeg) /\ Len(n.legs) = Len(g) /\ DOMAIN n.legs = 1 .. Len(g)
  BY <1>3, <1>6, <1>7 DEF TidyLeg
<1>9. HasReturn(n) => ThereAndBack(n.legs)
  BY <1>5, <1>7, <1>8 DEF ThereAndBack
<1>10. Prepared(n)
  BY <1>1, <1>3, <1>7, <1>8, <1>9 DEF Prepared
<1>11. QED
  BY <1>10 DEF n, w

-----------------------------------------------------------------------------
(* The theorems.                                                           *)

\* Every step keeps the invariant.
LEMMA TripStep == TripInv /\ [Next]_vars => TripInv'
<1> SUFFICES ASSUME TripInv, [Next]_vars PROVE TripInv'
  OBVIOUS
<1>1. CASE RefuseBothForms
  BY <1>1 DEF RefuseBothForms, TripInv
<1>2. CASE Normalize
  <2>1. req \in ReceivedRequest /\ ~HasBothForms(req)
    BY <1>2 DEF Normalize, TripInv
  <2>2. Prepared(req')
    BY <1>2, <2>1, NormalizePrepares DEF Normalize
  <2>3. QED
    BY <1>2, <2>2 DEF Normalize, TripInv
<1>3. CASE Validate
  BY <1>3 DEF Validate, TripInv
<1>4. CASE Decided \/ UNCHANGED vars
  BY <1>4 DEF Decided, vars, TripInv
<1>5. QED
  BY <1>1, <1>2, <1>3, <1>4 DEF Next

\* Whatever is searched for can be flown: at most MaxLegs legs between different places, spelled
\* tidily, on real dates none of which precedes any earlier leg's, for somebody, in some cabin; and
\* a request is echoed as a round trip exactly if it goes there and back.
THEOREM OnlySoundTripsAreSearched == Spec => []SearchedTripsAreSound
<1>1. ASSUME TripInv PROVE SearchedTripsAreSound
  <2> SUFFICES ASSUME stage = "searched" PROVE SearchedTripsAreSound
    BY DEF SearchedTripsAreSound
  <2> DEFINE legs == req.legs
  <2>1. Prepared(req) /\ Valid(legs)
    BY <1>1 DEF TripInv
  <2>2. legs \in Seq(RawLeg) /\ Len(legs) \in 1 .. MaxLegs /\ DOMAIN legs = 1 .. Len(legs)
    BY <2>1 DEF Prepared, Valid
  <2>3. ASSUME NEW i \in DOMAIN legs
        PROVE  /\ legs[i].origin.tidy /\ legs[i].destination.tidy /\ legs[i].date.tidy
               /\ legs[i].origin.reads # legs[i].destination.reads
               /\ legs[i].date.reads \in 1 .. LastDay
    <3>1. TidyLeg(legs[i]) /\ legs[i].origin # legs[i].destination /\ IsDate(legs[i].date)
      BY <2>1, <2>3 DEF Prepared, Valid
    <3>2. legs[i].origin \in Text(Codes) /\ legs[i].destination \in Text(Codes)
      BY <3>1 DEF TidyLeg, RawLeg
    <3>3. QED
      BY <3>1, <3>2, TidyTextsAreWhatTheyRead DEF TidyLeg, IsDate
  <2>4. ASSUME NEW i \in DOMAIN legs, NEW j \in DOMAIN legs, i < j
        PROVE  legs[i].date.reads <= legs[j].date.reads
    <3> DEFINE d == [k \in 1 .. Len(legs) |-> legs[k].date.reads]
    <3>1. Len(legs) \in Nat /\ d \in [1 .. Len(legs) -> Int]
      BY <2>2, <2>3, TripAssumption
    <3>2. \A k \in 2 .. Len(legs) : d[k - 1] <= d[k]
      BY <2>1, <2>2, <3>1 DEF Valid, DatesFollow
    <3>3. d[i] = legs[i].date.reads /\ d[j] = legs[j].date.reads
      BY <2>2
    <3> HIDE DEF d
    <3>4. QED
      BY <2>2, <2>4, <3>1, <3>2, <3>3, NeighboursSuffice
  <2>5. HasReturn(req) => ThereAndBack(legs)
    BY <2>1 DEF Prepared
  <2>6. TripType(legs) = "round_trip" <=> ThereAndBack(legs)
    BY <2>2, TripAssumption DEF TripType, ThereAndBack
  <2>7. QED
    BY <2>1, <2>2, <2>3, <2>4, <2>5, <2>6
       DEF SearchedTripsAreSound, Prepared, HasReturn, ThereAndBack
<1>2. QED
  BY <1>1, TripInit, TripStep, PTL DEF Spec

\* A flat request written out has the legs of the flat form, but for the spelling of the return date.
LEMMA RewrittenLegs ==
  ASSUME NEW r \in ReceivedRequest
  PROVE  LET l == LegsFromFlatForm(r)
             q == Rewritten(r)
         IN  /\ q \in ReceivedRequest /\ Given(q) = q.legs /\ Len(q.legs) = Len(l)
             /\ \A i \in 1 .. Len(l) : TidiedLeg(q.legs[i]) = TidiedLeg(l[i])
<1> DEFINE there == [origin |-> r.origin, destination |-> r.destination, date |-> r.date]
           back  == [origin |-> r.destination, destination |-> r.origin, date |-> r.returnDate]
           tidy  == [origin |-> r.destination, destination |-> r.origin, date |-> Tidied(r.returnDate)]
           q     == Rewritten(r)
           m     == IF HasReturn(r) THEN <<there, back>> ELSE <<there>>
<1>1. /\ r.origin \in Text(Codes) /\ r.destination \in Text(Codes) /\ r.date \in Text(Dates)
      /\ HasReturn(r) => r.returnDate \in Text(Dates)
  BY DEF ReceivedRequest, HasReturn
<1>2. there \in RawLeg /\ (HasReturn(r) => back \in RawLeg)
  BY <1>1 DEF RawLeg
<1>3. HasReturn(r) => TidiedLeg(back) = TidiedLeg(tidy)
  <2>1. HasReturn(r) => Tidied(Tidied(r.returnDate)) = Tidied(r.returnDate)
    BY <1>1, TidyFacts
  <2>2. QED
    BY <2>1 DEF TidiedLeg
<1>4. q = [Empty EXCEPT !.legs = m]
  BY DEF Rewritten, HasReturn
<1>5. LegsFromFlatForm(r) = IF HasReturn(r) THEN <<there, tidy>> ELSE <<there>>
  BY DEF LegsFromFlatForm, HasReturn
<1> HIDE DEF there, back, tidy
<1>6. m \in Seq(RawLeg) /\ m # << >>
  BY <1>2
<1>7. q.legs = m /\ q \in ReceivedRequest
  BY <1>4, <1>6, EmptyIsReceived DEF ReceivedRequest
<1>8. Given(q) = q.legs
  BY <1>6, <1>7 DEF Given
<1>9. /\ Len(m) = Len(LegsFromFlatForm(r))
      /\ \A i \in 1 .. Len(LegsFromFlatForm(r)) : TidiedLeg(m[i]) = TidiedLeg(LegsFromFlatForm(r)[i])
  <2>1. CASE HasReturn(r)
    BY <1>3, <1>5, <2>1
  <2>2. CASE ~HasReturn(r)
    BY <1>5, <2>2
  <2>3. QED
    BY <2>1, <2>2
<1>10. QED
  BY <1>7, <1>8, <1>9

\* A flat request and the same trip written as a list of legs become the same legs, so that they are
\* searched for, or refused, alike.
THEOREM FormsAreOne == Spec => FormsAgree
<1>1. ASSUME TripInv, [Next]_vars
      PROVE  [stage = "received" /\ req.legs = << >> /\ HasFlatForm(req)
                => req'.legs = Normalized(Rewritten(req)).legs]_vars
  <2> SUFFICES ASSUME ~UNCHANGED vars, stage = "received", req.legs = << >>, HasFlatForm(req)
               PROVE  req'.legs = Normalized(Rewritten(req)).legs
    OBVIOUS
  <2> DEFINE w == WithDefaults(req)
             l == LegsFromFlatForm(req)
             q == Rewritten(req)
  <2>1. req \in ReceivedRequest /\ req' = Normalized(w)
    BY <1>1 DEF TripInv, Next, RefuseBothForms, HasBothForms, Normalize, Validate, Decided
  <2>2. w \in ReceivedRequest /\ Given(w) = l
    BY <2>1, Defaults DEF Given, HasFlatForm, LegsFromFlatForm
  <2>3. q \in ReceivedRequest /\ Given(q) = q.legs
    BY <2>1, RewrittenLegs
  <2>4. /\ req'.legs = [i \in DOMAIN l |-> TidiedLeg(l[i])] /\ l \in Seq(RawLeg)
        /\ Normalized(q).legs = [i \in DOMAIN q.legs |-> TidiedLeg(q.legs[i])]
        /\ q.legs \in Seq(RawLeg)
    <3> HIDE DEF w, q
    <3>1. QED
      BY <2>1, <2>2, <2>3, NormalizedLegs
  <2>5. Len(q.legs) = Len(l) /\ \A i \in 1 .. Len(l) : TidiedLeg(q.legs[i]) = TidiedLeg(l[i])
    BY <2>1, RewrittenLegs
  <2> HIDE DEF l, q
  <2>6. DOMAIN l = DOMAIN q.legs /\ \A i \in DOMAIN l : TidiedLeg(q.legs[i]) = TidiedLeg(l[i])
    BY <2>4, <2>5
  <2>7. Normalized(q).legs = req'.legs
    BY <2>4, <2>6
  <2>8. QED
    BY <2>7 DEF q
<1>2. QED
  BY <1>1, TripInit, TripStep, PTL DEF Spec, FormsAgree
=============================================================================
