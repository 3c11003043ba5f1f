--------------------------- MODULE Pipeline_proofs ---------------------------
(* The result pipeline, for any offers, filters and number of legs on one   *)
(* cached aggregate: what one stage makes of its flights first, then that   *)
(* no leg disturbs another, and what both mean for the answers.             *)
EXTENDS Pipeline, FiniteSetTheorems, WellFoundedInduction, TLAPS

-----------------------------------------------------------------------------
(* Sorting by ranks, as StableSorted does. *)

\* Every non-empty set of naturals has a least element.
LEMMA SmallestNat ==
  ASSUME NEW T \in SUBSET Nat, T # {}
  PROVE  \E x \in T : \A y \in T : x <= y
<1>1. PICK x \in T : \A y \in T : ~(<<y, x>> \in OpToRel(<, Nat))
  BY NatLessThanWellFounded, WFMin, Zenon
<1>2. \A y \in T : ~(y < x)
  BY <1>1 DEF OpToRel
<1>3. QED
  BY <1>2

\* A strict total order on 1 .. n ranks its elements from 1 to n.
IsStrictOrder(n, R) ==
    /\ \A i \in 1 .. n : <<i, i>> \notin R
    /\ \A i, j \in 1 .. n : i # j => <<i, j>> \in R \/ <<j, i>> \in R
    /\ \A i, j, k \in 1 .. n : <<i, j>> \in R /\ <<j, k>> \in R => <<i, k>> \in R

\* Ranks by the number of smaller elements number the elements from 1 to n, in order.
LEMMA Ranking ==
  ASSUME NEW n \in Nat, NEW R, IsStrictOrder(n, R),
         NEW rank,
         \A i \in 1 .. n : rank[i] = 1 + Cardinality({j \in 1 .. n : <<j, i>> \in R})
  PROVE  /\ \A i \in 1 .. n : rank[i] \in 1 .. n
         /\ \A i, j \in 1 .. n : <<i, j>> \in R => rank[i] < rank[j]
         /\ \A i, j \in 1 .. n : rank[i] = rank[j] => i = j
         /\ \A k \in 1 .. n : \E i \in 1 .. n : rank[i] = k
<1> DEFINE below(i) == {j \in 1 .. n : <<j, i>> \in R}
<1>1. IsFiniteSet(1 .. n) /\ Cardinality(1 .. n) = n
  BY FS_Interval
<1>2. \A i \in 1 .. n : IsFiniteSet(below(i)) /\ Cardinality(below(i)) \in Nat
  <2> SUFFICES ASSUME NEW i \in 1 .. n PROVE IsFiniteSet(below(i)) /\ Cardinality(below(i)) \in Nat
    OBVIOUS
  <2>1. below(i) \in SUBSET (1 .. n)
    OBVIOUS
  <2> HIDE DEF below
  <2>2. QED
    BY <1>1, <2>1, FS_Subset, FS_CardinalityType
<1>3. \A i \in 1 .. n : rank[i] = 1 + Cardinality(below(i))
  OBVIOUS
<1>4. \A i \in 1 .. n : Cardinality(below(i)) <= n - 1
  <2> SUFFICES ASSUME NEW i \in 1 .. n PROVE Cardinality(below(i)) <= n - 1
    OBVIOUS
  <2>1. below(i) \in SUBSET ((1 .. n) \ {i})
    BY DEF IsStrictOrder
  <2>2. IsFiniteSet((1 .. n) \ {i}) /\ Cardinality((1 .. n) \ {i}) = n - 1
    BY <1>1, FS_RemoveElement
  <2> HIDE DEF below
  <2>3. QED
    BY <2>1, <2>2, FS_Subset
<1>5. ASSUME NEW i \in 1 .. n, NEW j \in 1 .. n, <<i, j>> \in R PROVE rank[i] < rank[j]
  <2>1. below(i) \cup {i} \in SUBSET below(j) /\ i \notin below(i)
    BY <1>5 DEF IsStrictOrder
  <2> HIDE DEF below
  <2>2. Cardinality(below(i) \cup {i}) = Cardinality(below(i)) + 1
    BY <1>2, <2>1, FS_AddElement
  <2>3. Cardinality(below(i) \cup {i}) <= Cardinality(below(j))
    BY <1>2, <2>1, FS_Subset
  <2>4. QED
    BY <1>2, <1>3, <2>2, <2>3
<1> HIDE DEF below
<1>6. \A i \in 1 .. n : rank[i] \in 1 .. n
  <2> SUFFICES ASSUME NEW i \in 1 .. n PROVE rank[i] \in 1 .. n
    OBVIOUS
  <2>1. /\ Cardinality(below(i)) \in Nat /\ Cardinality(below(i)) <= n - 1
        /\ rank[i] = 1 + Cardinality(below(i))
    BY <1>2, <1>3, <1>4
  <2>2. QED
    BY <2>1
<1>7. \A i, j \in 1 .. n : rank[i] = rank[j] => i = j
  <2> SUFFICES ASSUME NEW i \in 1 .. n, NEW j \in 1 .. n, i # j PROVE rank[i] # rank[j]
    OBVIOUS
  <2>1. <<i, j>> \in R \/ <<j, i>> \in R
    BY DEF IsStrictOrder
  <2>2. rank[i] \in Int /\ rank[j] \in Int
    BY <1>6
  <2>3. rank[i] < rank[j] \/ rank[j] < rank[i]
    BY <1>5, <2>1
  <2>4. QED
    BY <2>2, <2>3
<1>8. \A k \in 1 .. n : \E i \in 1 .. n : rank[i] = k
  <2> DEFINE f == [i \in 1 .. n |-> rank[i]]
  <2>1. f \in Injection(1 .. n, 1 .. n)
    BY <1>6, <1>7 DEF Injection, IsInjective
  <2>2. f \in Surjection(1 .. n, 1 .. n)
    BY <1>1, <2>1, FS_Injection
  <2>3. QED
    BY <2>2 DEF Surjection
<1>9. QED
  BY <1>5, <1>6, <1>7, <1>8

\* A strict weak order on the positions 1 .. n, as sort.SliceStable wants it.
IsWeakOrder(n, L) ==
    /\ \A i, j \in 1 .. n : <<i, j>> \in L => <<j, i>> \notin L
    /\ \A i, j, k \in 1 .. n : <<i, k>> \in L => <<i, j>> \in L \/ <<j, k>> \in L

\* The order of the positions after sort.SliceStable: those of which neither precedes the other
\* stay as they were.
Stably(n, L) ==
    {r \in (1 .. n) \X (1 .. n) : r \in L \/ (<<r[2], r[1]>> \notin L /\ r[1] < r[2])}

\* What is put in the order of its ranks is all there, and nothing precedes what is before it.
Arranges(n, L, perm) ==
    /\ perm \in [1 .. n -> 1 .. n]
    /\ \A k, m \in 1 .. n : perm[k] = perm[m] => k = m
    /\ \A i \in 1 .. n : \E k \in 1 .. n : perm[k] = i
    /\ \A k, m \in 1 .. n : k < m => <<perm[m], perm[k]>> \notin L

\* A weak order with ties kept as they were is strict.
LEMMA StableOrder ==
  ASSUME NEW n \in Nat, NEW L, IsWeakOrder(n, L)
  PROVE  IsStrictOrder(n, Stably(n, L))
<1> DEFINE R == Stably(n, L)
<1>1. \A i, j \in 1 .. n : <<i, j>> \in R <=> <<i, j>> \in L \/ (<<j, i>> \notin L /\ i < j)
  BY DEF Stably
<1> HIDE DEF R
<1>2. \A i \in 1 .. n : <<i, i>> \notin R
  BY <1>1 DEF IsWeakOrder
<1>3. \A i, j \in 1 .. n : i # j => <<i, j>> \in R \/ <<j, i>> \in R
  <2> SUFFICES ASSUME NEW i \in 1 .. n, NEW j \in 1 .. n, i # j
               PROVE  <<i, j>> \in R \/ <<j, i>> \in R
    OBVIOUS
  <2>1. i < j \/ j < i
    OBVIOUS
  <2>2. QED
    BY <1>1, <2>1
<1>4. \A i, j, k \in 1 .. n : <<i, j>> \in R /\ <<j, k>> \in R => <<i, k>> \in R
  <2> SUFFICES ASSUME NEW i \in 1 .. n, NEW j \in 1 .. n, NEW k \in 1 .. n,
                      <<i, j>> \in R, <<j, k>> \in R
               PROVE  <<i, k>> \in R
    OBVIOUS
  <2>1. <<j, i>> \notin L /\ <<k, j>> \notin L
    BY <1>1 DEF IsWeakOrder
  <2>2. <<k, i>> \notin L
    BY <2>1 DEF IsWeakOrder
  <2>3. CASE <<i, j>> \in L
    BY <1>1, <2>1, <2>3 DEF IsWeakOrder
  <2>4. CASE <<j, k>> \in L
    BY <1>1, <2>1, <2>4 DEF IsWeakOrder
  <2>5. CASE i < j /\ j < k
    BY <1>1, <2>2, <2>5
  <2>6. QED
    BY <1>1, <2>3, <2>4, <2>5
<1>5. QED
  BY <1>2, <1>3, <1>4 DEF IsStrictOrder, R

\* Ranks by that order are a numbering, and what is placed by them is arranged: sort.SliceStable.
LEMMA SortingArranges ==
  ASSUME NEW n \in Nat, NEW L, IsWeakOrder(n, L),
         NEW rank,
         \A i \in 1 .. n : rank[i] = 1 + Cardinality({j \in 1 .. n : <<j, i>> \in Stably(n, L)})
  PROVE  /\ \A k \in 1 .. n : \E i \in 1 .. n : rank[i] = k
         /\ \A perm \in [1 .. n -> 1 .. n] :
               (\A k \in 1 .. n : rank[perm[k]] = k) => Arranges(n, L, perm)
<1>1. IsStrictOrder(n, Stably(n, L))
  BY StableOrder
<1>2. \A i, j \in 1 .. n : <<i, j>> \in L => <<i, j>> \in Stably(n, L)
  BY DEF Stably
<1>3. /\ \A i \in 1 .. n : rank[i] \in 1 .. n
      /\ \A i, j \in 1 .. n : <<i, j>> \in Stably(n, L) => rank[i] < rank[j]
      /\ \A i, j \in 1 .. n : rank[i] = rank[j] => i = j
      /\ \A k \in 1 .. n : \E i \in 1 .. n : rank[i] = k
  <2> DEFINE R == Stably(n, L)
  <2>1. /\ IsStrictOrder(n, R)
        /\ \A i \in 1 .. n : rank[i] = 1 + Cardinality({j \in 1 .. n : <<j, i>> \in R})
    BY <1>1
  <2> HIDE DEF R
  <2>2. /\ \A i \in 1 .. n : rank[i] \in 1 .. n
        /\ \A i, j \in 1 .. n : <<i, j>> \in R => rank[i] < rank[j]
        /\ \A i, j \in 1 .. n : rank[i] = rank[j] => i = j
        /\ \A k \in 1 .. n : \E i \in 1 .. n : rank[i] = k
    BY <2>1, Ranking
  <2>3. QED
    BY <2>2 DEF R
<1>4. ASSUME NEW perm \in [1 .. n -> 1 .. n], \A k \in 1 .. n : rank[perm[k]] = k
      PROVE  Arranges(n, L, perm)
  <2>1. \A k, m \in 1 .. n : perm[k] = perm[m] => k = m
    BY <1>4
  <2>2. ASSUME NEW i \in 1 .. n PROVE \E k \in 1 .. n : perm[k] = i
    <3>1. rank[i] \in 1 .. n
      BY <1>3
    <3>2. rank[perm[rank[i]]] = rank[i] /\ perm[rank[i]] \in 1 .. n
      BY <1>4, <3>1
    <3>3. QED
      BY <1>3, <3>1, <3>2
  <2>3. ASSUME NEW k \in 1 .. n, NEW m \in 1 .. n, k < m, <<perm[m], perm[k]>> \in L PROVE FALSE
    <3>1. rank[perm[m]] < rank[perm[k]]
      BY <1>2, <1>3, <2>3
    <3>2. rank[perm[m]] = m /\ rank[perm[k]] = k
      BY <1>4
    <3>3. QED
      BY <2>3, <3>1, <3>2
  <2>4. QED
    BY <2>1, <2>2, <2>3 DEF Arranges
<1>5. QED
  BY <1>3, <1>4

\* The alternatives of a flight, cheapest first.
Alt == [provider : Nat, amount : Nat]

\* The order of SortedAlternatives.
Cheaper(a, b) == IF a.amount # b.amount THEN a.amount < b.amount ELSE a.provider < b.provider

\* Sorted alternatives are the same ones, by amount.
LEMMA AlternativesSorted ==
  ASSUME NEW s \in Seq(Alt)
  PROVE  LET t == SortedAlternatives(s)
         IN  /\ t \in Seq(Alt) /\ Len(t) = Len(s)
             /\ {t[k] : k \in DOMAIN t} = {s[k] : k \in DOMAIN s}
             /\ \A k, m \in DOMAIN t : k < m => t[k].amount <= t[m].amount
<1> DEFINE n == Len(s)
           t == SortedAlternatives(s)
           L == {r \in (1 .. n) \X (1 .. n) : Cheaper(s[r[1]], s[r[2]])}
           before(i, j) == Cheaper(s[i], s[j]) \/ (~Cheaper(s[j], s[i]) /\ i < j)
           rank(i) == 1 + Cardinality({j \in DOMAIN s : before(j, i)})
           perm == [k \in 1 .. n |-> CHOOSE i \in DOMAIN s : rank(i) = k]
           ranks == [i \in 1 .. n |-> rank(i)]
<1>1. n \in Nat /\ DOMAIN s = 1 .. n /\ \A i \in 1 .. n : s[i] \in Alt
  OBVIOUS
<1>2. t = [k \in DOMAIN s |-> s[CHOOSE i \in DOMAIN s : rank(i) = k]]
  BY DEF SortedAlternatives, StableSorted, Cheaper
<1>3. \A i, j \in 1 .. n : <<i, j>> \in L <=> Cheaper(s[i], s[j])
  OBVIOUS
<1>4. \A i, j \in 1 .. n : <<i, j>> \in Stably(n, L) <=> before(i, j)
  BY DEF Stably
<1> HIDE DEF L
<1>5. IsWeakOrder(n, L)
  <2>1. \A a, b \in Alt : Cheaper(a, b) => ~Cheaper(b, a)
    BY DEF Cheaper, Alt
  <2>2. \A a, b, c \in Alt : Cheaper(a, c) => Cheaper(a, b) \/ Cheaper(b, c)
    BY DEF Cheaper, Alt
  <2>3. QED
    BY <1>1, <1>3, <2>1, <2>2 DEF IsWeakOrder
<1>6. ASSUME NEW i \in 1 .. n
      PROVE  ranks[i] = 1 + Cardinality({j \in 1 .. n : <<j, i>> \in Stably(n, L)})
  <2>1. {j \in DOMAIN s : before(j, i)} = {j \in 1 .. n : <<j, i>> \in Stably(n, L)}
    BY <1>1, <1>4
  <2>2. QED
    BY <2>1
<1> HIDE DEF rank
<1>7. /\ \A k \in 1 .. n : \E i \in 1 .. n : ranks[i] = k
      /\ \A p \in [1 .. n -> 1 .. n] : (\A k \in 1 .. n : ranks[p[k]] = k) => Arranges(n, L, p)
  <2> HIDE DEF ranks
  <2>1. QED
    BY <1>1, <1>5, <1>6, SortingArranges
<1>8. \A k \in 1 .. n : perm[k] \in 1 .. n /\ rank(perm[k]) = k
  <2> SUFFICES ASSUME NEW k \in 1 .. n PROVE perm[k] \in 1 .. n /\ rank(perm[k]) = k
    OBVIOUS
  <2>1. \E i \in DOMAIN s : rank(i) = k
    BY <1>1, <1>7
  <2>2. perm[k] = CHOOSE i \in DOMAIN s : rank(i) = k
    OBVIOUS
  <2>3. QED
    BY <1>1, <2>1, <2>2, Zenon
<1>9. \A k \in 1 .. n : t[k] = s[perm[k]]
  BY <1>1, <1>2
<1>10. DOMAIN t = 1 .. n
  BY <1>1, <1>2
<1>11. perm \in [1 .. n -> 1 .. n]
  BY <1>8
<1>12. Arranges(n, L, perm)
  BY <1>7, <1>8, <1>11
<1> HIDE DEF perm, ranks
<1>13. t \in Seq(Alt) /\ Len(t) = n
  <2>1. \A k \in 1 .. n : t[k] \in Alt
    BY <1>1, <1>8, <1>9
  <2>2. t = [k \in 1 .. n |-> t[k]]
    BY <1>1, <1>2
  <2> HIDE DEF t
  <2>3. t \in [1 .. n -> Alt]
    BY <2>1, <2>2
  <2>4. QED
    BY <1>1, <2>3
<1>14. {t[k] : k \in DOMAIN t} = {s[k] : k \in DOMAIN s}
  BY <1>1, <1>8, <1>9, <1>10, <1>12 DEF Arranges
<1>15. ASSUME NEW k \in DOMAIN t, NEW m \in DOMAIN t, k < m PROVE t[k].amount <= t[m].amount
  <2>1. ~Cheaper(t[m], t[k]) /\ t[m] \in Alt /\ t[k] \in Alt
    BY <1>1, <1>3, <1>8, <1>9, <1>10, <1>12, <1>15 DEF Arranges
  <2>2. QED
    BY <2>1 DEF Cheaper, Alt
<1>16. QED
  BY <1>13, <1>14, <1>15

-----------------------------------------------------------------------------
(* Flights and their orders (sort.go). *)

\* What a flight is at any stage: an offer with whatever alternatives and score it has got.
FlightRec == [number : Nat, provider : Nat, airline : {f.airline : f \in Offers}, fare : Nat,
              depart : Nat, minutes : Nat, stops : Nat, departClock : Nat, arriveClock : Nat,
              alternatives : Seq(Alt), score : Int]

\* What each order puts in ascending order.
SortKey(option, f) ==
    CASE option = "best_value"     -> 0 - f.score
      [] option = "price_asc"      -> f.fare
      [] option = "price_desc"     -> 0 - f.fare
      [] option = "duration_asc"   -> f.minutes
      [] option = "duration_desc"  -> 0 - f.minutes
      [] option = "departure_time" -> f.depart
      [] option = "arrival_time"   -> f.depart + f.minutes

\* comparator compares keys.
LEMMA LessByKey ==
  ASSUME NEW option \in SortOptions, NEW a \in FlightRec, NEW b \in FlightRec
  PROVE  /\ SortKey(option, a) \in Int /\ SortKey(option, b) \in Int
         /\ Less(option, a, b) <=> SortKey(option, a) < SortKey(option, b)
         /\ Less(option, b, a) <=> SortKey(option, b) < SortKey(option, a)
<1>1. /\ a.score \in Int /\ a.fare \in Int /\ a.minutes \in Int /\ a.depart \in Int
      /\ b.score \in Int /\ b.fare \in Int /\ b.minutes \in Int /\ b.depart \in Int
  BY DEF FlightRec
<1>2. \/ option = "best_value" \/ option = "price_asc" \/ option = "price_desc"
      \/ option = "duration_asc" \/ option = "duration_desc"
      \/ option = "departure_time" \/ option = "arrival_time"
  BY DEF SortOptions
<1>3. CASE option = "best_value"
  BY <1>1, <1>3 DEF SortKey, Less
<1>4. CASE option = "price_asc"
  BY <1>1, <1>4 DEF SortKey, Less
<1>5. CASE option = "price_desc"
  BY <1>1, <1>5 DEF SortKey, Less
<1>6. CASE option = "duration_asc"
  BY <1>1, <1>6 DEF SortKey, Less
<1>7. CASE option = "duration_desc"
  BY <1>1, <1>7 DEF SortKey, Less
<1>8. CASE option = "departure_time"
  BY <1>1, <1>8 DEF SortKey, Less
<1>9. CASE option = "arrival_time"
  BY <1>1, <1>9 DEF SortKey, Less
<1>10. QED
  BY <1>2, <1>3, <1>4, <1>5, <1>6, <1>7, <1>8, <1>9

\* The tie-break is a weak order in which only offers of one flight can be tied.
LEMMA TieBreakFacts ==
  ASSUME NEW a \in FlightRec, NEW b \in FlightRec, NEW c \in FlightRec
  PROVE  /\ TieBreak(a, b) => ~TieBreak(b, a)
         /\ TieBreak(a, c) => TieBreak(a, b) \/ TieBreak(b, c)
         /\ ~SameFlight(a, b) => TieBreak(a, b) \/ TieBreak(b, a)
<1>1. /\ a.fare \in Int /\ a.depart \in Int /\ a.number \in Int /\ a.provider \in Int
      /\ b.fare \in Int /\ b.depart \in Int /\ b.number \in Int /\ b.provider \in Int
      /\ c.fare \in Int /\ c.depart \in Int /\ c.number \in Int /\ c.provider \in Int
  BY DEF FlightRec
<1>2. QED
  BY <1>1 DEF TieBreak, SameFlight

\* Order and tie-break together are a weak order, for every option.
LEMMA ComesFirstFacts ==
  ASSUME NEW option \in SortOptions, NEW a \in FlightRec, NEW b \in FlightRec, NEW c \in FlightRec
  PROVE  /\ ComesFirst(option, a, b) => ~ComesFirst(option, b, a)
         /\ ComesFirst(option, a, c) => ComesFirst(option, a, b) \/ ComesFirst(option, b, c)
<1>1. /\ SortKey(option, a) \in Int /\ SortKey(option, b) \in Int /\ SortKey(option, c) \in Int
      /\ Less(option, a, b) <=> SortKey(option, a) < SortKey(option, b)
      /\ Less(option, b, a) <=> SortKey(option, b) < SortKey(option, a)
      /\ Less(option, a, c) <=> SortKey(option, a) < SortKey(option, c)
      /\ Less(option, c, a) <=> SortKey(option, c) < SortKey(option, a)
      /\ Less(option, b, c) <=> SortKey(option, b) < SortKey(option, c)
      /\ Less(option, c, b) <=> SortKey(option, c) < SortKey(option, b)
  BY LessByKey
<1>2. /\ TieBreak(a, b) => ~TieBreak(b, a)
      /\ TieBreak(a, c) => TieBreak(a, b) \/ TieBreak(b, c)
  BY TieBreakFacts
<1>3. QED
  BY <1>1, <1>2 DEF ComesFirst

\* What sortFlights makes of s.
Sorted(option, s) ==
    LET before(a, b) == ComesFirst(option, a, b)
    IN  StableSorted(s, before)

\* The answer's flights are those that were sorted, and none comes before one that precedes it.
LEMMA FlightsSorted ==
  ASSUME NEW option \in SortOptions, NEW s \in Seq(FlightRec)
  PROVE  LET n == Len(s)
             t == Sorted(option, s)
         IN  /\ t \in Seq(FlightRec) /\ Len(t) = n
             /\ \E perm \in [1 .. n -> 1 .. n] :
                   /\ \A k \in 1 .. n : t[k] = s[perm[k]]
                   /\ \A k, m \in 1 .. n : perm[k] = perm[m] => k = m
                   /\ \A i \in 1 .. n : \E k \in 1 .. n : perm[k] = i
             /\ \A k, m \in 1 .. n : k < m => ~ComesFirst(option, t[m], t[k])
<1> DEFINE n == Len(s)
           t == Sorted(option, s)
           L == {r \in (1 .. n) \X (1 .. n) : ComesFirst(option, s[r[1]], s[r[2]])}
           before(i, j) == \/ ComesFirst(option, s[i], s[j])
                           \/ (~ComesFirst(option, s[j], s[i]) /\ i < j)
           rank(i) == 1 + Cardinality({j \in DOMAIN s : before(j, i)})
           perm == [k \in 1 .. n |-> CHOOSE i \in DOMAIN s : rank(i) = k]
           ranks == [i \in 1 .. n |-> rank(i)]
<1>1. n \in Nat /\ DOMAIN s = 1 .. n /\ \A i \in 1 .. n : s[i] \in FlightRec
  OBVIOUS
<1>2. t = [k \in DOMAIN s |-> s[CHOOSE i \in DOMAIN s : rank(i) = k]]
  BY DEF Sorted, StableSorted
<1>3. \A i, j \in 1 .. n : <<i, j>> \in L <=> ComesFirst(option, s[i], s[j])
  OBVIOUS
<1>4. \A i, j \in 1 .. n : <<i, j>> \in Stably(n, L) <=> before(i, j)
  BY DEF Stably
<1> HIDE DEF L
<1>5. IsWeakOrder(n, L)
  BY <1>1, <1>3, ComesFirstFacts DEF IsWeakOrder
<1>6. ASSUME NEW i \in 1 .. n
      PROVE  ranks[i] = 1 + Cardinality({j \in 1 .. n : <<j, i>> \in Stably(n, L)})
  <2>1. {j \in DOMAIN s : before(j, i)} = {j \in 1 .. n : <<j, i>> \in Stably(n, L)}
    BY <1>1, <1>4
  <2>2. QED
    BY <2>1
<1> HIDE DEF rank
<1>7. /\ \A k \in 1 .. n : \E i \in 1 .. n : ranks[i] = k
      /\ \A p \in [1 .. n -> 1 .. n] : (\A k \in 1 .. n : ranks[p[k]] = k) => Arranges(n, L, p)
  <2> HIDE DEF ranks
  <2>1. QED
    BY <1>1, <1>5, <1>6, SortingArranges
<1>8. \A k \in 1 .. n : perm[k] \in 1 .. n /\ rank(perm[k]) = k
  <2> SUFFICES ASSUME NEW k \in 1 .. n PROVE perm[k] \in 1 .. n /\ rank(perm[k]) = k
    OBVIOUS
  <2>1. \E i \in DOMAIN s : rank(i) = k
    BY <1>1, <1>7
  <2>2. perm[k] = CHOOSE i \in DOMAIN s : rank(i) = k
    OBVIOUS
  <2>3. QED
    BY <1>1, <2>1, <2>2, Zenon
<1>9. \A k \in 1 .. n : t[k] = s[perm[k]]
  BY <1>1, <1>2
<1>10. perm \in [1 .. n -> 1 .. n]
  BY <1>8
<1>11. Arranges(n, L, perm)
  BY <1>7, <1>8, <1>10
<1> HIDE DEF perm, ranks
<1>12. t \in Seq(FlightRec) /\ Len(t) = n
  <2>1. \A k \in 1 .. n : t[k] \in FlightRec
    BY <1>1, <1>8, <1>9
  <2>2. t = [k \in 1 .. n |-> t[k]]
    BY <1>1, <1>2
  <2> HIDE DEF t
  <2>3. t \in [1 .. n -> FlightRec]
    BY <2>1, <2>2
  <2>4. QED
    BY <1>1, <2>3
<1>13. \A k, m \in 1 .. n : k < m => ~ComesFirst(option, t[m], t[k])
  BY <1>3, <1>8, <1>9, <1>11 DEF Arranges
<1>14. QED
  BY <1>9, <1>10, <1>11, <1>12, <1>13 DEF Arranges

-----------------------------------------------------------------------------
(* Merging offers of one flight (compare.go). *)

\* The fields of a flight, one by one.
LEMMA FlightFacts ==
  ASSUME NEW f \in FlightRec
  PROVE  /\ f.number \in Nat /\ f.provider \in Nat /\ f.fare \in Nat /\ f.depart \in Nat
         /\ f.minutes \in Nat /\ f.stops \in Nat
         /\ f.alternatives \in Seq(Alt) /\ Len(f.alternatives) \in Nat
  BY DEF FlightRec

\* An offer is a flight without alternatives.
LEMMA OfferFacts ==
  ASSUME NEW f \in Offers
  PROVE  f \in FlightRec /\ f.alternatives = << >>
<1>1. f \in [number : Nat, provider : Nat, airline : {f.airline}, fare : Nat \ {0},
             depart : Nat, minutes : Nat, stops : Nat, departClock : Nat, arriveClock : Nat,
             alternatives : {<< >>}, score : {0}]
  BY OfferAssumption
<1>2. << >> \in Seq(Alt)
  OBVIOUS
<1> DEFINE carriers == {g.airline : g \in Offers}
<1>3. f.airline \in carriers
  OBVIOUS
<1>4. /\ f = [number |-> f.number, provider |-> f.provider, airline |-> f.airline, fare |-> f.fare,
               depart |-> f.depart, minutes |-> f.minutes, stops |-> f.stops,
               departClock |-> f.departClock, arriveClock |-> f.arriveClock,
               alternatives |-> f.alternatives, score |-> f.score]
      /\ f.number \in Nat /\ f.provider \in Nat /\ f.fare \in Nat /\ f.depart \in Nat
      /\ f.minutes \in Nat /\ f.stops \in Nat /\ f.departClock \in Nat /\ f.arriveClock \in Nat
      /\ f.alternatives = << >> /\ f.score \in Int
  BY <1>1
<1> HIDE DEF carriers
<1>5. f \in [number : Nat, provider : Nat, airline : carriers, fare : Nat,
             depart : Nat, minutes : Nat, stops : Nat, departClock : Nat, arriveClock : Nat,
             alternatives : Seq(Alt), score : Int]
  BY <1>2, <1>3, <1>4, Zenon
<1>6. QED
  BY <1>4, <1>5 DEF FlightRec, carriers

\* The alternatives that f lists.
Listed(f) == {f.alternatives[k] : k \in DOMAIN f.alternatives}

\* They are listed by amount.
CheapestFirst(f) ==
    \A k, m \in DOMAIN f.alternatives :
        k < m => f.alternatives[k].amount <= f.alternatives[m].amount

\* The flight shown for two that are the same is the cheaper of them and lists what either lists,
\* and the other.
LEMMA MergedFacts ==
  ASSUME NEW e \in FlightRec, NEW f \in FlightRec, f.alternatives = << >>, SameFlight(e, f)
  PROVE  LET m == Merged(e, f)
         IN  /\ m \in FlightRec /\ m.number = e.number /\ m.depart = e.depart
             /\ m.fare <= e.fare /\ m.fare <= f.fare
             /\ Len(m.alternatives) = Len(e.alternatives) + 1
             /\ {Alternative(m)} \cup Listed(m) = {Alternative(e), Alternative(f)} \cup Listed(e)
             /\ CheapestFirst(m)
<1>1. /\ e.fare \in Nat /\ f.fare \in Nat /\ e.alternatives \in Seq(Alt)
      /\ f.number = e.number /\ f.depart = e.depart
      /\ Alternative(e) \in Alt /\ Alternative(f) \in Alt
  BY DEF FlightRec, SameFlight, Alternative, Alt
<1>2. ASSUME NEW g \in FlightRec, NEW x \in Alt,
             g.number = e.number, g.depart = e.depart, g.fare <= e.fare, g.fare <= f.fare,
             {Alternative(g), x} = {Alternative(e), Alternative(f)},
             NEW m, m = [g EXCEPT !.alternatives = SortedAlternatives(Append(e.alternatives, x))]
      PROVE  /\ m \in FlightRec /\ m.number = e.number /\ m.depart = e.depart
             /\ m.fare <= e.fare /\ m.fare <= f.fare
             /\ Len(m.alternatives) = Len(e.alternatives) + 1
             /\ {Alternative(m)} \cup Listed(m) = {Alternative(e), Alternative(f)} \cup Listed(e)
             /\ CheapestFirst(m)
  <2> DEFINE s == Append(e.alternatives, x)
             t == SortedAlternatives(s)
  <2>1. /\ s \in Seq(Alt) /\ Len(s) = Len(e.alternatives) + 1
        /\ {s[k] : k \in DOMAIN s} = Listed(e) \cup {x}
    <3> DEFINE a == e.alternatives
    <3>1. a \in Seq(Alt)
      BY <1>1
    <3> HIDE DEF a
    <3>2. /\ Append(a, x) \in Seq(Alt) /\ Len(Append(a, x)) = Len(a) + 1
          /\ \A k \in DOMAIN a : k \in DOMAIN Append(a, x) /\ Append(a, x)[k] = a[k]
          /\ Len(a) + 1 \in DOMAIN Append(a, x) /\ Append(a, x)[Len(a) + 1] = x
          /\ \A k \in DOMAIN Append(a, x) : k \in DOMAIN a \/ k = Len(a) + 1
      BY <1>2, <3>1
    <3>3. {Append(a, x)[k] : k \in DOMAIN Append(a, x)} = {a[k] : k \in DOMAIN a} \cup {x}
      BY <3>2
    <3>4. QED
      BY <3>2, <3>3 DEF Listed, a
  <2> HIDE DEF s
  <2>2. /\ t \in Seq(Alt) /\ Len(t) = Len(s)
        /\ {t[k] : k \in DOMAIN t} = {s[k] : k \in DOMAIN s}
        /\ \A k, n \in DOMAIN t : k < n => t[k].amount <= t[n].amount
    BY <2>1, AlternativesSorted
  <2> HIDE DEF t
  <2>3. m = [g EXCEPT !.alternatives = t]
    BY <1>2 DEF t, s
  <2>4. m \in FlightRec /\ m.alternatives = t
    BY <2>2, <2>3 DEF FlightRec
  <2>5. /\ m.number = g.number /\ m.depart = g.depart /\ m.fare = g.fare
        /\ m.provider = g.provider
    BY <2>3 DEF FlightRec
  <2>6. Alternative(m) = Alternative(g)
    BY <2>5 DEF Alternative
  <2>7. Listed(m) = Listed(e) \cup {x} /\ CheapestFirst(m)
    BY <2>1, <2>2, <2>4 DEF Listed, CheapestFirst
  <2>8. Len(m.alternatives) = Len(e.alternatives) + 1
    BY <2>1, <2>2, <2>4
  <2>9. QED
    BY <1>2, <2>4, <2>5, <2>6, <2>7, <2>8
<1>3. CASE f.fare < e.fare
  <2>1. f.alternatives \o e.alternatives = e.alternatives
    BY <1>1
  <2>2. Merged(e, f) = [f EXCEPT !.alternatives =
                           SortedAlternatives(Append(e.alternatives, Alternative(e)))]
    BY <1>3, <2>1 DEF Merged
  <2>3. {Alternative(f), Alternative(e)} = {Alternative(e), Alternative(f)}
    OBVIOUS
  <2>4. f.fare <= e.fare /\ f.fare <= f.fare
    BY <1>1, <1>3
  <2> DEFINE m == Merged(e, f)
  <2> HIDE DEF m
  <2>5. m = [f EXCEPT !.alternatives = SortedAlternatives(Append(e.alternatives, Alternative(e)))]
    BY <2>2 DEF m
  <2>6. QED
    BY <1>1, <1>2, <2>3, <2>4, <2>5, Zenon DEF m
<1>4. CASE ~(f.fare < e.fare)
  <2>1. Merged(e, f) = [e EXCEPT !.alternatives =
                           SortedAlternatives(Append(e.alternatives, Alternative(f)))]
    BY <1>4 DEF Merged
  <2>2. e.fare <= e.fare /\ e.fare <= f.fare
    BY <1>1, <1>4
  <2> DEFINE m == Merged(e, f)
  <2> HIDE DEF m
  <2>3. m = [e EXCEPT !.alternatives = SortedAlternatives(Append(e.alternatives, Alternative(f)))]
    BY <2>1 DEF m
  <2>4. QED
    BY <1>1, <1>2, <2>2, <2>3, Zenon DEF m
<1>5. QED
  BY <1>3, <1>4

\* The offers among the first n of s that sell the flight f.
Sellers(s, n, f) == {k \in 1 .. n : SameFlight(s[k], f)}

\* The flight f is what these offers come to.
Headline(s, n, f) ==
    /\ 1 + Len(f.alternatives) = Cardinality(Sellers(s, n, f))
    /\ \A k \in Sellers(s, n, f) : f.fare <= s[k].fare
    /\ {Alternative(s[k]) : k \in Sellers(s, n, f)} = {Alternative(f)} \cup Listed(f)
    /\ CheapestFirst(f)

\* One more offer is one more seller of its flight, and none of another.
LEMMA SellersFacts ==
  ASSUME NEW s, NEW n \in Nat, NEW f
  PROVE  /\ IsFiniteSet(Sellers(s, n, f)) /\ Cardinality(Sellers(s, n, f)) \in Nat
         /\ n + 1 \notin Sellers(s, n, f)
         /\ SameFlight(s[n + 1], f) =>
               /\ Sellers(s, n + 1, f) = Sellers(s, n, f) \cup {n + 1}
               /\ Cardinality(Sellers(s, n + 1, f)) = Cardinality(Sellers(s, n, f)) + 1
         /\ ~SameFlight(s[n + 1], f) => Sellers(s, n + 1, f) = Sellers(s, n, f)
<1>1. Sellers(s, n, f) \in SUBSET (1 .. n) /\ n + 1 \notin Sellers(s, n, f)
  BY DEF Sellers
<1>2. IsFiniteSet(Sellers(s, n, f)) /\ Cardinality(Sellers(s, n, f)) \in Nat
  <2>1. IsFiniteSet(1 .. n)
    BY FS_Interval
  <2>2. QED
    BY <1>1, <2>1, FS_Subset, FS_CardinalityType
<1>3. \A k : k \in 1 .. n + 1 <=> k \in 1 .. n \/ k = n + 1
  OBVIOUS
<1>4. ~SameFlight(s[n + 1], f) => Sellers(s, n + 1, f) = Sellers(s, n, f)
  BY <1>3 DEF Sellers
<1>5. SameFlight(s[n + 1], f) => Sellers(s, n + 1, f) = Sellers(s, n, f) \cup {n + 1}
  BY <1>3 DEF Sellers
<1>6. Cardinality(Sellers(s, n, f) \cup {n + 1}) = Cardinality(Sellers(s, n, f)) + 1
  BY <1>1, <1>2, FS_AddElement
<1>7. QED
  BY <1>1, <1>2, <1>4, <1>5, <1>6

\* An offer that sells another flight leaves it as it is.
LEMMA HeadlineStays ==
  ASSUME NEW s, NEW n \in Nat, NEW e, Headline(s, n, e), ~SameFlight(s[n + 1], e)
  PROVE  Headline(s, n + 1, e)
  BY SellersFacts DEF Headline

\* An offer of a flight not seen before is its own headline.
LEMMA HeadlineStarts ==
  ASSUME NEW s, NEW n \in Nat, NEW f \in Offers, s[n + 1] = f, Sellers(s, n, f) = {}
  PROVE  Headline(s, n + 1, f)
<1>1. f.alternatives = << >> /\ f.fare \in Nat
  BY OfferFacts, FlightFacts
<1>2. Sellers(s, n + 1, f) = {n + 1}
  <2>1. SameFlight(s[n + 1], f)
    BY DEF SameFlight
  <2>2. Sellers(s, n + 1, f) = Sellers(s, n, f) \cup {n + 1}
    BY <2>1, SellersFacts
  <2>3. QED
    BY <2>2
<1>3. Cardinality(Sellers(s, n + 1, f)) = 1
  BY <1>2, FS_Singleton
<1>4. Listed(f) = {} /\ CheapestFirst(f) /\ Len(f.alternatives) = 0
  BY <1>1 DEF Listed, CheapestFirst
<1>5. {Alternative(s[k]) : k \in Sellers(s, n + 1, f)} = {Alternative(f)}
  BY <1>2
<1>6. \A k \in Sellers(s, n + 1, f) : f.fare <= s[k].fare
  BY <1>1, <1>2
<1>7. QED
  BY <1>3, <1>4, <1>5, <1>6 DEF Headline

\* An offer of the same flight joins it.
LEMMA HeadlineMerges ==
  ASSUME NEW s, NEW n \in Nat, NEW e \in FlightRec, NEW f \in Offers, s[n + 1] = f,
         SameFlight(e, f), Headline(s, n, e), \A k \in 1 .. n : s[k] \in Offers
  PROVE  Headline(s, n + 1, Merged(e, f))
<1> DEFINE m == Merged(e, f)
<1>1. /\ m \in FlightRec /\ m.number = e.number /\ m.depart = e.depart
      /\ m.fare <= e.fare /\ m.fare <= f.fare
      /\ Len(m.alternatives) = Len(e.alternatives) + 1
      /\ {Alternative(m)} \cup Listed(m) = {Alternative(e), Alternative(f)} \cup Listed(e)
      /\ CheapestFirst(m)
  BY OfferFacts, MergedFacts
<1>2. e.fare \in Nat /\ f.fare \in Nat /\ m.fare \in Nat /\ Len(e.alternatives) \in Nat
  BY <1>1, OfferFacts, FlightFacts
<1> HIDE DEF m
<1>3. Sellers(s, n, m) = Sellers(s, n, e) /\ SameFlight(s[n + 1], m)
  BY <1>1 DEF Sellers, SameFlight
<1>4. /\ Sellers(s, n + 1, m) = Sellers(s, n, e) \cup {n + 1}
      /\ Cardinality(Sellers(s, n + 1, m)) = Cardinality(Sellers(s, n, e)) + 1
      /\ Cardinality(Sellers(s, n, e)) \in Nat
  BY <1>3, SellersFacts
<1>5. 1 + Len(m.alternatives) = Cardinality(Sellers(s, n + 1, m))
  BY <1>1, <1>2, <1>4 DEF Headline
<1>6. \A k \in Sellers(s, n + 1, m) : m.fare <= s[k].fare
  <2> SUFFICES ASSUME NEW k \in Sellers(s, n + 1, m) PROVE m.fare <= s[k].fare
    OBVIOUS
  <2>1. CASE k = n + 1
    BY <1>1, <2>1
  <2>2. CASE k \in Sellers(s, n, e)
    <3>1. e.fare <= s[k].fare /\ s[k].fare \in Nat
      BY <2>2, OfferFacts, FlightFacts DEF Headline, Sellers
    <3>2. QED
      BY <1>1, <1>2, <3>1
  <2>3. QED
    BY <1>4, <2>1, <2>2
<1>7. {Alternative(s[k]) : k \in Sellers(s, n + 1, m)} = {Alternative(m)} \cup Listed(m)
  <2>1. {Alternative(s[k]) : k \in Sellers(s, n + 1, m)}
          = {Alternative(s[k]) : k \in Sellers(s, n, e)} \cup {Alternative(f)}
    BY <1>4
  <2>2. {Alternative(s[k]) : k \in Sellers(s, n, e)} = {Alternative(e)} \cup Listed(e)
    BY DEF Headline
  <2>3. QED
    BY <1>1, <2>1, <2>2
<1>8. Headline(s, n + 1, m)
  BY <1>1, <1>5, <1>6, <1>7 DEF Headline
<1>9. QED
  BY <1>8 DEF m

-----------------------------------------------------------------------------
(* Deduplication, offer by offer (compare.go). *)

\* Deduped is the last of a series in which each offer joins what was kept before it.
LEMMA DedupedUnfolds ==
  ASSUME NEW s, Len(s) \in Nat
  PROVE  \E kept : /\ kept[0] = << >>
                   /\ \A n \in 1 .. Len(s) : kept[n] = Joined(kept[n - 1], s[n])
                   /\ Deduped(s) = kept[Len(s)]
<1> DEFINE Builds(g, m) == g = [n \in 0 .. m |-> IF n = 0 THEN << >> ELSE Joined(g[n - 1], s[n])]
           Bad == {m \in Nat : ~\E g : Builds(g, m)}
           kept == CHOOSE g : Builds(g, Len(s))
<1>1. Deduped(s) = kept[Len(s)]
  BY Zenon DEF Deduped
<1>2. \E g : Builds(g, 0)
  <2> DEFINE g == [n \in 0 .. 0 |-> << >>]
  <2>1. Builds(g, 0)
    OBVIOUS
  <2>2. QED
    BY <2>1
<1>3. ASSUME NEW m \in Nat, NEW g, Builds(g, m) PROVE \E h : Builds(h, m + 1)
  <2> DEFINE h == [n \in 0 .. m + 1 |-> IF n = m + 1 THEN Joined(g[m], s[m + 1]) ELSE g[n]]
  <2>1. \A n \in 0 .. m : g[n] = IF n = 0 THEN << >> ELSE Joined(g[n - 1], s[n])
    BY <1>3
  <2>2. \A n \in 0 .. m : h[n] = g[n]
    OBVIOUS
  <2>3. h[m + 1] = Joined(h[m], s[m + 1])
    BY <2>2
  <2>4. \A n \in 0 .. m + 1 : h[n] = IF n = 0 THEN << >> ELSE Joined(h[n - 1], s[n])
    <3> SUFFICES ASSUME NEW n \in 0 .. m + 1
                 PROVE  h[n] = IF n = 0 THEN << >> ELSE Joined(h[n - 1], s[n])
      OBVIOUS
    <3>1. CASE n = m + 1
      BY <2>3, <3>1
    <3>2. CASE n = 0
      BY <2>1, <2>2, <3>2
    <3>3. CASE n \in 1 .. m
      <4>1. h[n - 1] = g[n - 1] /\ h[n] = g[n] /\ n # 0 /\ n \in 0 .. m
        BY <2>2, <3>3
      <4>2. QED
        BY <2>1, <4>1
    <3>4. QED
      BY <3>1, <3>2, <3>3
  <2>5. h = [n \in 0 .. m + 1 |-> h[n]]
    OBVIOUS
  <2> HIDE DEF h
  <2>6. Builds(h, m + 1)
    BY <2>4, <2>5
  <2>7. QED
    BY <2>6
<1> HIDE DEF Builds
<1>4. Bad = {}
  <2> SUFFICES ASSUME Bad # {} PROVE FALSE
    OBVIOUS
  <2>1. PICK m \in Bad : \A k \in Bad : m <= k
    BY SmallestNat
  <2>2. m \in Nat /\ m # 0
    BY <1>2
  <2>3. m - 1 \in Nat /\ ~(m <= m - 1)
    BY <2>2
  <2>4. m - 1 \notin Bad
    BY <2>1, <2>3
  <2>5. PICK g : Builds(g, m - 1)
    BY <2>3, <2>4
  <2>6. \E h : Builds(h, m - 1 + 1)
    BY <1>3, <2>3, <2>5
  <2>7. m - 1 + 1 = m
    BY <2>2
  <2>8. QED
    BY <2>6, <2>7
<1>5. Builds(kept, Len(s))
  BY <1>4, Zenon
<1> HIDE DEF kept
<1>6. \A n \in 0 .. Len(s) : kept[n] = IF n = 0 THEN << >> ELSE Joined(kept[n - 1], s[n])
  BY <1>5 DEF Builds
<1>7. kept[0] = << >>
  BY <1>6
<1>8. ASSUME NEW n \in 1 .. Len(s) PROVE kept[n] = Joined(kept[n - 1], s[n])
  BY <1>6
<1>9. QED
  BY <1>1, <1>7, <1>8

\* The flights kept tell of the first n offers of s: one flight for each that is offered, and each
\* the headline of its offers.
Tells(s, n, kept) ==
    /\ kept \in Seq(FlightRec)
    /\ \A i, j \in DOMAIN kept : i # j => ~SameFlight(kept[i], kept[j])
    /\ \A k \in 1 .. n : \E i \in DOMAIN kept : SameFlight(s[k], kept[i])
    /\ \A i \in DOMAIN kept : Headline(s, n, kept[i])

\* An offer joins: the flights tell of one more.
LEMMA JoinedTells ==
  ASSUME NEW s \in Seq(Offers), NEW n \in Nat, n + 1 <= Len(s), NEW kept, Tells(s, n, kept)
  PROVE  Tells(s, n + 1, Joined(kept, s[n + 1]))
<1> DEFINE f == s[n + 1]
           seen == {i \in DOMAIN kept : SameFlight(kept[i], f)}
           next == Joined(kept, f)
<1>1. /\ n + 1 \in 1 .. Len(s) /\ f \in Offers /\ f \in FlightRec
      /\ \A k \in 1 .. n : s[k] \in Offers
  <2>1. n + 1 \in 1 .. Len(s) /\ f \in Offers /\ \A k \in 1 .. n : s[k] \in Offers
    OBVIOUS
  <2>2. QED
    BY <2>1, OfferFacts
<1>2. kept \in Seq(FlightRec) /\ Len(kept) \in Nat /\ DOMAIN kept = 1 .. Len(kept)
  BY DEF Tells
<1>3. \A k : k \in 1 .. n + 1 <=> k \in 1 .. n \/ k = n + 1
  OBVIOUS
<1>4. CASE seen = {}
  <2>1. next = Append(kept, f)
    BY <1>4 DEF Joined
  <2>2. /\ next \in Seq(FlightRec) /\ DOMAIN next = 1 .. Len(kept) + 1
        /\ \A i \in DOMAIN kept : next[i] = kept[i]
        /\ next[Len(kept) + 1] = f
    BY <1>1, <1>2, <2>1
  <2> HIDE DEF next
  <2>3. \A i \in DOMAIN kept : ~SameFlight(kept[i], f) /\ ~SameFlight(f, kept[i])
    BY <1>4 DEF SameFlight
  <2>4. \A i, j \in DOMAIN next : i # j => ~SameFlight(next[i], next[j])
    <3> SUFFICES ASSUME NEW i \in DOMAIN next, NEW j \in DOMAIN next, i # j
                 PROVE  ~SameFlight(next[i], next[j])
      OBVIOUS
    <3>1. /\ i \in DOMAIN kept \/ i = Len(kept) + 1
          /\ j \in DOMAIN kept \/ j = Len(kept) + 1
      BY <1>2, <2>2
    <3>2. QED
      BY <2>2, <2>3, <3>1 DEF Tells
  <2>5. Sellers(s, n, f) = {}
    <3> SUFFICES ASSUME NEW k \in 1 .. n, SameFlight(s[k], f) PROVE FALSE
      BY DEF Sellers
    <3>1. PICK i \in DOMAIN kept : SameFlight(s[k], kept[i])
      BY DEF Tells
    <3>2. SameFlight(kept[i], f)
      BY <3>1 DEF SameFlight
    <3>3. QED
      BY <2>3, <3>2
  <2>6. Headline(s, n + 1, f)
    BY <1>1, <2>5, HeadlineStarts
  <2>7. \A i \in DOMAIN kept : Headline(s, n + 1, kept[i])
    BY <2>3, HeadlineStays DEF Tells
  <2>8. \A i \in DOMAIN next : Headline(s, n + 1, next[i])
    <3> SUFFICES ASSUME NEW i \in DOMAIN next PROVE Headline(s, n + 1, next[i])
      OBVIOUS
    <3>1. i \in DOMAIN kept \/ i = Len(kept) + 1
      BY <1>2, <2>2
    <3>2. QED
      BY <2>2, <2>6, <2>7, <3>1
  <2>9. \A k \in 1 .. n + 1 : \E i \in DOMAIN next : SameFlight(s[k], next[i])
    <3> SUFFICES ASSUME NEW k \in 1 .. n + 1 PROVE \E i \in DOMAIN next : SameFlight(s[k], next[i])
      OBVIOUS
    <3>1. CASE k = n + 1
      <4>1. Len(kept) + 1 \in DOMAIN next /\ SameFlight(s[k], next[Len(kept) + 1])
        BY <1>2, <2>2, <3>1 DEF SameFlight
      <4>2. QED
        BY <4>1
    <3>2. CASE k \in 1 .. n
      <4>1. PICK i \in DOMAIN kept : SameFlight(s[k], kept[i])
        BY <3>2 DEF Tells
      <4>2. i \in DOMAIN next /\ next[i] = kept[i]
        BY <1>2, <2>2
      <4>3. QED
        BY <4>1, <4>2
    <3>3. QED
      BY <1>3, <3>1, <3>2
  <2>10. QED
    BY <2>2, <2>4, <2>8, <2>9 DEF Tells, next
<1>5. CASE seen # {}
  <2>1. next = [i \in DOMAIN kept |-> IF i \in seen THEN Merged(kept[i], f) ELSE kept[i]]
    BY <1>5 DEF Joined
  <2>2. DOMAIN next = DOMAIN kept
    BY <2>1
  <2>3. ASSUME NEW i \in DOMAIN kept
        PROVE  /\ next[i] \in FlightRec /\ Headline(s, n + 1, next[i])
               /\ next[i].number = kept[i].number /\ next[i].depart = kept[i].depart
    <3>1. kept[i] \in FlightRec /\ Headline(s, n, kept[i])
      BY <1>2 DEF Tells
    <3>2. CASE i \in seen
      <4>1. next[i] = Merged(kept[i], f) /\ SameFlight(kept[i], f) /\ f.alternatives = << >>
        BY <1>1, <2>1, <3>2, OfferFacts
      <4>2. Headline(s, n + 1, Merged(kept[i], f))
        BY <1>1, <3>1, <4>1, HeadlineMerges
      <4> HIDE DEF next, f
      <4>3. /\ Merged(kept[i], f) \in FlightRec
            /\ Merged(kept[i], f).number = kept[i].number
            /\ Merged(kept[i], f).depart = kept[i].depart
        BY <1>1, <3>1, <4>1, MergedFacts
      <4>4. QED
        BY <4>1, <4>2, <4>3
    <3>3. CASE i \notin seen
      <4>1. next[i] = kept[i] /\ ~SameFlight(f, kept[i])
        BY <2>1, <3>3 DEF SameFlight
      <4>2. QED
        BY <3>1, <4>1, HeadlineStays
    <3>4. QED
      BY <3>2, <3>3
  <2>4. next \in Seq(FlightRec)
    <3>1. next = [i \in 1 .. Len(kept) |-> next[i]]
      BY <1>2, <2>1
    <3> HIDE DEF next
    <3>2. next \in [1 .. Len(kept) -> FlightRec]
      BY <1>2, <2>3, <3>1
    <3>3. QED
      BY <1>2, <3>2
  <2> HIDE DEF next
  <2>5. \A i, j \in DOMAIN next : i # j => ~SameFlight(next[i], next[j])
    BY <2>2, <2>3 DEF Tells, SameFlight
  <2>6. PICK a \in DOMAIN kept : SameFlight(kept[a], f)
    BY <1>5
  <2>7. \A k \in 1 .. n + 1 : \E i \in DOMAIN next : SameFlight(s[k], next[i])
    <3> SUFFICES ASSUME NEW k \in 1 .. n + 1 PROVE \E i \in DOMAIN next : SameFlight(s[k], next[i])
      OBVIOUS
    <3>1. CASE k = n + 1
      <4>1. SameFlight(s[k], next[a])
        BY <2>3, <2>6, <3>1 DEF SameFlight
      <4>2. QED
        BY <2>2, <2>6, <4>1
    <3>2. CASE k \in 1 .. n
      <4>1. PICK i \in DOMAIN kept : SameFlight(s[k], kept[i])
        BY <3>2 DEF Tells
      <4>2. SameFlight(s[k], next[i])
        BY <2>3, <4>1 DEF SameFlight
      <4>3. QED
        BY <2>2, <4>1, <4>2
    <3>3. QED
      BY <1>3, <3>1, <3>2
  <2>8. QED
    BY <2>2, <2>3, <2>4, <2>5, <2>7 DEF Tells, next
<1>6. QED
  BY <1>4, <1>5

\* Deduplicated flights tell of all offers.
LEMMA DedupedTells ==
  ASSUME NEW s \in Seq(Offers)
  PROVE  Tells(s, Len(s), Deduped(s))
<1>1. Len(s) \in Nat
  OBVIOUS
<1>2. PICK kept : /\ kept[0] = << >>
                  /\ \A n \in 1 .. Len(s) : kept[n] = Joined(kept[n - 1], s[n])
                  /\ Deduped(s) = kept[Len(s)]
  BY <1>1, DedupedUnfolds
<1> DEFINE Bad == {n \in Nat : n <= Len(s) /\ ~Tells(s, n, kept[n])}
<1>3. Tells(s, 0, kept[0])
  <2>1. << >> \in Seq(FlightRec) /\ DOMAIN << >> = {} /\ 1 .. 0 = {}
    OBVIOUS
  <2>2. Tells(s, 0, << >>)
    BY <2>1 DEF Tells
  <2>3. QED
    BY <1>2, <2>2
<1>4. SUFFICES ASSUME Bad # {} PROVE FALSE
  BY <1>1, <1>2
<1>5. PICK n \in Bad : \A m \in Bad : n <= m
  BY <1>4, SmallestNat
<1>6. n \in Nat /\ n <= Len(s) /\ n # 0
  BY <1>3, <1>5
<1>7. /\ n - 1 \in Nat /\ n - 1 <= Len(s) /\ ~(n <= n - 1) /\ n \in 1 .. Len(s)
      /\ n - 1 + 1 = n
  BY <1>1, <1>6
<1>8. Tells(s, n - 1, kept[n - 1])
  BY <1>5, <1>7
<1>9. Tells(s, n - 1 + 1, Joined(kept[n - 1], s[n - 1 + 1]))
  BY <1>6, <1>7, <1>8, JoinedTells
<1>10. Tells(s, n, kept[n])
  BY <1>2, <1>7, <1>9
<1>11. QED
  BY <1>5, <1>10

-----------------------------------------------------------------------------
(* Filtering, offer by offer (filter.go). *)

\* What a filter that let kept through has after the offer f.
Taken(c, kept, f) == IF Keep(c, f) THEN Append(kept, f) ELSE kept

\* Passing is the last of a series in which each offer is taken or not.
LEMMA PassingUnfolds ==
  ASSUME NEW c, NEW s, Len(s) \in Nat
  PROVE  \E kept : /\ kept[0] = << >>
                   /\ \A n \in 1 .. Len(s) : kept[n] = Taken(c, kept[n - 1], s[n])
                   /\ Passing(c, s) = kept[Len(s)]
<1> DEFINE Builds(g, m) == g = [n \in 0 .. m |-> IF n = 0 THEN << >> ELSE Taken(c, g[n - 1], s[n])]
           Bad == {m \in Nat : ~\E g : Builds(g, m)}
           kept == CHOOSE g : Builds(g, Len(s))
<1>1. Passing(c, s) = kept[Len(s)]
  BY Zenon DEF Passing, Taken
<1>2. \E g : Builds(g, 0)
  <2> DEFINE g == [n \in 0 .. 0 |-> << >>]
  <2>1. Builds(g, 0)
    OBVIOUS
  <2>2. QED
    BY <2>1
<1>3. ASSUME NEW m \in Nat, NEW g, Builds(g, m) PROVE \E h : Builds(h, m + 1)
  <2> DEFINE h == [n \in 0 .. m + 1 |-> IF n = m + 1 THEN Taken(c, g[m], s[m + 1]) ELSE g[n]]
  <2>1. \A n \in 0 .. m : g[n] = IF n = 0 THEN << >> ELSE Taken(c, g[n - 1], s[n])
    BY <1>3
  <2>2. \A n \in 0 .. m : h[n] = g[n]
    OBVIOUS
  <2>3. h[m + 1] = Taken(c, h[m], s[m + 1])
    BY <2>2
  <2>4. \A n \in 0 .. m + 1 : h[n] = IF n = 0 THEN << >> ELSE Taken(c, h[n - 1], s[n])
    <3> SUFFICES ASSUME NEW n \in 0 .. m + 1
                 PROVE  h[n] = IF n = 0 THEN << >> ELSE Taken(c, h[n - 1], s[n])
      OBVIOUS
    <3>1. CASE n = m + 1
      BY <2>3, <3>1
    <3>2. CASE n = 0
      BY <2>1, <2>2, <3>2
    <3>3. CASE n \in 1 .. m
      <4>1. h[n - 1] = g[n - 1] /\ h[n] = g[n] /\ n # 0 /\ n \in 0 .. m
        BY <2>2, <3>3
      <4>2. QED
        BY <2>1, <4>1
    <3>4. QED
      BY <3>1, <3>2, <3>3
  <2>5. h = [n \in 0 .. m + 1 |-> h[n]]
    OBVIOUS
  <2> HIDE DEF h
  <2>6. Builds(h, m + 1)
    BY <2>4, <2>5
  <2>7. QED
    BY <2>6
<1> HIDE DEF Builds
<1>4. Bad = {}
  <2> SUFFICES ASSUME Bad # {} PROVE FALSE
    OBVIOUS
  <2>1. PICK m \in Bad : \A k \in Bad : m <= k
    BY SmallestNat
  <2>2. m \in Nat /\ m # 0
    BY <1>2
  <2>3. m - 1 \in Nat /\ ~(m <= m - 1)
    BY <2>2
  <2>4. m - 1 \notin Bad
    BY <2>1, <2>3
  <2>5. PICK g : Builds(g, m - 1)
    BY <2>3, <2>4
  <2>6. \E h : Builds(h, m - 1 + 1)
    BY <1>3, <2>3, <2>5
  <2>7. m - 1 + 1 = m
    BY <2>2
  <2>8. QED
    BY <2>6, <2>7
<1>5. Builds(kept, Len(s))
  BY <1>4, Zenon
<1> HIDE DEF kept
<1>6. \A n \in 0 .. Len(s) : kept[n] = IF n = 0 THEN << >> ELSE Taken(c, kept[n - 1], s[n])
  BY <1>5 DEF Builds
<1>7. kept[0] = << >>
  BY <1>6
<1>8. ASSUME NEW n \in 1 .. Len(s) PROVE kept[n] = Taken(c, kept[n - 1], s[n])
  BY <1>6
<1>9. QED
  BY <1>1, <1>7, <1>8

\* out is what c lets through of the first n offers of s: pos says where each was, no two come
\* from one place, and nothing that c keeps is missing.
Passes(c, s, n, out, pos) ==
    /\ out \in Seq(Offers) /\ pos \in [1 .. Len(out) -> 1 .. n]
    /\ \A j, k \in 1 .. Len(out) : pos[j] = pos[k] => j = k
    /\ \A j \in 1 .. Len(out) : out[j] = s[pos[j]] /\ Keep(c, s[pos[j]])
    /\ \A i \in 1 .. n : Keep(c, s[i]) => \E j \in 1 .. Len(out) : pos[j] = i

\* An offer is taken or not: the claim holds of one more.
LEMMA TakenPasses ==
  ASSUME NEW c, NEW s \in Seq(Offers), NEW n \in Nat, n + 1 <= Len(s), NEW out, NEW pos,
         Passes(c, s, n, out, pos)
  PROVE  \E next : Passes(c, s, n + 1, Taken(c, out, s[n + 1]), next)
<1>1. /\ s[n + 1] \in Offers /\ out \in Seq(Offers) /\ Len(out) \in Nat
      /\ \A i : i \in 1 .. n + 1 <=> i \in 1 .. n \/ i = n + 1
  BY DEF Passes
<1>2. CASE ~Keep(c, s[n + 1])
  <2>1. Taken(c, out, s[n + 1]) = out
    BY <1>2 DEF Taken
  <2>2. pos \in [1 .. Len(out) -> 1 .. n + 1]
    BY <1>1 DEF Passes
  <2>3. Passes(c, s, n + 1, out, pos)
    BY <1>1, <1>2, <2>2 DEF Passes
  <2>4. QED
    BY <2>1, <2>3
<1>3. CASE Keep(c, s[n + 1])
  <2> DEFINE m    == Len(out) + 1
             more == Append(out, s[n + 1])
             next == [j \in 1 .. m |-> IF j = m THEN n + 1 ELSE pos[j]]
  <2>1. Taken(c, out, s[n + 1]) = more
    BY <1>3 DEF Taken
  <2>2. /\ more \in Seq(Offers) /\ Len(more) = m /\ more[m] = s[n + 1]
        /\ \A j \in 1 .. Len(out) : more[j] = out[j]
        /\ m \in 1 .. m /\ \A j : j \in 1 .. m <=> j \in 1 .. Len(out) \/ j = m
        /\ m \notin 1 .. Len(out)
    BY <1>1
  <2>3. \A j \in 1 .. Len(out) : pos[j] \in 1 .. n
    BY DEF Passes
  <2>4. next[m] = n + 1 /\ \A j \in 1 .. Len(out) : next[j] = pos[j]
    BY <2>2
  <2>5. next \in [1 .. m -> 1 .. n + 1]
    BY <1>1, <2>2, <2>3
  <2> HIDE DEF m, more, next
  <2>6. n + 1 \notin 1 .. n
    OBVIOUS
  <2>7. \A j, k \in 1 .. m : next[j] = next[k] => j = k
    <3> SUFFICES ASSUME NEW j \in 1 .. m, NEW k \in 1 .. m, next[j] = next[k] PROVE j = k
      OBVIOUS
    <3>1. /\ j \in 1 .. Len(out) \/ j = m
          /\ k \in 1 .. Len(out) \/ k = m
      BY <2>2
    <3>2. CASE j \in 1 .. Len(out) /\ k \in 1 .. Len(out)
      BY <2>4, <3>2 DEF Passes
    <3>3. QED
      BY <2>3, <2>4, <2>6, <3>1, <3>2
  <2>8. \A j \in 1 .. m : more[j] = s[next[j]] /\ Keep(c, s[next[j]])
    BY <1>3, <2>2, <2>4 DEF Passes
  <2>9. \A i \in 1 .. n + 1 : Keep(c, s[i]) => \E j \in 1 .. m : next[j] = i
    <3> SUFFICES ASSUME NEW i \in 1 .. n + 1, Keep(c, s[i]) PROVE \E j \in 1 .. m : next[j] = i
      OBVIOUS
    <3>1. CASE i = n + 1
      BY <2>2, <2>4, <3>1
    <3>2. CASE i \in 1 .. n
      <4>1. PICK j \in 1 .. Len(out) : pos[j] = i
        BY <3>2 DEF Passes
      <4>2. j \in 1 .. m /\ next[j] = i
        BY <2>2, <2>4, <4>1
      <4>3. QED
        BY <4>2
    <3>3. QED
      BY <1>1, <3>1, <3>2
  <2>10. Passes(c, s, n + 1, more, next)
    BY <2>2, <2>5, <2>7, <2>8, <2>9 DEF Passes
  <2>11. QED
    BY <2>1, <2>10
<1>4. QED
  BY <1>2, <1>3

\* A filter lets through what it keeps.
LEMMA PassingPasses ==
  ASSUME NEW c, NEW s \in Seq(Offers)
  PROVE  \E pos : Passes(c, s, Len(s), Passing(c, s), pos)
<1>1. Len(s) \in Nat
  OBVIOUS
<1>2. PICK kept : /\ kept[0] = << >>
                  /\ \A n \in 1 .. Len(s) : kept[n] = Taken(c, kept[n - 1], s[n])
                  /\ Passing(c, s) = kept[Len(s)]
  BY <1>1, PassingUnfolds
<1> DEFINE Bad == {n \in Nat : n <= Len(s) /\ ~\E pos : Passes(c, s, n, kept[n], pos)}
<1>3. \E pos : Passes(c, s, 0, kept[0], pos)
  <2> DEFINE pos == [j \in 1 .. 0 |-> 0]
  <2>1. << >> \in Seq(Offers) /\ Len(<< >>) = 0 /\ 1 .. 0 = {} /\ pos \in [1 .. 0 -> 1 .. 0]
    OBVIOUS
  <2>2. Passes(c, s, 0, << >>, pos)
    BY <2>1 DEF Passes
  <2>3. QED
    BY <1>2, <2>2
<1>4. SUFFICES ASSUME Bad # {} PROVE FALSE
  BY <1>1, <1>2
<1>5. PICK n \in Bad : \A m \in Bad : n <= m
  BY <1>4, SmallestNat
<1>6. n \in Nat /\ n <= Len(s) /\ n # 0
  BY <1>3, <1>5
<1>7. /\ n - 1 \in Nat /\ n - 1 <= Len(s) /\ ~(n <= n - 1) /\ n \in 1 .. Len(s)
      /\ n - 1 + 1 = n
  BY <1>1, <1>6
<1>8. PICK pos : Passes(c, s, n - 1, kept[n - 1], pos)
  BY <1>5, <1>7
<1>9. \E next : Passes(c, s, n - 1 + 1, Taken(c, kept[n - 1], s[n - 1 + 1]), next)
  BY <1>6, <1>7, <1>8, TakenPasses
<1>10. \E next : Passes(c, s, n, kept[n], next)
  BY <1>2, <1>7, <1>9
<1>11. QED
  BY <1>5, <1>10

\* What applyFilters makes of s.
Filtered(s, c) == IF Empty(c) THEN s ELSE Passing(c, s)

\* No filter lets everything through.
LEMMA FilteredPasses ==
  ASSUME NEW c, NEW s \in Seq(Offers)
  PROVE  \E pos : Passes(c, s, Len(s), Filtered(s, c), pos)
<1>1. CASE Empty(c)
  <2> DEFINE pos == [j \in 1 .. Len(s) |-> j]
  <2>1. \A f : Keep(c, f)
    <3>1. /\ c.departAfter = Unset /\ c.departBefore = Unset
          /\ c.arriveAfter = Unset /\ c.arriveBefore = Unset
      <4>1. Clocks(c) = {Unset}
        BY <1>1 DEF Empty
      <4>2. QED
        BY <4>1 DEF Clocks
    <3>2. /\ c.minFare = 0 /\ c.maxFare = 0 /\ c.maxMinutes = 0 /\ c.airlines = {}
          /\ c.maxStops = Unset
      BY <1>1 DEF Empty
    <3>3. ~(0 > 0)
      OBVIOUS
    <3>4. QED
      BY <3>1, <3>2, <3>3, Zenon DEF Keep, AtLeast, AtMost
  <2>2. pos \in [1 .. Len(s) -> 1 .. Len(s)]
    OBVIOUS
  <2>3. Passes(c, s, Len(s), s, pos)
    BY <2>1, <2>2 DEF Passes
  <2>4. QED
    BY <1>1, <2>3 DEF Filtered
<1>2. CASE ~Empty(c)
  BY <1>2, PassingPasses DEF Filtered
<1>3. QED
  BY <1>1, <1>2

\* The offers of s that a filter keeps, and those of them that sell the flight f.
Chosen(c, s, n) == {i \in 1 .. n : Keep(c, s[i])}

ChosenSellers(c, s, n, f) == {i \in Chosen(c, s, n) : SameFlight(s[i], f)}

\* What passes a filter is as many as there are offers that it keeps, flight by flight.
LEMMA PassingCounts ==
  ASSUME NEW c, NEW s, NEW n \in Nat, NEW out, NEW pos, Passes(c, s, n, out, pos)
  PROVE  /\ Cardinality(Chosen(c, s, n)) = Len(out)
         /\ \A f : Cardinality(ChosenSellers(c, s, n, f)) = Cardinality(Sellers(out, Len(out), f))
<1> DEFINE chosen == {i \in 1 .. n : Keep(c, s[i])}
<1>1. /\ Len(out) \in Nat /\ IsFiniteSet(1 .. Len(out)) /\ Cardinality(1 .. Len(out)) = Len(out)
  <2>1. Len(out) \in Nat
    BY DEF Passes
  <2>2. \A k \in Nat : IsFiniteSet(1 .. k) /\ Cardinality(1 .. k) = k
    BY FS_Interval
  <2>3. QED
    BY <2>1, <2>2
<1>2. ASSUME NEW J \in SUBSET (1 .. Len(out)), NEW I, I = {pos[j] : j \in J}
      PROVE  Cardinality(I) = Cardinality(J)
  <2> DEFINE f == [j \in J |-> pos[j]]
  <2>1. IsFiniteSet(J)
    BY <1>1, FS_Subset
  <2>2. /\ f \in [J -> I] /\ (\A j, k \in J : f[j] = f[k] => j = k)
        /\ \A i \in I : \E j \in J : f[j] = i
    BY <1>2 DEF Passes
  <2> HIDE DEF f
  <2>3. f \in Bijection(J, I)
    BY <2>2 DEF Bijection, Injection, Surjection, IsInjective
  <2>4. ExistsBijection(J, I)
    BY <2>3 DEF ExistsBijection
  <2>5. QED
    BY <2>1, <2>4, FS_Bijection
<1>3. chosen = {pos[j] : j \in 1 .. Len(out)}
  <2>1. \A j \in 1 .. Len(out) : pos[j] \in chosen
    BY DEF Passes
  <2>2. \A i \in chosen : \E j \in 1 .. Len(out) : pos[j] = i
    BY DEF Passes
  <2> HIDE DEF chosen
  <2>3. QED
    BY <2>1, <2>2
<1>4. Cardinality(chosen) = Len(out)
  BY <1>1, <1>2, <1>3
<1>5. ASSUME NEW f
      PROVE  Cardinality({i \in chosen : SameFlight(s[i], f)})
                = Cardinality(Sellers(out, Len(out), f))
  <2> DEFINE I == {i \in chosen : SameFlight(s[i], f)}
             J == Sellers(out, Len(out), f)
  <2>1. J \in SUBSET (1 .. Len(out))
    BY DEF Sellers
  <2>2. \A j \in J : pos[j] \in I
    BY DEF Sellers, Passes
  <2>3. \A i \in I : \E j \in J : pos[j] = i
    BY DEF Sellers, Passes
  <2> HIDE DEF I, J
  <2>4. I = {pos[j] : j \in J}
    BY <2>2, <2>3
  <2>5. Cardinality(I) = Cardinality(J)
    BY <1>2, <2>1, <2>4
  <2>6. QED
    BY <2>5 DEF I, J
<1>6. QED
  BY <1>4, <1>5 DEF Chosen, ChosenSellers

-----------------------------------------------------------------------------
(* Scores (ranking.go): arithmetic first. *)

\* Division by a positive number.
LEMMA DivFacts ==
  ASSUME NEW a \in Int, NEW b \in Nat \ {0}
  PROVE  /\ a \div b \in Int
         /\ b * (a \div b) <= a /\ a < b * (a \div b) + b
  OBVIOUS

\* Products of naturals.
LEMMA Times ==
  ASSUME NEW a \in Nat, NEW b \in Nat, NEW c \in Nat
  PROVE  /\ a * b \in Nat /\ (a <= b => a * c <= b * c)
         /\ a * b = b * a /\ (a * b) * c = a * (b * c)
         /\ (a # 0 /\ b # 0 => a * b # 0)
  OBVIOUS

\* A quotient lies between what its bounds multiply out to.
LEMMA Quotients ==
  ASSUME NEW b \in Nat \ {0}, NEW x \in Int, NEW y \in Int, NEW k \in Int
  PROVE  /\ x \div b \in Int
         /\ x <= y => x \div b <= y \div b
         /\ k * b <= x => k <= x \div b
         /\ x < (k + 1) * b => x \div b <= k
<1> DEFINE q == x \div b
           r == y \div b
<1>1. /\ q \in Int /\ b * q <= x /\ x < b * q + b
      /\ r \in Int /\ b * r <= y /\ y < b * r + b
  BY DivFacts
<1> HIDE DEF q, r
<1>m. ASSUME NEW m \in Int, NEW n \in Int, m + 1 <= n PROVE b * m + b <= b * n
  <2>1. PICK d \in Nat : n = m + 1 + d
    <3>1. n - (m + 1) \in Nat /\ n = m + 1 + (n - (m + 1))
      BY <1>m
    <3>2. QED
      BY <3>1
  <2>2. b * n = b * m + b + b * d /\ b * d \in Nat
    BY <2>1
  <2>3. QED
    BY <2>2
<1>2. x <= y => q <= r
  <2> SUFFICES ASSUME x <= y, r + 1 <= q PROVE FALSE
    BY <1>1
  <2>1. b * r + b <= b * q
    BY <1>1, <1>m
  <2>2. b * q \in Int /\ b * r \in Int
    BY <1>1
  <2>3. QED
    BY <1>1, <2>1, <2>2
<1>3. k * b <= x => k <= q
  <2> SUFFICES ASSUME k * b <= x, q + 1 <= k PROVE FALSE
    BY <1>1
  <2>1. b * q + b <= b * k
    BY <1>1, <1>m
  <2>2. b * q \in Int /\ b * k \in Int /\ k * b = b * k
    BY <1>1
  <2>3. QED
    BY <1>1, <2>1, <2>2
<1>4. x < (k + 1) * b => q <= k
  <2> SUFFICES ASSUME x < (k + 1) * b, k + 1 <= q PROVE FALSE
    BY <1>1
  <2>1. b * k + b <= b * q
    BY <1>1, <1>m
  <2>2. b * q \in Int /\ b * k \in Int /\ (k + 1) * b = b * k + b
    BY <1>1
  <2>3. QED
    BY <1>1, <2>1, <2>2
<1>5. QED
  BY <1>1, <1>2, <1>3, <1>4 DEF q, r

\* The fares, times or stops of flights have a smallest and a largest.
LEMMA Extremes ==
  ASSUME NEW n \in Nat \ {0}, NEW v \in [1 .. n -> Nat]
  PROVE  LET S == {v[i] : i \in 1 .. n}
         IN  /\ Min(S) \in S /\ \A x \in S : Min(S) <= x
             /\ Max(S) \in S /\ \A x \in S : x <= Max(S)
<1> DEFINE S == {v[i] : i \in 1 .. n}
<1>1. S \in SUBSET Nat /\ v[1] \in S
  OBVIOUS
<1>2. Min(S) \in S /\ \A x \in S : Min(S) <= x
  <2>1. \E x \in S : \A y \in S : x <= y
    <3> HIDE DEF S
    <3>1. QED
      BY <1>1, SmallestNat
  <2> HIDE DEF S
  <2>2. QED
    BY <2>1, Zenon DEF Min
<1>3. \E i \in 1 .. n : \A j \in 1 .. n : v[j] <= v[i]
  <2> DEFINE Bad == {m \in Nat : m \in 1 .. n /\ ~\E i \in 1 .. m : \A j \in 1 .. m : v[j] <= v[i]}
  <2>1. SUFFICES ASSUME Bad # {} PROVE FALSE
    <3>1. n \in Nat /\ n \in 1 .. n
      OBVIOUS
    <3>2. n \in Bad \/ \E i \in 1 .. n : \A j \in 1 .. n : v[j] <= v[i]
      BY <3>1
    <3>3. QED
      BY <3>2
  <2>2. PICK m \in Bad : \A k \in Bad : m <= k
    BY <2>1, SmallestNat
  <2>3. m \in 1 .. n /\ m # 1
    <3>1. \A j \in 1 .. 1 : v[j] <= v[1]
      OBVIOUS
    <3>2. 1 \in 1 .. 1
      OBVIOUS
    <3>3. QED
      BY <2>2, <3>1, <3>2
  <2>4. m - 1 \in 1 .. n /\ m - 1 \in Nat /\ ~(m <= m - 1)
    BY <2>3
  <2>5. PICK i \in 1 .. m - 1 : \A j \in 1 .. m - 1 : v[j] <= v[i]
    BY <2>2, <2>4
  <2>6. /\ v[i] \in Nat /\ v[m] \in Nat /\ i \in 1 .. m /\ m \in 1 .. m
        /\ \A j \in 1 .. m : (j \in 1 .. m - 1 \/ j = m) /\ v[j] \in Nat
    BY <2>3, <2>4
  <2>7. CASE v[m] <= v[i]
    <3>1. \A j \in 1 .. m : v[j] <= v[i]
      BY <2>5, <2>6, <2>7
    <3>2. QED
      BY <2>2, <2>6, <3>1
  <2>8. CASE v[i] <= v[m]
    <3>1. \A j \in 1 .. m : v[j] <= v[m]
      BY <2>5, <2>6, <2>8
    <3>2. QED
      BY <2>2, <2>6, <3>1
  <2>9. QED
    BY <2>6, <2>7, <2>8
<1>4. Max(S) \in S /\ \A x \in S : x <= Max(S)
  <2>1. \E x \in S : \A y \in S : x >= y
    <3>1. PICK i \in 1 .. n : \A j \in 1 .. n : v[j] <= v[i]
      BY <1>3
    <3>2. \A y \in S : v[i] >= y
      BY <3>1
    <3>3. QED
      BY <3>2
  <2> HIDE DEF S
  <2>2. Max(S) \in S /\ \A y \in S : Max(S) >= y
    BY <2>1, Zenon DEF Max
  <2>3. QED
    BY <1>1, <2>2
<1>5. QED
  BY <1>2, <1>4

\* Fares, times and stops are naturals.
LEMMA DimensionFacts ==
  ASSUME NEW d \in 1 .. 3, NEW f \in FlightRec
  PROVE  Dimension(d, f) \in Nat
<1>1. d = 1 \/ d = 2 \/ d = 3
  OBVIOUS
<1>2. f.fare \in Nat /\ f.minutes \in Nat /\ f.stops \in Nat
  BY FlightFacts
<1>3. QED
  BY <1>1, <1>2 DEF Dimension

\* A dimension's spread is positive and no flight exceeds its smallest value by more; what is no
\* worse exceeds it by no more, and what is best by nothing.
LEMMA SpreadFacts ==
  ASSUME NEW s \in Seq(FlightRec), NEW i \in DOMAIN s, NEW d \in 1 .. 3
  PROVE  /\ Spread(d, s) \in Nat \ {0}
         /\ Excess(d, s, i) \in Nat /\ Excess(d, s, i) <= Spread(d, s)
         /\ \A j \in DOMAIN s :
               Dimension(d, s[i]) <= Dimension(d, s[j]) => Excess(d, s, i) <= Excess(d, s, j)
         /\ (\A j \in DOMAIN s : Dimension(d, s[i]) <= Dimension(d, s[j])) => Excess(d, s, i) = 0
<1> DEFINE n == Len(s)
           v == [k \in 1 .. n |-> Dimension(d, s[k])]
           S == {Dimension(d, s[k]) : k \in DOMAIN s}
<1>1. n \in Nat \ {0} /\ DOMAIN s = 1 .. n /\ \A k \in DOMAIN s : Dimension(d, s[k]) \in Nat
  BY DimensionFacts
<1>2. v \in [1 .. n -> Nat] /\ S = {v[k] : k \in 1 .. n}
  BY <1>1
<1>3. S \subseteq Nat /\ \A k \in DOMAIN s : Dimension(d, s[k]) \in S
  BY <1>1
<1>4. \A x \in S : \E k \in DOMAIN s : x = Dimension(d, s[k])
  OBVIOUS
<1>5. Spread(d, s) = IF Max(S) = Min(S) THEN 1 ELSE Max(S) - Min(S)
  BY DEF Spread
<1>6. \A k \in DOMAIN s : Excess(d, s, k) = Dimension(d, s[k]) - Min(S)
  BY DEF Excess
<1> HIDE DEF S
<1>7. /\ Min(S) \in S /\ \A x \in S : Min(S) <= x
      /\ Max(S) \in S /\ \A x \in S : x <= Max(S)
  <2> HIDE DEF v, n
  <2>1. QED
    BY <1>1, <1>2, Extremes
<1>8. Min(S) \in Nat /\ Max(S) \in Nat /\ Min(S) <= Max(S)
  BY <1>3, <1>7
<1>9. \A k \in DOMAIN s :
         Dimension(d, s[k]) \in Nat /\ Min(S) <= Dimension(d, s[k]) /\ Dimension(d, s[k]) <= Max(S)
  BY <1>1, <1>3, <1>7
<1> HIDE DEF n
<1>10. (\A j \in DOMAIN s : Dimension(d, s[i]) <= Dimension(d, s[j])) => Excess(d, s, i) = 0
  <2> SUFFICES ASSUME \A j \in DOMAIN s : Dimension(d, s[i]) <= Dimension(d, s[j])
               PROVE  Excess(d, s, i) = 0
    OBVIOUS
  <2>1. PICK k \in DOMAIN s : Min(S) = Dimension(d, s[k])
    BY <1>4, <1>7
  <2>2. Dimension(d, s[i]) <= Min(S)
    BY <2>1
  <2>3. Dimension(d, s[i]) = Min(S)
    BY <1>8, <1>9, <2>2
  <2>4. QED
    BY <1>6, <1>8, <2>3
<1>11. Spread(d, s) \in Nat \ {0}
  BY <1>5, <1>8
<1>12. Excess(d, s, i) \in Nat /\ Excess(d, s, i) <= Spread(d, s)
  BY <1>5, <1>6, <1>8, <1>9
<1>13. ASSUME NEW j \in DOMAIN s, Dimension(d, s[i]) <= Dimension(d, s[j])
       PROVE  Excess(d, s, i) <= Excess(d, s, j)
  BY <1>6, <1>8, <1>9, <1>13
<1>14. QED
  BY <1>10, <1>11, <1>12, <1>13

\* A penalty: the excesses a, b and c, each times what makes it a fraction of one denominator.
Weighed(a, p, b, q, c, r) == 5 * a * p + 3 * b * q + 2 * c * r

\* It grows with what it is made of.
LEMMA Penalties ==
  ASSUME NEW a \in Nat, NEW b \in Nat, NEW c \in Nat,
         NEW x \in Nat, NEW y \in Nat, NEW z \in Nat, a <= x, b <= y, c <= z,
         NEW p \in Nat, NEW q \in Nat, NEW r \in Nat
  PROVE  /\ Weighed(a, p, b, q, c, r) \in Nat
         /\ Weighed(a, p, b, q, c, r) <= Weighed(x, p, y, q, z, r)
<1>1. /\ a * p \in Nat /\ b * q \in Nat /\ c * r \in Nat
      /\ x * p \in Nat /\ y * q \in Nat /\ z * r \in Nat
      /\ a * p <= x * p /\ b * q <= y * q /\ c * r <= z * r
  BY Times
<1>2. /\ 5 * a * p = 5 * (a * p) /\ 3 * b * q = 3 * (b * q) /\ 2 * c * r = 2 * (c * r)
      /\ 5 * x * p = 5 * (x * p) /\ 3 * y * q = 3 * (y * q) /\ 2 * z * r = 2 * (z * r)
  OBVIOUS
<1> DEFINE A == a * p
           B == b * q
           C == c * r
           X == x * p
           Y == y * q
           Z == z * r
<1>3. /\ A \in Nat /\ B \in Nat /\ C \in Nat /\ X \in Nat /\ Y \in Nat /\ Z \in Nat
      /\ A <= X /\ B <= Y /\ C <= Z
  BY <1>1
<1>4. /\ 5 * a * p + 3 * b * q + 2 * c * r = 5 * A + 3 * B + 2 * C
      /\ 5 * x * p + 3 * y * q + 2 * z * r = 5 * X + 3 * Y + 2 * Z
  BY <1>2
<1> HIDE DEF A, B, C, X, Y, Z
<1>5. 5 * A + 3 * B + 2 * C \in Nat /\ 5 * A + 3 * B + 2 * C <= 5 * X + 3 * Y + 2 * Z
  BY <1>3
<1>6. QED
  BY <1>4, <1>5 DEF Weighed

\* What remains of the product when one of its factors is taken out.
LEMMA Shares ==
  ASSUME NEW x \in Nat \ {0}, NEW y \in Nat \ {0}, NEW z \in Nat \ {0}
  PROVE  LET all == x * y * z
         IN  /\ all \in Nat \ {0}
             /\ all \div x = y * z /\ all \div y = x * z /\ all \div z = x * y
             /\ x * (y * z) = all /\ y * (x * z) = all /\ z * (x * y) = all
<1> DEFINE all == x * y * z
<1>1. all \in Nat \ {0}
  BY Times
<1>2. x * (y * z) = all /\ y * (x * z) = all /\ z * (x * y) = all
  OBVIOUS
<1>3. y * z \in Int /\ x * z \in Int /\ x * y \in Int
  OBVIOUS
<1>4. ASSUME NEW b \in Nat \ {0}, NEW k \in Int, b * k = all PROVE all \div b = k
  <2>1. k * b = all /\ (k + 1) * b = all + b
    BY <1>4
  <2> HIDE DEF all
  <2>2. k <= all \div b /\ all \div b <= k /\ all \div b \in Int
    BY <1>1, <2>1, Quotients
  <2>3. QED
    BY <2>2
<1> HIDE DEF all
<1>5. all \div x = y * z /\ all \div y = x * z /\ all \div z = x * y
  BY <1>2, <1>3, <1>4
<1>6. QED
  BY <1>1, <1>2, <1>5 DEF all

\* The score of a penalty.
Points(all, penalty) == (2 * (1000 * all - 100 * penalty) + all) \div (2 * all)

\* A penalty p of no more than ten tenths scores between 0 and 100, and no less than a larger one.
FairPoints(all, p, q) ==
    /\ Points(all, p) \in 0 .. 1000
    /\ p = 0 => Points(all, p) = 1000
    /\ Points(all, q) <= Points(all, p)

\* Rounding keeps the order of penalties and the ends of the scale.
LEMMA PointsFacts ==
  ASSUME NEW all \in Nat \ {0}, NEW p \in Nat, p <= 10 * all, NEW q \in Nat, p <= q
  PROVE  FairPoints(all, p, q)
<1> DEFINE num(r) == 2 * (1000 * all - 100 * r) + all
           den == 2 * all
<1>1. den \in Nat \ {0} /\ num(p) \in Int /\ num(q) \in Int
  OBVIOUS
<1>2. 0 * den <= num(p) /\ num(p) < (1000 + 1) * den
  OBVIOUS
<1>3. p = 0 => 1000 * den <= num(p)
  OBVIOUS
<1>4. num(q) <= num(p)
  OBVIOUS
<1>5. Points(all, p) = num(p) \div den /\ Points(all, q) = num(q) \div den
  BY DEF Points
<1> HIDE DEF num, den
<1>6. num(p) \div den \in Int /\ 0 <= num(p) \div den /\ num(p) \div den <= 1000
  BY <1>1, <1>2, Quotients
<1>7. p = 0 => 1000 <= num(p) \div den
  BY <1>1, <1>3, Quotients
<1>8. num(q) \div den <= num(p) \div den
  BY <1>1, <1>4, Quotients
<1>9. QED
  BY <1>5, <1>6, <1>7, <1>8 DEF FairPoints

\* a is nowhere worse than b: ScoresAreFair's noWorse.
NoWorse(a, b) == a.fare <= b.fare /\ a.minutes <= b.minutes /\ a.stops <= b.stops

\* Scores are tenths of a point.
Tenths == 0 .. 1000

\* What ScoresAreFair asks of the score of one flight among others.
FairScore(s, i) ==
    /\ Score(s, i) \in Tenths
    /\ \A j \in DOMAIN s : NoWorse(s[i], s[j]) => Score(s, j) <= Score(s, i)
    /\ (\A j \in DOMAIN s : NoWorse(s[i], s[j])) => Score(s, i) = 1000

\* Scores are fair.
LEMMA ScoreFacts ==
  ASSUME NEW s \in Seq(FlightRec), NEW i \in DOMAIN s
  PROVE  FairScore(s, i)
<1> DEFINE x == Spread(1, s)
           y == Spread(2, s)
           z == Spread(3, s)
           all == x * y * z
           penalty(j) == Weighed(Excess(1, s, j), y * z, Excess(2, s, j), x * z,
                                 Excess(3, s, j), x * y)
<1>d. 1 \in 1 .. 3 /\ 2 \in 1 .. 3 /\ 3 \in 1 .. 3
  OBVIOUS
<1>w. Weight[1] = 5 /\ Weight[2] = 3 /\ Weight[3] = 2
  BY DEF Weight
<1>1. x \in Nat \ {0} /\ y \in Nat \ {0} /\ z \in Nat \ {0}
  BY <1>d, SpreadFacts
<1>2. \A j \in DOMAIN s :
         /\ Excess(1, s, j) \in Nat /\ Excess(1, s, j) <= x
         /\ Excess(2, s, j) \in Nat /\ Excess(2, s, j) <= y
         /\ Excess(3, s, j) \in Nat /\ Excess(3, s, j) <= z
  BY <1>d, SpreadFacts
<1>3. \A a, b : NoWorse(a, b) <=> \A d \in 1 .. 3 : Dimension(d, a) <= Dimension(d, b)
  <2>1. \A a : Dimension(1, a) = a.fare /\ Dimension(2, a) = a.minutes /\ Dimension(3, a) = a.stops
    BY DEF Dimension
  <2>2. \A d \in 1 .. 3 : d = 1 \/ d = 2 \/ d = 3
    OBVIOUS
  <2>3. QED
    BY <1>d, <2>1, <2>2 DEF NoWorse
<1>4. ASSUME NEW j \in DOMAIN s, NoWorse(s[i], s[j])
      PROVE  /\ Excess(1, s, i) <= Excess(1, s, j) /\ Excess(2, s, i) <= Excess(2, s, j)
             /\ Excess(3, s, i) <= Excess(3, s, j)
  BY <1>d, <1>3, <1>4, SpreadFacts
<1>5. ASSUME \A j \in DOMAIN s : NoWorse(s[i], s[j])
      PROVE  Excess(1, s, i) = 0 /\ Excess(2, s, i) = 0 /\ Excess(3, s, i) = 0
  BY <1>d, <1>3, <1>5, SpreadFacts
<1>6. /\ all \in Nat \ {0}
      /\ all \div x = y * z /\ all \div y = x * z /\ all \div z = x * y
      /\ x * (y * z) = all /\ y * (x * z) = all /\ z * (x * y) = all
      /\ y * z \in Nat /\ x * z \in Nat /\ x * y \in Nat
  <2> HIDE DEF x, y, z
  <2>1. QED
    BY <1>1, Shares, Times
<1>7. \A j : Score(s, j) = Points(all, penalty(j))
  BY <1>w, <1>6 DEF Score, Points, Weighed
<1> HIDE DEF x, y, z, all
<1>8. \A j \in DOMAIN s : penalty(j) \in Nat /\ penalty(j) <= 10 * all
  <2> SUFFICES ASSUME NEW j \in DOMAIN s PROVE penalty(j) \in Nat /\ penalty(j) <= 10 * all
    OBVIOUS
  <2>1. penalty(j) \in Nat /\ penalty(j) <= Weighed(x, y * z, y, x * z, z, x * y)
    <3>1. /\ Excess(1, s, j) \in Nat /\ Excess(1, s, j) <= x
          /\ Excess(2, s, j) \in Nat /\ Excess(2, s, j) <= y
          /\ Excess(3, s, j) \in Nat /\ Excess(3, s, j) <= z
          /\ x \in Nat /\ y \in Nat /\ z \in Nat
      BY <1>1, <1>2
    <3>2. QED
      BY <1>6, <3>1, Penalties, Zenon
  <2>2. 5 * x * (y * z) = 5 * all /\ 3 * y * (x * z) = 3 * all /\ 2 * z * (x * y) = 2 * all
    BY <1>1, <1>6
  <2>3. Weighed(x, y * z, y, x * z, z, x * y) = 5 * all + 3 * all + 2 * all
    BY <2>2 DEF Weighed
  <2>4. 5 * all + 3 * all + 2 * all = 10 * all
    BY <1>6
  <2>5. QED
    BY <2>1, <2>3, <2>4
<1>9. ASSUME NEW j \in DOMAIN s, NoWorse(s[i], s[j]) PROVE penalty(i) <= penalty(j)
  <2>1. /\ Excess(1, s, i) \in Nat /\ Excess(2, s, i) \in Nat /\ Excess(3, s, i) \in Nat
        /\ Excess(1, s, j) \in Nat /\ Excess(2, s, j) \in Nat /\ Excess(3, s, j) \in Nat
        /\ Excess(1, s, i) <= Excess(1, s, j) /\ Excess(2, s, i) <= Excess(2, s, j)
        /\ Excess(3, s, i) <= Excess(3, s, j)
    BY <1>2, <1>4, <1>9
  <2>2. QED
    BY <1>6, <2>1, Penalties, Zenon
<1>10. (\A j \in DOMAIN s : NoWorse(s[i], s[j])) => penalty(i) = 0
  <2> SUFFICES ASSUME \A j \in DOMAIN s : NoWorse(s[i], s[j]) PROVE penalty(i) = 0
    OBVIOUS
  <2>1. Excess(1, s, i) = 0 /\ Excess(2, s, i) = 0 /\ Excess(3, s, i) = 0
    BY <1>5
  <2>2. QED
    BY <1>6, <2>1 DEF Weighed
<1> HIDE DEF penalty
<1>11. ASSUME NEW j \in DOMAIN s, penalty(i) <= penalty(j)
       PROVE  FairPoints(all, penalty(i), penalty(j))
  <2>1. /\ all \in Nat \ {0} /\ penalty(i) \in Nat /\ penalty(i) <= 10 * all
        /\ penalty(j) \in Nat
    BY <1>6, <1>8
  <2>2. QED
    BY <1>11, <2>1, PointsFacts
<1>12. ASSUME NEW j \in DOMAIN s, NoWorse(s[i], s[j]) PROVE Score(s, j) <= Score(s, i)
  BY <1>7, <1>9, <1>11, <1>12 DEF FairPoints
<1>13. Score(s, i) \in Tenths /\ (penalty(i) = 0 => Score(s, i) = 1000)
  <2>1. penalty(i) <= penalty(i)
    BY <1>8
  <2>2. FairPoints(all, penalty(i), penalty(i))
    BY <1>11, <2>1
  <2>3. Score(s, i) = Points(all, penalty(i))
    BY <1>7
  <2>4. QED
    BY <2>2, <2>3 DEF FairPoints, Tenths
<1>14. QED
  BY <1>10, <1>12, <1>13 DEF FairScore

-----------------------------------------------------------------------------
(* What scoring and sorting leave as it was. *)

\* What scoreBestValue makes of s.
Scored(s) ==
    [i \in DOMAIN s |-> [s[i] EXCEPT !.score = IF Len(s) = 1 THEN 1000 ELSE Score(s, i)]]

\* The same flight but for its score.
Likewise(f, g) ==
    /\ f.number = g.number /\ f.provider = g.provider /\ f.fare = g.fare /\ f.depart = g.depart
    /\ f.minutes = g.minutes /\ f.stops = g.stops /\ f.alternatives = g.alternatives

\* What ScoresAreFair asks of flights, at one of them.
FairlyScored(s, i) ==
    /\ s[i].score \in Tenths
    /\ \A j \in DOMAIN s : NoWorse(s[i], s[j]) => s[j].score <= s[i].score
    /\ (\A j \in DOMAIN s : NoWorse(s[i], s[j])) => s[i].score = 1000

\* The scores of the flights, as scoreBestValue gives them.
Awards(s, points) ==
    /\ points \in [DOMAIN s -> Tenths]
    /\ Scored(s) = [i \in DOMAIN s |-> [s[i] EXCEPT !.score = points[i]]]
    /\ \A i, j \in DOMAIN s : NoWorse(s[i], s[j]) => points[j] <= points[i]
    /\ \A i \in DOMAIN s : (\A j \in DOMAIN s : NoWorse(s[i], s[j])) => points[i] = 1000

\* A single flight scores full marks, and several score what ScoreFacts says.
LEMMA ScoresAwarded ==
  ASSUME NEW s \in Seq(FlightRec)
  PROVE  \E points : Awards(s, points)
<1> DEFINE points == [i \in DOMAIN s |-> IF Len(s) = 1 THEN 1000 ELSE Score(s, i)]
<1>1. Scored(s) = [i \in DOMAIN s |-> [s[i] EXCEPT !.score = points[i]]]
  BY DEF Scored
<1>2. points = [i \in DOMAIN s |-> points[i]]
  OBVIOUS
<1>3. CASE Len(s) = 1
  <2>1. \A i \in DOMAIN s : points[i] = 1000
    BY <1>3
  <2>2. 1000 \in Tenths
    BY DEF Tenths
  <2> HIDE DEF points
  <2>3. points \in [DOMAIN s -> Tenths]
    BY <1>2, <2>1, <2>2
  <2>4. Awards(s, points)
    BY <1>1, <2>1, <2>3 DEF Awards
  <2>5. QED
    BY <2>4
<1>4. CASE Len(s) # 1
  <2>1. \A i \in DOMAIN s : points[i] = Score(s, i)
    BY <1>4
  <2>2. \A i \in DOMAIN s : Score(s, i) \in Tenths
    BY ScoreFacts DEF FairScore
  <2> HIDE DEF points
  <2>3. points \in [DOMAIN s -> Tenths]
    BY <1>2, <2>1, <2>2
  <2>4. ASSUME NEW i \in DOMAIN s, NEW j \in DOMAIN s, NoWorse(s[i], s[j])
        PROVE  points[j] <= points[i]
    <3>1. Score(s, j) <= Score(s, i)
      BY <2>4, ScoreFacts DEF FairScore
    <3>2. QED
      BY <2>1, <3>1
  <2>5. ASSUME NEW i \in DOMAIN s, \A j \in DOMAIN s : NoWorse(s[i], s[j])
        PROVE  points[i] = 1000
    <3>1. Score(s, i) = 1000
      BY <2>5, ScoreFacts DEF FairScore
    <3>2. QED
      BY <2>1, <3>1
  <2>6. Awards(s, points)
    BY <1>1, <2>3, <2>4, <2>5 DEF Awards
  <2>7. QED
    BY <2>6
<1>5. QED
  BY <1>3, <1>4

\* Scoring changes nothing but the scores, and those are fair.
LEMMA ScoredFacts ==
  ASSUME NEW s \in Seq(FlightRec)
  PROVE  LET t == Scored(s)
         IN  /\ t \in Seq(FlightRec) /\ DOMAIN t = DOMAIN s
             /\ \A i \in DOMAIN s : Likewise(t[i], s[i]) /\ FairlyScored(t, i)
<1> DEFINE t == Scored(s)
<1>1. Len(s) \in Nat /\ DOMAIN s = 1 .. Len(s) /\ \A i \in DOMAIN s : s[i] \in FlightRec
  OBVIOUS
<1>2. PICK points : Awards(s, points)
  BY ScoresAwarded
<1> HIDE DEF t
<1>3. t = [i \in DOMAIN s |-> t[i]] /\ DOMAIN t = DOMAIN s
  BY <1>2 DEF Awards, t
<1>4. \A i \in DOMAIN s : t[i] = [s[i] EXCEPT !.score = points[i]] /\ points[i] \in Tenths
  BY <1>2 DEF Awards, t
<1>5. ASSUME NEW i \in DOMAIN s
      PROVE  t[i] \in FlightRec /\ Likewise(t[i], s[i]) /\ t[i].score = points[i]
  <2>1. s[i] \in FlightRec /\ points[i] \in Int
    <3>1. Tenths \subseteq Int
      BY DEF Tenths
    <3>2. QED
      BY <1>1, <1>4, <3>1
  <2>2. t[i] = [s[i] EXCEPT !.score = points[i]]
    BY <1>4
  <2>3. t[i] \in FlightRec
    BY <2>1, <2>2 DEF FlightRec
  <2>4. Likewise(t[i], s[i]) /\ t[i].score = points[i]
    BY <2>1, <2>2 DEF FlightRec, Likewise
  <2>5. QED
    BY <2>3, <2>4
<1>6. t \in Seq(FlightRec)
  <2>1. t \in [1 .. Len(s) -> FlightRec]
    BY <1>1, <1>3, <1>5
  <2>2. QED
    BY <1>1, <2>1
<1>7. \A i, j \in DOMAIN s : NoWorse(t[i], t[j]) <=> NoWorse(s[i], s[j])
  BY <1>5 DEF NoWorse, Likewise
<1>8. ASSUME NEW i \in DOMAIN s PROVE FairlyScored(t, i)
  <2>1. t[i].score \in Tenths
    BY <1>4, <1>5
  <2>2. ASSUME NEW j \in DOMAIN s, NoWorse(t[i], t[j]) PROVE t[j].score <= t[i].score
    <3>1. points[j] <= points[i]
      BY <1>2, <1>3, <1>7, <2>2 DEF Awards
    <3>2. QED
      BY <1>5, <3>1
  <2>3. ASSUME \A j \in DOMAIN s : NoWorse(t[i], t[j]) PROVE t[i].score = 1000
    <3>1. points[i] = 1000
      BY <1>2, <1>3, <1>7, <2>3 DEF Awards
    <3>2. QED
      BY <1>5, <3>1
  <2>4. QED
    BY <1>3, <2>1, <2>2, <2>3 DEF FairlyScored
<1>9. QED
  BY <1>3, <1>5, <1>6, <1>8 DEF t

\* t is kept in another order, perm, and maybe with other scores.
Rearranges(t, kept, perm) ==
    /\ perm \in [DOMAIN t -> DOMAIN kept]
    /\ \A k \in DOMAIN t : Likewise(t[k], kept[perm[k]])
    /\ \A k, m \in DOMAIN t : perm[k] = perm[m] => k = m
    /\ \A i \in DOMAIN kept : \E k \in DOMAIN t : perm[k] = i

\* Flights tell the same in another order and with other scores.
LEMMA TellsLikewise ==
  ASSUME NEW s, NEW n \in Nat, NEW kept, Tells(s, n, kept), NEW t \in Seq(FlightRec),
         NEW perm, Rearranges(t, kept, perm)
  PROVE  Tells(s, n, t)
<1>0. /\ perm \in [DOMAIN t -> DOMAIN kept]
      /\ \A k \in DOMAIN t : Likewise(t[k], kept[perm[k]])
      /\ \A k, m \in DOMAIN t : perm[k] = perm[m] => k = m
      /\ \A i \in DOMAIN kept : \E k \in DOMAIN t : perm[k] = i
  BY DEF Rearranges
<1>1. \A f, g, h : Likewise(f, g) => (SameFlight(f, h) <=> SameFlight(g, h))
                                       /\ (SameFlight(h, f) <=> SameFlight(h, g))
  BY DEF Likewise, SameFlight
<1>2. ASSUME NEW f, NEW g, Likewise(f, g), Headline(s, n, g) PROVE Headline(s, n, f)
  <2>1. Sellers(s, n, f) = Sellers(s, n, g)
    BY <1>2 DEF Sellers, Likewise, SameFlight
  <2>2. f.alternatives = g.alternatives /\ f.fare = g.fare /\ Alternative(f) = Alternative(g)
    BY <1>2 DEF Likewise, Alternative
  <2>3. Listed(f) = Listed(g) /\ (CheapestFirst(f) <=> CheapestFirst(g))
    BY <2>2 DEF Listed, CheapestFirst
  <2>4. QED
    BY <1>2, <2>1, <2>2, <2>3 DEF Headline
<1>3. \A k \in DOMAIN t : perm[k] \in DOMAIN kept
  BY <1>0
<1>4. \A k \in DOMAIN t : Headline(s, n, t[k])
  BY <1>0, <1>2, <1>3 DEF Tells
<1>5. ASSUME NEW k \in DOMAIN t, NEW m \in DOMAIN t, k # m PROVE ~SameFlight(t[k], t[m])
  <2>1. perm[k] # perm[m] /\ perm[k] \in DOMAIN kept /\ perm[m] \in DOMAIN kept
    BY <1>0, <1>3, <1>5
  <2>2. ~SameFlight(kept[perm[k]], kept[perm[m]])
    BY <2>1 DEF Tells
  <2>3. QED
    BY <1>0, <2>2 DEF Likewise, SameFlight
<1>6. ASSUME NEW k \in 1 .. n PROVE \E i \in DOMAIN t : SameFlight(s[k], t[i])
  <2>1. PICK i \in DOMAIN kept : SameFlight(s[k], kept[i])
    BY <1>6 DEF Tells
  <2>2. PICK j \in DOMAIN t : perm[j] = i
    BY <1>0, <2>1
  <2>3. SameFlight(s[k], t[j])
    BY <1>0, <2>1, <2>2 DEF Likewise, SameFlight
  <2>4. QED
    BY <2>2, <2>3
<1>7. QED
  BY <1>4, <1>5, <1>6 DEF Tells

\* Scored flights tell the same.
LEMMA ScoringTells ==
  ASSUME NEW s, NEW n \in Nat, NEW kept, Tells(s, n, kept)
  PROVE  Tells(s, n, Scored(kept))
<1> DEFINE t == Scored(kept)
           perm == [k \in DOMAIN t |-> k]
<1>1. /\ t \in Seq(FlightRec) /\ DOMAIN t = DOMAIN kept
      /\ \A k \in DOMAIN kept : Likewise(t[k], kept[k])
  BY ScoredFacts DEF Tells
<1> HIDE DEF t
<1>2. Rearranges(t, kept, perm)
  BY <1>1 DEF Rearranges
<1> HIDE DEF perm
<1>3. Tells(s, n, t)
  BY <1>1, <1>2, TellsLikewise
<1>4. QED
  BY <1>3 DEF t

\* Sorting puts the flights in another order.
LEMMA SortingRearranges ==
  ASSUME NEW option \in SortOptions, NEW s \in Seq(FlightRec)
  PROVE  /\ Sorted(option, s) \in Seq(FlightRec)
         /\ \E perm : /\ Rearranges(Sorted(option, s), s, perm)
                      /\ \A k \in DOMAIN Sorted(option, s) : Sorted(option, s)[k] = s[perm[k]]
<1> DEFINE t == Sorted(option, s)
           m == Len(s)
<1>1. m \in Nat /\ DOMAIN s = 1 .. m
  OBVIOUS
<1>2. /\ t \in Seq(FlightRec) /\ Len(t) = m
      /\ \E perm \in [1 .. m -> 1 .. m] :
            /\ \A k \in 1 .. m : t[k] = s[perm[k]]
            /\ \A k, l \in 1 .. m : perm[k] = perm[l] => k = l
            /\ \A i \in 1 .. m : \E k \in 1 .. m : perm[k] = i
  BY FlightsSorted
<1> HIDE DEF t, m
<1>3. PICK perm \in [1 .. m -> 1 .. m] :
            /\ \A k \in 1 .. m : t[k] = s[perm[k]]
            /\ \A k, l \in 1 .. m : perm[k] = perm[l] => k = l
            /\ \A i \in 1 .. m : \E k \in 1 .. m : perm[k] = i
  BY <1>2
<1>4. DOMAIN t = 1 .. m
  BY <1>1, <1>2
<1>5. \A k \in 1 .. m : Likewise(t[k], s[perm[k]])
  BY <1>3 DEF Likewise
<1>6. Rearranges(t, s, perm)
  BY <1>1, <1>3, <1>4, <1>5 DEF Rearranges
<1>7. \A k \in DOMAIN t : t[k] = s[perm[k]]
  BY <1>3, <1>4
<1>8. QED
  BY <1>2, <1>6, <1>7 DEF t

\* Sorted flights tell the same.
LEMMA SortingTells ==
  ASSUME NEW s, NEW n \in Nat, NEW kept, Tells(s, n, kept), NEW option \in SortOptions
  PROVE  Tells(s, n, Sorted(option, kept))
<1>1. kept \in Seq(FlightRec)
  BY DEF Tells
<1>2. PICK perm : Rearranges(Sorted(option, kept), kept, perm)
  BY <1>1, SortingRearranges
<1>3. Sorted(option, kept) \in Seq(FlightRec)
  BY <1>1, SortingRearranges
<1>4. QED
  BY <1>2, <1>3, TellsLikewise

-----------------------------------------------------------------------------
(* The stages, whatever other legs are doing in the meantime. *)

\* What leg p has after each stage is what its own stages make of the aggregate, and its counts
\* say by how much each made it shorter. It reads the cache's slice until it has copied it, and
\* writes into slices of its own.
LegInv(p) ==
    LET c == legs[p].filter
        f == Filtered(given, c)
        d == Deduped(f)
    IN  /\ legs[p].at \in {"idle", "refused", "filter", "dedupe", "score", "sort", "done"}
        /\ legs[p].at \in {"filter", "dedupe", "score", "sort", "done"} =>
              legs[p].sort \in SortOptions
        /\ legs[p].at = "filter" => legs[p].slice = Cached
        /\ legs[p].at \in {"dedupe", "score", "sort", "done"} =>
              legs[p].filtered = Len(given) - Len(f)
        /\ legs[p].at = "dedupe" =>
              legs[p].slice \in {Cached, <<p, "filtered">>} /\ Flights(p) = f
        /\ legs[p].at \in {"score", "sort", "done"} =>
              legs[p].slice = <<p, "deduped">> /\ legs[p].merged = Len(f) - Len(d)
        /\ legs[p].at = "score" => Flights(p) = d
        /\ legs[p].at = "sort" => Flights(p) = Scored(d)
        /\ legs[p].at = "done" => Flights(p) = Sorted(legs[p].sort, Scored(d))

\* The inductive invariant: nobody has written into the aggregate, and every leg is where its own
\* stages have taken it.
PipeInv ==
    /\ DOMAIN heap = Refs /\ DOMAIN legs = Procs
    /\ given \in Seq(Offers) /\ heap[Cached] = given
    /\ \A p \in Procs : LegInv(p)

\* A leg that writes through a slice of its own disturbs neither the cache nor another leg.
LEMMA OwnSlice ==
  ASSUME PipeInv, NEW p \in Procs, NEW stage \in Stages, NEW v, given' = given,
         heap' = heap \/ heap' = [heap EXCEPT ![<<p, stage>>] = v],
         \A q \in Procs : q # p => legs'[q] = legs[q], DOMAIN legs' = Procs, LegInv(p)'
  PROVE  PipeInv'
<1>1. /\ <<p, stage>> \in Refs /\ <<p, stage>> # Cached /\ Cached \in Refs /\ DOMAIN heap = Refs
  BY CachedAssumption DEF Refs, PipeInv
<1>2. DOMAIN heap' = Refs /\ \A r \in Refs : r # <<p, stage>> => heap'[r] = heap[r]
  BY <1>1
<1>3. heap'[Cached] = given' /\ given' \in Seq(Offers)
  BY <1>1, <1>2 DEF PipeInv
<1>4. ASSUME NEW q \in Procs, q # p PROVE LegInv(q)'
  <2>1. LegInv(q) /\ legs'[q] = legs[q]
    BY <1>4 DEF PipeInv
  <2>2. legs[q].slice \in {Cached, <<q, "filtered">>, <<q, "deduped">>} => Flights(q)' = Flights(q)
    BY <1>1, <1>2, <1>4, <2>1 DEF Flights, Refs, Stages
  <2>3. QED
    BY <2>1, <2>2 DEF LegInv
<1>5. QED
  BY <1>2, <1>3, <1>4 DEF PipeInv

\* Every stage is the leg's own.
LEMMA StageKeeps ==
  ASSUME PipeInv, NEW p \in Procs, Start(p) \/ Filter(p) \/ Dedupe(p) \/ ScoreAll(p) \/ Sort(p)
  PROVE  PipeInv'
<1>1. LegInv(p) /\ DOMAIN legs = Procs /\ DOMAIN heap = Refs /\ heap[Cached] = given
  BY DEF PipeInv
<1>2. \A stage \in Stages : <<p, stage>> \in Refs
  BY DEF Refs
<1>3. CASE Start(p)
  <2>1. PICK r \in Requests : legs' = [legs EXCEPT ![p] =
              IF Rejects(r.raw) THEN [at |-> "refused"]
              ELSE [at |-> "filter", filter |-> Compiled(r.raw), sort |-> r.sort, slice |-> Cached]]
    BY <1>3 DEF Start
  <2>2. r.sort \in SortOptions
    BY RequestAssumption
  <2>3. \/ legs'[p].at = "refused"
        \/ legs'[p].at = "filter" /\ legs'[p].sort \in SortOptions /\ legs'[p].slice = Cached
    BY <1>1, <2>1, <2>2
  <2>4. LegInv(p)'
    BY <2>3 DEF LegInv
  <2>5. QED
    BY <1>1, <1>3, <2>1, <2>4, OwnSlice DEF Start, Stages
<1>4. CASE Filter(p)
  <2> DEFINE kept == Passing(legs[p].filter, Flights(p))
             f    == Filtered(given, legs[p].filter)
  <2>1. /\ legs[p].at = "filter" /\ legs[p].slice = Cached /\ legs[p].sort \in SortOptions
        /\ Flights(p) = given /\ given' = given
    BY <1>1, <1>4 DEF Filter, LegInv, Flights
  <2>2. /\ Empty(legs[p].filter) => f = given
        /\ ~Empty(legs[p].filter) => f = kept
    BY <2>1 DEF Filtered
  <2>3. /\ legs'[p].at = "dedupe" /\ legs'[p].filter = legs[p].filter
        /\ legs'[p].sort = legs[p].sort
        /\ legs'[p].slice = (IF Empty(legs[p].filter) THEN Cached ELSE <<p, "filtered">>)
        /\ legs'[p].filtered = (IF Empty(legs[p].filter) THEN 0 ELSE Len(given) - Len(kept))
        /\ DOMAIN legs' = Procs /\ \A q \in Procs : q # p => legs'[q] = legs[q]
    BY <1>1, <1>4, <2>1 DEF Filter
  <2>4. heap' = IF Empty(legs[p].filter) THEN heap ELSE [heap EXCEPT ![<<p, "filtered">>] = kept]
    BY <1>4 DEF Filter
  <2>5. Len(given) - Len(given) = 0
    BY DEF PipeInv
  <2> HIDE DEF kept, f
  <2>6. legs'[p].filtered = Len(given) - Len(f)
    BY <2>2, <2>3, <2>5
  <2>7. Flights(p)' = f
    BY <1>1, <1>2, <2>1, <2>2, <2>3, <2>4 DEF Flights, Stages
  <2>8. LegInv(p)'
    BY <2>1, <2>3, <2>6, <2>7 DEF LegInv, f
  <2>9. QED
    BY <2>1, <2>3, <2>4, <2>8, OwnSlice DEF Stages
<1>5. CASE Dedupe(p)
  <2> DEFINE f == Filtered(given, legs[p].filter)
  <2>1. /\ legs[p].at = "dedupe" /\ legs[p].sort \in SortOptions /\ given' = given
        /\ legs[p].filtered = Len(given) - Len(f) /\ Flights(p) = f
    BY <1>1, <1>5 DEF Dedupe, LegInv
  <2>2. heap' = [heap EXCEPT ![<<p, "deduped">>] = Deduped(f)]
    BY <1>5, <2>1 DEF Dedupe
  <2>3. /\ legs'[p].at = "score" /\ legs'[p].filter = legs[p].filter
        /\ legs'[p].sort = legs[p].sort /\ legs'[p].slice = <<p, "deduped">>
        /\ legs'[p].filtered = legs[p].filtered /\ legs'[p].merged = Len(f) - Len(Deduped(f))
        /\ DOMAIN legs' = Procs /\ \A q \in Procs : q # p => legs'[q] = legs[q]
    BY <1>1, <1>5, <2>1 DEF Dedupe
  <2> HIDE DEF f
  <2>4. Flights(p)' = Deduped(f)
    BY <1>1, <1>2, <2>2, <2>3 DEF Flights, Stages
  <2>5. LegInv(p)'
    BY <2>1, <2>3, <2>4 DEF LegInv, f
  <2>6. QED
    BY <2>1, <2>2, <2>3, <2>5, OwnSlice DEF Stages
<1>6. CASE ScoreAll(p)
  <2> DEFINE f == Filtered(given, legs[p].filter)
  <2>1. /\ legs[p].at = "score" /\ legs[p].slice = <<p, "deduped">> /\ given' = given
        /\ legs[p].sort \in SortOptions /\ Flights(p) = Deduped(f)
        /\ legs[p].filtered = Len(given) - Len(f) /\ legs[p].merged = Len(f) - Len(Deduped(f))
        /\ heap' = [heap EXCEPT ![<<p, "deduped">>] = Scored(Flights(p))]
        /\ legs' = [legs EXCEPT ![p].at = "sort"]
    BY <1>1, <1>6 DEF ScoreAll, LegInv, Scored
  <2>2. /\ legs'[p].at = "sort" /\ legs'[p].filter = legs[p].filter
        /\ legs'[p].sort = legs[p].sort /\ legs'[p].slice = <<p, "deduped">>
        /\ legs'[p].filtered = legs[p].filtered /\ legs'[p].merged = legs[p].merged
        /\ DOMAIN legs' = Procs /\ \A q \in Procs : q # p => legs'[q] = legs[q]
    BY <1>1, <2>1
  <2> HIDE DEF f
  <2>3. Flights(p)' = Scored(Deduped(f))
    BY <1>1, <1>2, <2>1, <2>2 DEF Flights, Stages
  <2>4. LegInv(p)'
    BY <2>1, <2>2, <2>3 DEF LegInv, f
  <2>5. QED
    BY <2>1, <2>2, <2>4, OwnSlice DEF Stages
<1>7. CASE Sort(p)
  <2> DEFINE f == Filtered(given, legs[p].filter)
  <2>1. /\ legs[p].at = "sort" /\ legs[p].slice = <<p, "deduped">> /\ given' = given
        /\ legs[p].sort \in SortOptions /\ Flights(p) = Scored(Deduped(f))
        /\ legs[p].filtered = Len(given) - Len(f) /\ legs[p].merged = Len(f) - Len(Deduped(f))
        /\ legs' = [legs EXCEPT ![p].at = "done"]
    BY <1>1, <1>7 DEF Sort, LegInv
  <2>2. heap' = [heap EXCEPT ![legs[p].slice] = Sorted(legs[p].sort, Flights(p))]
    BY <1>7 DEF Sort, Sorted
  <2>3. /\ legs'[p].at = "done" /\ legs'[p].filter = legs[p].filter
        /\ legs'[p].sort = legs[p].sort /\ legs'[p].slice = <<p, "deduped">>
        /\ legs'[p].filtered = legs[p].filtered /\ legs'[p].merged = legs[p].merged
        /\ DOMAIN legs' = Procs /\ \A q \in Procs : q # p => legs'[q] = legs[q]
    BY <1>1, <2>1
  <2> HIDE DEF f
  <2>4. Flights(p)' = Sorted(legs[p].sort, Scored(Deduped(f)))
    BY <1>1, <1>2, <2>1, <2>2, <2>3 DEF Flights, Stages
  <2>5. LegInv(p)'
    BY <2>1, <2>3, <2>4 DEF LegInv, f
  <2>6. QED
    BY <2>1, <2>2, <2>3, <2>5, OwnSlice DEF Stages
<1>8. QED
  BY <1>3, <1>4, <1>5, <1>6, <1>7

\* The invariant holds in every reachable state.
LEMMA PipeInvariant == Spec => []PipeInv
<1>1. Init => PipeInv
  <2> SUFFICES ASSUME Init PROVE PipeInv
    OBVIOUS
  <2>1. \A p \in Procs : legs[p].at = "idle"
    BY DEF Init
  <2>2. given \in Seq(Offers)
    <3>1. PICK n \in 0 .. MaxOffers : given \in [1 .. n -> Offers]
      BY DEF Init, Aggregates
    <3>2. QED
      BY <3>1
  <2>3. QED
    BY <2>1, <2>2 DEF Init, PipeInv, LegInv, Refs
<1>2. PipeInv /\ [Next]_vars => PipeInv'
  <2>1. ASSUME PipeInv, UNCHANGED vars PROVE PipeInv'
    BY <2>1 DEF vars, PipeInv, LegInv, Flights
  <2>2. QED
    BY <2>1, StageKeeps DEF Next, Finished
<1>3. QED
  BY <1>1, <1>2, PTL DEF Spec

\* No stage of any leg writes into the aggregate that everyone is served from.
THEOREM CacheIsNotWrittenThrough == Spec => []CachedAggregateUntouched
<1>1. PipeInv => CachedAggregateUntouched
  BY DEF PipeInv, CachedAggregateUntouched
<1>2. QED
  BY <1>1, PipeInvariant, PTL

\* Two legs that ask the same get the same answer, whatever ran between their stages.
THEOREM AnswersDependOnRequestsOnly == Spec => []SameRequestSameAnswer
<1>1. PipeInv => SameRequestSameAnswer
  BY DEF PipeInv, LegInv, SameRequestSameAnswer, Done, Answer
<1>2. QED
  BY <1>1, PipeInvariant, PTL

-----------------------------------------------------------------------------
(* What answers tell. *)

\* What the answer of a leg is made of, and what it tells of the offers that passed the filter.
LEMMA AnswerFacts ==
  ASSUME PipeInv, NEW p \in Procs, Done(p)
  PROVE  LET f == Filtered(given, legs[p].filter)
             d == Deduped(f)
         IN  /\ legs[p].sort \in SortOptions
             /\ Answer(p) = Sorted(legs[p].sort, Scored(d))
             /\ legs[p].filtered = Len(given) - Len(f) /\ legs[p].merged = Len(f) - Len(d)
             /\ f \in Seq(Offers) /\ Tells(f, Len(f), Answer(p))
             /\ Scored(d) \in Seq(FlightRec) /\ Len(Answer(p)) = Len(d)
             /\ Len(given) \in Nat /\ Len(f) \in Nat /\ Len(d) \in Nat
             /\ DOMAIN given = 1 .. Len(given)
<1> DEFINE f == Filtered(given, legs[p].filter)
           d == Deduped(f)
<1>1. /\ legs[p].sort \in SortOptions /\ Answer(p) = Sorted(legs[p].sort, Scored(d))
      /\ legs[p].filtered = Len(given) - Len(f) /\ legs[p].merged = Len(f) - Len(d)
      /\ given \in Seq(Offers)
  BY DEF PipeInv, LegInv, Done, Answer
<1>2. f \in Seq(Offers)
  <2>1. PICK pos : Passes(legs[p].filter, given, Len(given), f, pos)
    BY <1>1, FilteredPasses
  <2>2. QED
    BY <2>1 DEF Passes
<1> HIDE DEF f
<1>3. Tells(f, Len(f), d)
  BY <1>2, DedupedTells
<1>4. Len(f) \in Nat /\ Len(given) \in Nat /\ DOMAIN given = 1 .. Len(given)
  BY <1>1, <1>2
<1> HIDE DEF d
<1>5. d \in Seq(FlightRec)
  BY <1>3 DEF Tells
<1>6. Scored(d) \in Seq(FlightRec) /\ DOMAIN Scored(d) = DOMAIN d
  BY <1>5, ScoredFacts
<1>7. Len(Scored(d)) = Len(d) /\ Len(d) \in Nat
  BY <1>5, <1>6
<1>8. Len(Sorted(legs[p].sort, Scored(d))) = Len(d)
  BY <1>1, <1>6, <1>7, FlightsSorted
<1>9. Tells(f, Len(f), Scored(d))
  BY <1>3, <1>4, ScoringTells
<1>10. Tells(f, Len(f), Answer(p))
  BY <1>1, <1>4, <1>9, SortingTells
<1>11. QED
  BY <1>1, <1>2, <1>4, <1>6, <1>7, <1>8, <1>10 DEF f, d

\* The offers of the aggregate that sell a flight, against those that passed the filter.
LEMMA KeptSellers ==
  ASSUME PipeInv, NEW p \in Procs, Done(p), NEW g
  PROVE  LET f    == Filtered(given, legs[p].filter)
             mine == {k \in Kept(p) : SameFlight(given[k], g)}
         IN  /\ Cardinality(Kept(p)) = Len(f)
             /\ Cardinality(mine) = Cardinality(Sellers(f, Len(f), g))
             /\ {given[k] : k \in mine} = {f[j] : j \in Sellers(f, Len(f), g)}
             /\ \A k \in Kept(p) : \E j \in 1 .. Len(f) : given[k] = f[j]
<1> DEFINE f    == Filtered(given, legs[p].filter)
           mine == {k \in Kept(p) : SameFlight(given[k], g)}
           c    == legs[p].filter
           n    == Len(given)
<1>1. n \in Nat /\ DOMAIN given = 1 .. n /\ given \in Seq(Offers)
  BY DEF PipeInv
<1>2. PICK pos : Passes(c, given, n, f, pos)
  BY <1>1, FilteredPasses
<1> HIDE DEF f
<1>3. Kept(p) = Chosen(c, given, n)
  BY <1>1 DEF Kept, Chosen
<1>4. mine = ChosenSellers(c, given, n, g)
  BY <1>3 DEF ChosenSellers
<1> HIDE DEF c, n, mine
<1>5. Cardinality(Kept(p)) = Len(f) /\ Cardinality(mine) = Cardinality(Sellers(f, Len(f), g))
  BY <1>1, <1>2, <1>3, <1>4, PassingCounts
<1>6. ASSUME NEW k \in Kept(p) PROVE \E j \in 1 .. Len(f) : given[k] = f[j]
  <2>1. PICK j \in 1 .. Len(f) : pos[j] = k
    BY <1>2, <1>3 DEF Passes, Chosen
  <2>2. f[j] = given[k]
    BY <1>2, <2>1 DEF Passes
  <2>3. QED
    BY <2>2
<1>7. \A k \in mine : \E j \in Sellers(f, Len(f), g) : given[k] = f[j]
  BY <1>6 DEF Sellers, mine
<1>8. ASSUME NEW j \in Sellers(f, Len(f), g) PROVE \E k \in mine : given[k] = f[j]
  <2>1. j \in 1 .. Len(f) /\ SameFlight(f[j], g)
    BY DEF Sellers
  <2>2. pos[j] \in 1 .. n /\ f[j] = given[pos[j]] /\ Keep(c, given[pos[j]])
    BY <1>2, <2>1 DEF Passes
  <2>3. pos[j] \in mine
    BY <1>3, <2>1, <2>2 DEF Chosen, mine
  <2>4. QED
    BY <2>2, <2>3
<1>9. {given[k] : k \in mine} = {f[j] : j \in Sellers(f, Len(f), g)}
  BY <1>7, <1>8
<1>10. QED
  BY <1>5, <1>6, <1>9 DEF f, mine

\* Every offer that passes the filter is in the answer exactly once, and the counts add up.
THEOREM EveryOfferIsAccountedFor == Spec => []OffersAreConserved
<1>1. PipeInv => OffersAreConserved
  <2> SUFFICES ASSUME PipeInv, NEW p \in Procs, Done(p)
               PROVE  LET s == Answer(p)
                          mine(i) == {k \in Kept(p) : SameFlight(given[k], s[i])}
                      IN  /\ \A i \in DOMAIN s : 1 + Len(s[i].alternatives) = Cardinality(mine(i))
                          /\ \A k \in Kept(p) : \E i \in DOMAIN s : k \in mine(i)
                          /\ \A i, j \in DOMAIN s : i # j => mine(i) \cap mine(j) = {}
                          /\ Cardinality(Kept(p)) = Len(given) - legs[p].filtered
                          /\ Len(s) = Cardinality(Kept(p)) - legs[p].merged
    BY DEF OffersAreConserved
  <2> DEFINE s == Answer(p)
             f == Filtered(given, legs[p].filter)
             d == Deduped(f)
             mine(i) == {k \in Kept(p) : SameFlight(given[k], s[i])}
  <2>1. /\ legs[p].filtered = Len(given) - Len(f) /\ legs[p].merged = Len(f) - Len(d)
        /\ Tells(f, Len(f), s) /\ Len(s) = Len(d)
        /\ Len(given) \in Nat /\ Len(f) \in Nat /\ Len(d) \in Nat
    BY AnswerFacts
  <2>2. /\ Cardinality(Kept(p)) = Len(f)
        /\ \A k \in Kept(p) : \E j \in 1 .. Len(f) : given[k] = f[j]
    BY KeptSellers
  <2> HIDE DEF f, d, s
  <2>3. ASSUME NEW i \in DOMAIN s PROVE 1 + Len(s[i].alternatives) = Cardinality(mine(i))
    <3>1. 1 + Len(s[i].alternatives) = Cardinality(Sellers(f, Len(f), s[i]))
      BY <2>1 DEF Tells, Headline
    <3>2. Cardinality(mine(i)) = Cardinality(Sellers(f, Len(f), s[i]))
      BY KeptSellers DEF f
    <3>3. QED
      BY <3>1, <3>2
  <2>4. ASSUME NEW k \in Kept(p) PROVE \E i \in DOMAIN s : k \in mine(i)
    <3>1. PICK j \in 1 .. Len(f) : given[k] = f[j]
      BY <2>2
    <3>2. PICK i \in DOMAIN s : SameFlight(f[j], s[i])
      BY <2>1, <3>1 DEF Tells
    <3>3. k \in mine(i)
      BY <3>1, <3>2
    <3>4. QED
      BY <3>3
  <2>5. ASSUME NEW i \in DOMAIN s, NEW j \in DOMAIN s, i # j PROVE mine(i) \cap mine(j) = {}
    <3>1. ~SameFlight(s[i], s[j])
      BY <2>1, <2>5 DEF Tells
    <3>2. QED
      BY <3>1 DEF SameFlight
  <2>6. Cardinality(Kept(p)) = Len(given) - legs[p].filtered
    BY <2>1, <2>2
  <2>7. Len(s) = Cardinality(Kept(p)) - legs[p].merged
    BY <2>1, <2>2
  <2>8. QED
    BY <2>3, <2>4, <2>5, <2>6, <2>7 DEF s
<1>2. QED
  BY <1>1, PipeInvariant, PTL

\* The cheapest offer of a flight is the one shown, and the others are listed with it in order.
THEOREM CheapestOfferIsShown == Spec => []HeadlineIsCheapest
<1>1. PipeInv => HeadlineIsCheapest
  <2> SUFFICES ASSUME PipeInv, NEW p \in Procs, Done(p), NEW i \in DOMAIN Answer(p)
               PROVE  LET s      == Answer(p)
                          alts   == s[i].alternatives
                          others == {k \in Kept(p) : given[k].number = s[i].number
                                                       /\ given[k].depart = s[i].depart}
                      IN  /\ \A k \in others : s[i].fare <= given[k].fare
                          /\ {Alternative(given[k]) : k \in others}
                               = {Alternative(s[i])} \cup {alts[n] : n \in DOMAIN alts}
                          /\ \A n \in 2 .. Len(alts) : alts[n - 1].amount <= alts[n].amount
    BY DEF HeadlineIsCheapest
  <2> DEFINE s == Answer(p)
             f == Filtered(given, legs[p].filter)
             alts   == s[i].alternatives
             others == {k \in Kept(p) : given[k].number = s[i].number
                                          /\ given[k].depart = s[i].depart}
             mine   == {k \in Kept(p) : SameFlight(given[k], s[i])}
             told   == Sellers(f, Len(f), s[i])
  <2>1. Tells(f, Len(f), s)
    BY AnswerFacts
  <2>2. Headline(f, Len(f), s[i]) /\ s[i] \in FlightRec
    <3> HIDE DEF s, f
    <3>1. s \in Seq(FlightRec) /\ Headline(f, Len(f), s[i])
      BY <2>1 DEF Tells, s
    <3>2. i \in DOMAIN s
      BY DEF s
    <3>3. QED
      BY <3>1, <3>2
  <2>3. {given[k] : k \in mine} = {f[j] : j \in told}
    <3> HIDE DEF s
    <3>1. QED
      BY KeptSellers
  <2>4. others = mine
    BY DEF SameFlight
  <2>5. /\ \A j \in told : s[i].fare <= f[j].fare
        /\ {Alternative(f[j]) : j \in told} = {Alternative(s[i])} \cup Listed(s[i])
        /\ CheapestFirst(s[i])
    BY <2>2 DEF Headline
  <2>6. Listed(s[i]) = {alts[n] : n \in DOMAIN alts}
    BY DEF Listed
  <2>7. \A n \in 2 .. Len(alts) : alts[n - 1].amount <= alts[n].amount
    <3>1. alts \in Seq(Alt)
      BY <2>2, FlightFacts
    <3>2. \A k, m \in DOMAIN alts : k < m => alts[k].amount <= alts[m].amount
      BY <2>5 DEF CheapestFirst
    <3> HIDE DEF alts
    <3>3. ASSUME NEW n \in 2 .. Len(alts) PROVE alts[n - 1].amount <= alts[n].amount
      <4>1. n - 1 \in DOMAIN alts /\ n \in DOMAIN alts /\ n - 1 < n
        BY <3>1, <3>3
      <4>2. QED
        BY <3>2, <4>1
    <3>4. QED
      BY <3>3
  <2> HIDE DEF s, f, mine, others, told, alts
  <2>8. /\ \A k \in mine : \E j \in told : given[k] = f[j]
        /\ \A j \in told : \E k \in mine : given[k] = f[j]
    BY <2>3
  <2>9. \A k \in mine : s[i].fare <= given[k].fare
    BY <2>5, <2>8
  <2>10. {Alternative(given[k]) : k \in mine} = {Alternative(f[j]) : j \in told}
    BY <2>8
  <2>11. QED
    BY <2>4, <2>5, <2>6, <2>7, <2>9, <2>10 DEF s, others, alts
<1>2. QED
  BY <1>1, PipeInvariant, PTL

\* The order asked for, with its tie-breaks, leaves no two flights of an answer undecided.
THEOREM OrdersAreTotal == Spec => []OrderIsTotal
<1>1. PipeInv => OrderIsTotal
  <2> SUFFICES ASSUME PipeInv, NEW p \in Procs, Done(p),
                      NEW i \in DOMAIN Answer(p), NEW j \in DOMAIN Answer(p), i < j
               PROVE  LET s == Answer(p)
                      IN  /\ ~Less(legs[p].sort, s[j], s[i])
                          /\ ~Less(legs[p].sort, s[i], s[j]) => TieBreak(s[i], s[j])
    BY DEF OrderIsTotal
  <2> DEFINE s == Answer(p)
             f == Filtered(given, legs[p].filter)
             d == Deduped(f)
             option == legs[p].sort
  <2>1. /\ option \in SortOptions /\ s = Sorted(option, Scored(d)) /\ Scored(d) \in Seq(FlightRec)
        /\ Tells(f, Len(f), s)
    BY AnswerFacts
  <2> HIDE DEF s, f, d, option
  <2>2. s \in Seq(FlightRec) /\ \A k, m \in DOMAIN s : k < m => ~ComesFirst(option, s[m], s[k])
    <3> DEFINE t == Scored(d)
               n == Len(t)
    <3>1. t \in Seq(FlightRec) /\ s = Sorted(option, t)
      BY <2>1
    <3> HIDE DEF t
    <3>2. /\ s \in Seq(FlightRec) /\ Len(s) = n
          /\ \A k, m \in 1 .. n : k < m => ~ComesFirst(option, s[m], s[k])
      BY <2>1, <3>1, FlightsSorted
    <3>3. DOMAIN s = 1 .. n
      BY <3>2
    <3>4. QED
      BY <3>2, <3>3
  <2>3. i \in DOMAIN s /\ j \in DOMAIN s
    BY DEF s
  <2>4. s[i] \in FlightRec /\ s[j] \in FlightRec
    BY <2>2, <2>3
  <2>5. i # j
    BY <2>2, <2>3
  <2>6. ~SameFlight(s[i], s[j])
    BY <2>1, <2>3, <2>5 DEF Tells
  <2>7. TieBreak(s[i], s[j]) \/ TieBreak(s[j], s[i])
    BY <2>4, <2>6, TieBreakFacts
  <2>8. ~ComesFirst(option, s[j], s[i])
    BY <2>2, <2>3
  <2>9. QED
    BY <2>7, <2>8, Zenon DEF ComesFirst, s, option
<1>2. QED
  BY <1>1, PipeInvariant, PTL

\* Scores are within their scale and no flight scores less than one that is nowhere better.
THEOREM ScoresFollowMerit == Spec => []ScoresAreFair
<1>1. PipeInv => ScoresAreFair
  <2> SUFFICES ASSUME PipeInv, NEW p \in Procs, Done(p), NEW i \in DOMAIN Answer(p)
               PROVE  LET s == Answer(p)
                      IN  /\ s[i].score \in 0 .. 1000
                          /\ \A j \in DOMAIN s : NoWorse(s[i], s[j]) => s[i].score >= s[j].score
                          /\ (\A j \in DOMAIN s : NoWorse(s[i], s[j])) => s[i].score = 1000
    BY DEF ScoresAreFair, NoWorse
  <2> DEFINE s == Answer(p)
             d == Deduped(Filtered(given, legs[p].filter))
             t == Scored(d)
             option == legs[p].sort
  <2>1. option \in SortOptions /\ s = Sorted(option, t) /\ t \in Seq(FlightRec)
    BY AnswerFacts
  <2>2. \A k \in DOMAIN t : FairlyScored(t, k)
    <3>1. d \in Seq(FlightRec)
      BY AnswerFacts, FilteredPasses, DedupedTells DEF Tells
    <3> HIDE DEF d
    <3>2. QED
      BY <3>1, ScoredFacts
  <2> HIDE DEF s, t, d, option
  <2>3. PICK perm : Rearranges(s, t, perm) /\ \A k \in DOMAIN s : s[k] = t[perm[k]]
    BY <2>1, SortingRearranges
  <2>4. /\ \A k \in DOMAIN s : perm[k] \in DOMAIN t
        /\ \A m \in DOMAIN t : \E k \in DOMAIN s : perm[k] = m
    BY <2>3 DEF Rearranges
  <2>5. i \in DOMAIN s
    BY DEF s
  <2>6. s[i] = t[perm[i]] /\ FairlyScored(t, perm[i])
    BY <2>2, <2>3, <2>4, <2>5
  <2>7. s[i].score \in Tenths
    BY <2>6 DEF FairlyScored
  <2>8. ASSUME NEW j \in DOMAIN s, NoWorse(s[i], s[j]) PROVE s[j].score <= s[i].score
    BY <2>3, <2>4, <2>6, <2>8 DEF FairlyScored
  <2>9. ASSUME \A j \in DOMAIN s : NoWorse(s[i], s[j]) PROVE s[i].score = 1000
    <3>1. \A m \in DOMAIN t : NoWorse(t[perm[i]], t[m])
      BY <2>3, <2>4, <2>6, <2>9
    <3>2. QED
      BY <2>6, <3>1 DEF FairlyScored
  <2>10. \A j \in DOMAIN s : s[j].score <= s[i].score => s[i].score >= s[j].score
    OBVIOUS
  <2>11. QED
    BY <2>7, <2>8, <2>9, <2>10 DEF s, Tenths
<1>2. QED
  BY <1>1, PipeInvariant, PTL
=============================================================================
