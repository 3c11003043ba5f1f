-------------------------- MODULE TTLCache_proofs --------------------------
(* What the cache promises for every set of goroutines, keys and values,   *)
(* every TTL and every length of run.                                      *)
EXTENDS TTLCache, TLAPS

\* The write an entry comes from: it left the entry under its key with its deadline, and it
\* is not in the future.
Backed(k, e) ==
    \E w \in writes :
        /\ w.key = k
        /\ w.value = e.value
        /\ w.at <= now
        /\ e.expiresAt = w.at + TTL

\* HitIsFresh is not inductive: it says nothing of the entries a later Get will return.  The
\* strengthening follows an entry from Set through the map and the copy a Get holds.
EntriesBacked == \A k \in Keys : entries[k] # Absent => Backed(k, entries[k])

CopiesBacked ==
    \A p \in Procs : gets[p].at = "check" => Backed(gets[p].key, gets[p].found)

FreshInv == TypeOK /\ EntriesBacked /\ CopiesBacked /\ HitIsFresh

\* The initial state has the right types: type correctness of the cache, first half.
LEMMA InitTypeOK == Init => TypeOK
  BY TTLAssumption DEF Init, TypeOK, GetState, Idle

\* Every step keeps the types: type correctness of the cache, second half.
LEMMA NextTypeOK == TypeOK /\ [Next]_vars => TypeOK'
<1> SUFFICES ASSUME TypeOK, [Next]_vars PROVE TypeOK'
  OBVIOUS
<1> USE TTLAssumption, AbsentAssumption DEF TypeOK
<1>1. ASSUME NEW p \in Procs, NEW k \in Keys, GetRead(p, k) PROVE TypeOK'
  <2>1. entries[k] # Absent => Checking(k, entries[k]) \in GetState
    BY DEF Checking, GetState
  <2>2. Miss(k) \in GetState
    BY DEF Miss, GetState
  <2>3. QED
    BY <1>1, <2>1, <2>2 DEF GetRead
<1>2. ASSUME NEW p \in Procs, GetCheck(p) PROVE TypeOK'
  <2>1. gets[p].key \in Keys /\ gets[p].found \in Entry
    BY <1>2 DEF GetCheck, GetState, Idle
  <2>2. Reaping(gets[p].key) \in GetState
    BY <2>1 DEF Reaping, GetState
  <2>3. Hit(gets[p].key, gets[p].found) \in GetState
    BY <2>1 DEF Hit, GetState, Entry
  <2>4. QED
    BY <1>2, <2>2, <2>3 DEF GetCheck
<1>3. ASSUME NEW p \in Procs, GetReap(p) PROVE TypeOK'
  <2>1. gets[p].key \in Keys
    BY <1>3 DEF GetReap, GetState, Idle
  <2>2. Miss(gets[p].key) \in GetState
    BY <2>1 DEF Miss, GetState
  <2>3. QED
    BY <1>3, <2>1, <2>2 DEF GetReap, Reaped
<1>4. ASSUME NEW p \in Procs, NEW k \in Keys, NEW v \in Values, Set(p, k, v) PROVE TypeOK'
  <2>1. NewEntry(v) \in Entry
    BY DEF NewEntry, Entry
  <2>2. QED
    BY <1>4, <2>1 DEF Set, Put
<1>5. ASSUME NEW p \in Procs, Purge(p) PROVE TypeOK'
  BY <1>5 DEF Purge
<1>6. CASE Tick
  BY <1>6 DEF Tick
<1>7. CASE UNCHANGED vars
  BY <1>7 DEF vars
<1>8. QED
  BY <1>1, <1>2, <1>3, <1>4, <1>5, <1>6, <1>7 DEF Next, Step

\* In every reachable state every variable of the cache has its type.
THEOREM TypeCorrect == Spec => []TypeOK
  BY InitTypeOK, NextTypeOK, PTL DEF Spec

\* A write goes on backing an entry: writes only accumulate and the clock only advances.
LEMMA BackedStays ==
  ASSUME TypeOK, [Next]_vars, NEW k, NEW e, Backed(k, e)
  PROVE  Backed(k, e)'
<1>1. writes \subseteq writes' /\ now \in Nat /\ now' \in Nat /\ now <= now'
  BY NextTypeOK
  DEF TypeOK, Next, Step, vars, GetRead, GetCheck, GetReap, Set, Put, Purge, Tick
<1>2. PICK w \in writes : w.key = k /\ w.value = e.value /\ w.at <= now /\ e.expiresAt = w.at + TTL
  BY DEF Backed
<1>3. w.at \in Nat
  BY DEF TypeOK
<1>4. QED
  BY <1>1, <1>2, <1>3 DEF Backed

\* Every step keeps the invariant.
LEMMA FreshStep == FreshInv /\ [Next]_vars => FreshInv'
<1> SUFFICES ASSUME FreshInv, [Next]_vars PROVE FreshInv'
  OBVIOUS
<1>t. TypeOK /\ TypeOK'
  BY NextTypeOK DEF FreshInv
<1>1. EntriesBacked'
  <2> SUFFICES ASSUME NEW k \in Keys, entries'[k] # Absent PROVE Backed(k, entries[k])'
    BY DEF EntriesBacked
  <2>1. CASE entries'[k] = entries[k]
    BY <2>1, <1>t, BackedStays DEF FreshInv, EntriesBacked, Backed
  <2>2. CASE entries'[k] # entries[k]
    <3>1. PICK p \in Procs, v \in Values : Set(p, k, v)
      BY <2>2, <1>t
      DEF Next, Step, vars, GetRead, GetCheck, GetReap, Reaped, Set, Put, Purge, Tick, TypeOK
    <3>2. entries'[k] = NewEntry(v)
      BY <3>1, <1>t DEF Set, Put, TypeOK
    <3>3. [key |-> k, value |-> v, at |-> now] \in writes' /\ now' = now
      BY <3>1 DEF Set, Put
    <3>4. QED
      BY <3>2, <3>3, <1>t DEF Backed, NewEntry, TypeOK
  <2>3. QED
    BY <2>1, <2>2
<1>2. CopiesBacked'
  <2> SUFFICES ASSUME NEW p \in Procs, gets'[p].at = "check"
               PROVE  Backed(gets[p].key, gets[p].found)'
    BY DEF CopiesBacked
  <2>1. CASE gets'[p] = gets[p]
    BY <2>1, <1>t, BackedStays DEF FreshInv, CopiesBacked, Backed
  <2>2. CASE gets'[p] # gets[p]
    <3>1. PICK k \in Keys : GetRead(p, k) /\ entries[k] # Absent
      BY <2>2, <1>t
      DEF Next, Step, vars, GetRead, GetCheck, GetReap, Set, Put, Purge, Tick, TypeOK,
          Checking, Reaping, Hit, Miss
    <3>2. gets'[p] = Checking(k, entries[k])
      BY <3>1, <1>t DEF GetRead, TypeOK
    <3>3. Backed(k, entries[k])'
      <4>1. Backed(k, entries[k])
        BY <3>1 DEF FreshInv, EntriesBacked
      <4>2. writes' = writes /\ now' = now /\ entries' = entries
        BY <3>1 DEF GetRead
      <4>3. QED
        BY <4>1, <4>2 DEF Backed
    <3>4. entries' = entries
      BY <3>1 DEF GetRead
    <3>5. QED
      BY <3>2, <3>3, <3>4 DEF Backed, Checking
  <2>3. QED
    BY <2>1, <2>2
<1>3. HitIsFresh'
  <2> SUFFICES ASSUME NEW p \in Procs, gets'[p].at = "hit"
               PROVE  \E w \in writes' :
                          /\ w.key = gets'[p].key
                          /\ w.value = gets'[p].value
                          /\ w.at <= gets'[p].when
                          /\ gets'[p].when <= w.at + TTL
    BY DEF HitIsFresh
  <2>1. writes \subseteq writes'
    BY DEF Next, Step, vars, GetRead, GetCheck, GetReap, Set, Put, Purge, Tick
  <2>2. CASE gets'[p] = gets[p]
    BY <2>1, <2>2 DEF FreshInv, HitIsFresh
  <2>3. CASE gets'[p] # gets[p]
    <3>1. GetCheck(p) /\ ~Expired(gets[p].found)
      BY <2>3, <1>t
      DEF Next, Step, vars, GetRead, GetCheck, GetReap, Set, Put, Purge, Tick, TypeOK,
          Checking, Reaping, Hit, Miss
    <3>2. gets'[p] = Hit(gets[p].key, gets[p].found)
      BY <3>1, <1>t DEF GetCheck, TypeOK
    <3>3. PICK w \in writes :
              /\ w.key = gets[p].key
              /\ w.value = gets[p].found.value
              /\ w.at <= now
              /\ gets[p].found.expiresAt = w.at + TTL
      BY <3>1 DEF FreshInv, CopiesBacked, Backed, GetCheck
    <3>4. now <= w.at + TTL
      BY <3>1, <3>3, <1>t, TTLAssumption DEF Expired, TypeOK
    <3>5. QED
      BY <2>1, <3>2, <3>3, <3>4 DEF Hit
  <2>4. QED
    BY <2>2, <2>3
<1>4. QED
  BY <1>t, <1>1, <1>2, <1>3 DEF FreshInv

\* Whatever goroutines interleave with the three parts of a Get, a hit returns a value stored
\* under that key at most TTL before it was returned.
THEOREM HitsAreFresh == Spec => []HitIsFresh
<1>1. Init => FreshInv
  BY InitTypeOK DEF Init, FreshInv, EntriesBacked, CopiesBacked, HitIsFresh, Idle
<1>2. FreshInv => HitIsFresh
  BY DEF FreshInv
<1>3. QED
  BY <1>1, <1>2, FreshStep, PTL DEF Spec

\* No goroutine's reap removes an entry that is fresh when the reap runs.
THEOREM ReapsAreSafe == Spec => ReapSparesFreshEntries
<1> DEFINE Spared ==
      \A p \in Procs, k \in Keys :
          /\ gets[p].at = "reap" /\ gets'[p].at = "miss"
          /\ entries[k] # Absent
          /\ (k # gets[p].key \/ ~Expired(entries[k]))
          => entries'[k] = entries[k]
<1>1. TypeOK /\ [Next]_vars => [Spared]_vars
  <2> SUFFICES ASSUME TypeOK, Next,
                      NEW p \in Procs, NEW k \in Keys,
                      gets[p].at = "reap", gets'[p].at = "miss", entries[k] # Absent,
                      k # gets[p].key \/ ~Expired(entries[k])
               PROVE  entries'[k] = entries[k]
    OBVIOUS
  <2>1. GetReap(p)
    BY DEF Next, Step, GetRead, GetCheck, GetReap, Set, Put, Purge, Tick, TypeOK, Outside
  <2>2. QED
    BY <2>1 DEF GetReap, Reaped, TypeOK
<1>2. QED
  BY <1>1, TypeCorrect, PTL DEF Spec, ReapSparesFreshEntries
=============================================================================
