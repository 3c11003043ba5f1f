------------------------------ MODULE TTLCache ------------------------------
(***************************************************************************)
(* The in-memory TTL cache of internal/util/cache/cache.go, shared by      *)
(* every in-flight request.                                                *)
(*                                                                         *)
(* A critical section of the code (what runs between a Lock or RLock and   *)
(* its Unlock) is one step here.  Get is not one critical section but up   *)
(* to three: it reads the entry under the read lock, looks at the clock    *)
(* with no lock held, and only if the entry it read has expired takes the  *)
(* write lock to delete it.  Everything another goroutine or the clock can *)
(* do in between is an interleaving of this module.                        *)
(***************************************************************************)
EXTENDS Integers

CONSTANTS
    Procs,    \* goroutines that use the cache
    Keys,     \* cache keys
    Values,   \* what is stored: for the search service, an Aggregate
    Absent,   \* "no entry under this key"
    TTL,      \* time to live, in clock ticks
    MaxTime   \* bound: the clock stops here

ASSUME TTLAssumption == TTL \in Nat \ {0} /\ MaxTime \in Nat

VARIABLES
    now,      \* the clock c.now() reads
    entries,  \* c.entries: key -> entry, Absent where the map has no entry
    gets,     \* where each goroutine's latest Get stands, and what it returned
    writes    \* history: every Set so far, used only to state properties

vars == <<now, entries, gets, writes>>

Entry == [value : Values, expiresAt : Nat]

ASSUME AbsentAssumption == Absent \notin Entry

Idle           == [at |-> "idle"]
Checking(k, e) == [at |-> "check", key |-> k, found |-> e]
Reaping(k)     == [at |-> "reap", key |-> k]
Hit(k, e)      == [at |-> "hit", key |-> k, value |-> e.value, when |-> now]
Miss(k)        == [at |-> "miss", key |-> k]

GetState ==
    {Idle}
        \cup [at : {"check"}, key : Keys, found : Entry]
        \cup [at : {"reap", "miss"}, key : Keys]
        \cup [at : {"hit"}, key : Keys, value : Values, when : Nat]

\* A goroutine outside Get: it has none of the cache's locks and may start a call.
Outside(p) == gets[p].at \in {"idle", "hit", "miss"}

\* c.now().After(e.expiresAt): an entry still counts at its very deadline.
Expired(e) == now > e.expiresAt

Init ==
    /\ now = 0
    /\ entries = [k \in Keys |-> Absent]
    /\ gets = [p \in Procs |-> Idle]
    /\ writes = {}

\* Get, first part: look the key up under the read lock; a missing key is a miss.
GetRead(p, k) ==
    /\ Outside(p)
    /\ gets' = [gets EXCEPT ![p] = IF entries[k] = Absent
                                   THEN Miss(k)
                                   ELSE Checking(k, entries[k])]
    /\ UNCHANGED <<now, entries, writes>>

\* Get, second part, no lock held: the copy read earlier is returned unless it has expired.
GetCheck(p) ==
    /\ gets[p].at = "check"
    /\ gets' = [gets EXCEPT ![p] = IF Expired(gets[p].found)
                                   THEN Reaping(gets[p].key)
                                   ELSE Hit(gets[p].key, gets[p].found)]
    /\ UNCHANGED <<now, entries, writes>>

\* Mutant: the key is deleted without looking at the current entry again.
ReapedBlindly(k) == [entries EXCEPT ![k] = Absent]

\* The delete under the write lock looks at the current entry again: another goroutine may
\* have refreshed the key, or reaped it, since it was read.
Reaped(k) ==
    IF entries[k] # Absent /\ Expired(entries[k])
    THEN [entries EXCEPT ![k] = Absent]
    ELSE entries

\* Get, third part: the read copy had expired; reap the key and report a miss.
GetReap(p) ==
    /\ gets[p].at = "reap"
    /\ entries' = Reaped(gets[p].key)
    /\ gets' = [gets EXCEPT ![p] = Miss(gets[p].key)]
    /\ UNCHANGED <<now, writes>>

\* Mutants: the deadline is a tick late; the deadline is left out.
NewEntryLate(v)     == [value |-> v, expiresAt |-> now + TTL + 1]
NewEntryTimeless(v) == [value |-> v, expiresAt |-> Absent]

NewEntry(v) == [value |-> v, expiresAt |-> now + TTL]

\* Set's effect on the map: the entry and its deadline are replaced, whatever was there.
Put(k, v) == entries' = [entries EXCEPT ![k] = NewEntry(v)]

Set(p, k, v) ==
    /\ Outside(p)
    /\ Put(k, v)
    /\ writes' = writes \cup {[key |-> k, value |-> v, at |-> now]}
    /\ UNCHANGED <<now, gets>>

Purge(p) ==
    /\ Outside(p)
    /\ entries' = [k \in Keys |-> Absent]
    /\ UNCHANGED <<now, gets, writes>>

Tick ==
    /\ now < MaxTime
    /\ now' = now + 1
    /\ UNCHANGED <<entries, gets, writes>>

Step(p) ==
    \/ \E k \in Keys : GetRead(p, k)
    \/ GetCheck(p)
    \/ GetReap(p)
    \/ \E k \in Keys, v \in Values : Set(p, k, v)
    \/ Purge(p)

Next == Tick \/ \E p \in Procs : Step(p)

Spec == Init /\ [][Next]_vars

-----------------------------------------------------------------------------
(* Properties.                                                             *)

\* Every variable has its type.  (The struct definitions of cache.go.)
TypeOK ==
    /\ now \in Nat
    /\ entries \in [Keys -> Entry \cup {Absent}]
    /\ gets \in [Procs -> GetState]
    /\ writes \subseteq [key : Keys, value : Values, at : Nat]

\* A Get that returns a hit returns a value that some Set stored under that very key, no more
\* than TTL before the moment it was returned: neither the unlocked gap between reading and
\* checking an entry, nor a concurrent Set, Purge or reap, nor repeated hits (which must not
\* extend a deadline) ever let an older value out of Get.
HitIsFresh ==
    \A p \in Procs :
        gets[p].at = "hit" =>
            \E w \in writes :
                /\ w.key = gets[p].key
                /\ w.value = gets[p].value
                /\ w.at <= gets[p].when
                /\ gets[p].when <= w.at + TTL

\* A Get that found an expired entry may delete the key, but never an entry another goroutine
\* refreshed between that Get's read and its delete, and never another key's entry.
ReapSparesFreshEntries ==
    [][\A p \in Procs, k \in Keys :
          /\ gets[p].at = "reap" /\ gets'[p].at = "miss"
          /\ entries[k] # Absent
          /\ (k # gets[p].key \/ ~Expired(entries[k]))
          => entries'[k] = entries[k]]_vars
=============================================================================
