-------------------------- MODULE ThrottledProvider --------------------------
(***************************************************************************)
(* One provider as cmd/repository.go wires it: usecase/search/throttle.go's*)
(* decorator, which waits for the provider's limiter (TokenBucket) and     *)
(* then calls the client, whose FetchFlights is a retry loop               *)
(* (RetriedFetch).  Concurrent searches share the limiter; each call has a *)
(* context that fanOut gave the provider's timeout, and that ends early if *)
(* the client of the service goes away.                                    *)
(***************************************************************************)
EXTENDS Integers, FiniteSets

CONSTANTS
    Procs, Rate, Burst, Unit, MaxTime,   \* the limiter's: see TokenBucket
    Policy,                              \* the client's retry policy
    Smallest, Latencies,                 \* the retry loop's: see RetriedFetch
    Timeout                              \* the provider's timeout, in clock ticks

\* The limiter's and the retry loop's assumptions, and finitely many goroutines.
ASSUME ProviderAssumption ==
    /\ IsFiniteSet(Procs)
    /\ Rate \in Nat /\ Burst \in Nat /\ Unit \in Nat \ {0} /\ MaxTime \in Nat
    /\ Policy \in [attempts : Int, base : Int, max : Int]
    /\ Smallest \in Nat \ {0} /\ Latencies \subseteq Nat /\ Latencies # {}
    /\ Timeout \in Nat

VARIABLES
    now, tokens, last, waits, spent, before,   \* the limiter
    loop, policy, due, cancelled, tries,       \* the retry loops and their contexts
    made         \* history: fetches sent to the provider so far

callVars == <<loop, policy, due, cancelled, tries, made>>
vars == <<now, tokens, last, waits, spent, before, loop, policy, due, cancelled, tries, made>>

Loop == INSTANCE RetriedFetch
            WITH Calls <- Procs, Policies <- {Policy}, Default <- Policy,
                 Budget <- [cfg \in {Policy} |-> Timeout]

\* Mutant: the limiter is given a context without the call's deadline.
DeadOnCancelOnly == [p \in Procs |-> cancelled[p]]

\* The limiter waits under the context of the call.
Dead == [p \in Procs |-> Loop!Over(p)]

Bucket == INSTANCE TokenBucket WITH over <- Dead

Init ==
    /\ now = 0
    /\ tokens = Bucket!Capacity /\ last = 0 /\ spent = 0
    /\ waits = [p \in Procs |-> Bucket!Idle]
    /\ before = [t \in 0 .. MaxTime |-> 0]
    /\ Loop!Init
    /\ made = 0

\* p is not in a call of the throttled FetchFlights.
Free(p) ==
    /\ Bucket!Outside(p)
    /\ waits[p].at = "granted" => loop[p].at \in Loop!Returned

\* A search calls FetchFlights with a context that is live, or whose caller has already gone.
Arrive(p) ==
    /\ Free(p)
    /\ Bucket!Wait(p)
    /\ due' = [due EXCEPT ![p] = now + Timeout]
    /\ \E gone \in BOOLEAN : cancelled' = [cancelled EXCEPT ![p] = gone]
    /\ loop' = [loop EXCEPT ![p] = Loop!At("new", 0, 0, 0)]
    /\ tries' = [tries EXCEPT ![p] = 0]
    /\ UNCHANGED <<now, before, policy, made>>

\* The wait has succeeded, and the client has not been called yet.
Admitted(p) == waits[p].at = "granted" /\ loop[p].at = "new"

\* Mutant: the client is called without waiting for the limiter's timer.
DelegateAtOnce(p) ==
    /\ waits[p].at \in {"granted", "sleep"} /\ loop[p].at = "new"
    /\ Loop!Enter(p, Policy)
    /\ UNCHANGED <<now, tokens, last, waits, spent, before, due, cancelled, made>>

\* The wait succeeded: the client is called.  A denied wait is the call's result.
Delegate(p) ==
    /\ Admitted(p)
    /\ Loop!Enter(p, Policy)
    /\ UNCHANGED <<now, tokens, last, waits, spent, before, due, cancelled, made>>

Queue(p) ==
    /\ Bucket!WaitStep(p, Dead[p])
    /\ UNCHANGED <<now, before, callVars>>

Fetch(p) ==
    /\ Loop!DoStep(p)
    /\ made' = IF tries'[p] > tries[p] THEN made + 1 ELSE made
    /\ UNCHANGED <<now, tokens, last, waits, spent, before>>

\* The client of the service goes away during the call.
Cancel(p) ==
    /\ ~Free(p) /\ ~cancelled[p]
    /\ cancelled' = [cancelled EXCEPT ![p] = TRUE]
    /\ UNCHANGED <<now, tokens, last, waits, spent, before, loop, policy, due, tries, made>>

\* Nobody can go on before the clock moves.
Prompt ==
    /\ Loop!Prompt
    /\ \A p \in Procs : ~Bucket!Ready(p, Dead[p]) /\ ~Admitted(p)

Tick ==
    /\ Prompt
    /\ Bucket!Tick
    /\ UNCHANGED <<tokens, last, waits, spent, callVars>>

\* The clock has reached its bound: calls that wait for it stay where they are.
ClockStopped == now = MaxTime /\ UNCHANGED vars

Next ==
    \/ Tick
    \/ \E p \in Procs : Arrive(p) \/ Delegate(p) \/ Queue(p) \/ Fetch(p) \/ Cancel(p)
    \/ ClockStopped

Spec == Init /\ [][Next]_vars

-----------------------------------------------------------------------------
(* Properties.                                                             *)

\* A limiter with a rate bounds the calls of FetchFlights, so every fetch is paid for by a token,
\* and no token pays for more fetches than the retry policy has attempts.
FetchesArePaidFor == ~Bucket!Unlimited => made * Unit <= Loop!Attempts(Policy) * spent

\* The wait for the limiter and the whole retry loop share one deadline: a call is back when its
\* context's time is up, wherever in the queue, a fetch or a backoff that finds it.
BackByDeadline == \A p \in Procs : ~Free(p) => now <= due[p]
=============================================================================
