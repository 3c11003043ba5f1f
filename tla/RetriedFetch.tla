---------------------------- MODULE RetriedFetch ----------------------------
(***************************************************************************)
(* internal/util/retry/retry.go's Do around the one operation it wraps,    *)
(* AirAsia's fetchOnce (internal/repo/external_client/airasia): a latency  *)
(* that a context can cut short, then an answer or an error.  Each call of *)
(* Do has a context of its own, which ends at the call's deadline or when  *)
(* the caller cancels it.                                                  *)
(*                                                                         *)
(* Time is discrete and computation takes none of it: the clock waits for  *)
(* every goroutine that can go on (Prompt), so that what the module says   *)
(* about deadlines is about the sleeps and latencies in the code.          *)
(***************************************************************************)
EXTENDS Integers

CONSTANTS
    Calls,        \* calls of Do, one per goroutine that is inside FetchFlights
    Policies,     \* values of cfg, as configured: attempts, base and max, in clock ticks
    Default,      \* the one among them that retry.Default returns
    Smallest,     \* the delay that replaces a base of zero (a millisecond)
    Latencies,    \* how long one fetchOnce may take, in clock ticks
    Budget,       \* how long the context of a call has, for each policy: for Default, the
                  \* provider's timeout
    MaxTime       \* bound: the clock stops here

ASSUME RetryAssumption ==
    /\ Policies \subseteq [attempts : Int, base : Int, max : Int] /\ Default \in Policies
    /\ Smallest \in Nat \ {0}
    /\ Latencies \subseteq Nat /\ Latencies # {}
    /\ Budget \in [Policies -> Nat] /\ MaxTime \in Nat

VARIABLES
    now,        \* the clock
    loop,       \* where each call stands in Do, with its attempt, its delay and its timer
    policy,     \* the policy each call runs with
    due,        \* when each call's context reaches its deadline
    cancelled,  \* the calls whose caller has gone
    tries       \* how often each call has run the operation

retryVars == <<loop, policy, due, cancelled, tries>>
vars == <<now, loop, policy, due, cancelled, tries>>

\* Mutant: a policy of no attempts is taken at its word.
AttemptsAsGiven(cfg) == cfg.attempts

\* Mutant: the delays start where they should end.
BaseAtCap(cfg) == IF cfg.max <= 0 THEN Smallest ELSE cfg.max

\* The policy Do runs with: at least one attempt, a positive delay, a cap no smaller.
Attempts(cfg) == IF cfg.attempts < 1 THEN 1 ELSE cfg.attempts
Base(cfg)     == IF cfg.base <= 0 THEN Smallest ELSE cfg.base
Cap(cfg)      == IF cfg.max < Base(cfg) THEN Base(cfg) ELSE cfg.max

Usable(cfg) == [attempts |-> Attempts(cfg), base |-> Base(cfg), max |-> Cap(cfg)]

\* A call that has not been made: any usable policy does.
NoPolicy == [attempts |-> 1, base |-> Smallest, max |-> Smallest]

At(s, n, d, t) == [at |-> s, attempt |-> n, delay |-> d, timer |-> t]

Returned == {"ok", "gaveup", "stopped"}
\* Where a call looks at its context, and where it no longer does: past the look at the top of
\* the loop, with the operation not yet called.
Watching == {"top", "fetch", "sleep"}
Running  == Watching \cup {"call"}

LoopState == [at : {"new"} \cup Running \cup Returned,
              attempt : Nat, delay : Nat, timer : Nat]

\* ctx.Err() # nil
Over(c) == cancelled[c] \/ now >= due[c]

Init ==
    /\ now = 0
    /\ loop = [c \in Calls |-> At("new", 0, 0, 0)]
    /\ policy = [c \in Calls |-> NoPolicy]
    /\ due = [c \in Calls |-> 0]
    /\ cancelled = [c \in Calls |-> FALSE]
    /\ tries = [c \in Calls |-> 0]

\* Do is entered with the context the caller made.
Enter(c, cfg) ==
    /\ policy' = [policy EXCEPT ![c] = Usable(cfg)]
    /\ loop' = [loop EXCEPT ![c] = At("top", 1, Base(cfg), 0)]
    /\ tries' = [tries EXCEPT ![c] = 0]

\* Mutant: the top of the loop does not look at the context.
LookAway(c) ==
    /\ loop[c].at = "top"
    /\ loop' = [loop EXCEPT ![c].at = "call"]
    /\ UNCHANGED <<policy, due, cancelled, tries>>

\* The top of the loop, with a live context.  (The loop's own condition never fails: Fail leaves
\* the loop first.)
Look(c) ==
    /\ loop[c].at = "top" /\ ~Over(c)
    /\ loop' = [loop EXCEPT ![c].at = "call"]
    /\ UNCHANGED <<policy, due, cancelled, tries>>

\* The operation is called, with whatever has become of the context since the look.
Attempt(c) ==
    /\ loop[c].at = "call"
    /\ tries' = [tries EXCEPT ![c] = @ + 1]
    /\ \E d \in Latencies : loop' = [loop EXCEPT ![c].at = "fetch", ![c].timer = now + d]
    /\ UNCHANGED <<policy, due, cancelled>>

\* The context ends the call: at the top of the loop, in the operation (whose context error is
\* never retried) or during the backoff.
Stop(c) ==
    /\ loop[c].at \in Watching /\ Over(c)
    /\ loop' = [loop EXCEPT ![c].at = "stopped"]
    /\ UNCHANGED <<policy, due, cancelled, tries>>

\* fetchOnce is past its latency; whether it answers or fails is then up to a coin.
LatencyOver(c) == loop[c].at = "fetch" /\ loop[c].timer <= now

Succeed(c) ==
    /\ LatencyOver(c)
    /\ loop' = [loop EXCEPT ![c].at = "ok"]
    /\ UNCHANGED <<policy, due, cancelled, tries>>

\* Mutant: the attempt that follows the last one is still made.
FailOnceTooOften(c) ==
    /\ LatencyOver(c)
    /\ loop' = IF loop[c].attempt > policy[c].attempts
               THEN [loop EXCEPT ![c].at = "gaveup"]
               ELSE [loop EXCEPT ![c].at = "sleep", ![c].timer = now + loop[c].delay]
    /\ UNCHANGED <<policy, due, cancelled, tries>>

\* The operation failed: back off, unless this was the last attempt.
Fail(c) ==
    /\ LatencyOver(c)
    /\ loop' = IF loop[c].attempt = policy[c].attempts
               THEN [loop EXCEPT ![c].at = "gaveup"]
               ELSE [loop EXCEPT ![c].at = "sleep", ![c].timer = now + loop[c].delay]
    /\ UNCHANGED <<policy, due, cancelled, tries>>

Least(a, b) == IF a <= b THEN a ELSE b

\* delay *= backoffFactor, capped.
Grown(d, cap) == Least(2 * d, cap)

WakeUp(c) ==
    /\ loop[c].at = "sleep" /\ loop[c].timer <= now
    /\ loop' = [loop EXCEPT ![c] =
          At("top", @.attempt + 1, Grown(@.delay, policy[c].max), 0)]
    /\ UNCHANGED <<policy, due, cancelled, tries>>

DoStep(c) ==
    Look(c) \/ Attempt(c) \/ Stop(c) \/ Succeed(c) \/ Fail(c) \/ WakeUp(c)

Call(c) ==
    /\ loop[c].at = "new"
    /\ \E cfg \in Policies : Enter(c, cfg) /\ due' = [due EXCEPT ![c] = now + Budget[cfg]]
    /\ UNCHANGED <<now, cancelled>>

Cancel(c) ==
    /\ loop[c].at \in Running /\ ~cancelled[c]
    /\ cancelled' = [cancelled EXCEPT ![c] = TRUE]
    /\ UNCHANGED <<loop, policy, due, tries>>

\* DoStep(c) is enabled: before an attempt, when the context is over, when the timer fires.
Ready(c) ==
    \/ loop[c].at \in {"top", "call"}
    \/ loop[c].at \in Watching /\ Over(c)
    \/ loop[c].at \in {"fetch", "sleep"} /\ loop[c].timer <= now

\* No call can go on before the clock moves.
Prompt == \A c \in Calls : ~Ready(c)

Tick ==
    /\ now < MaxTime /\ Prompt
    /\ now' = now + 1

\* All calls have returned, or the clock has reached its bound.
Finished ==
    /\ now = MaxTime \/ \A c \in Calls : loop[c].at \in Returned
    /\ UNCHANGED vars

Next ==
    \/ Tick /\ UNCHANGED retryVars
    \/ \E c \in Calls :
          \/ Call(c)
          \/ Cancel(c) /\ UNCHANGED now
          \/ DoStep(c) /\ UNCHANGED now
    \/ Finished

Spec == Init /\ [][Next]_vars

-----------------------------------------------------------------------------
(* Properties.                                                             *)

\* Every variable has its type: the local variables of Do, and a policy that is usable, with
\* the attempt and the delay within its limits.
TypeOK ==
    /\ now \in Nat
    /\ loop \in [Calls -> LoopState]
    /\ policy \in [Calls -> {NoPolicy} \cup {Usable(cfg) : cfg \in Policies}]
    /\ \A c \in Calls : loop[c].attempt <= policy[c].attempts /\ loop[c].delay <= policy[c].max
    /\ due \in [Calls -> Nat]
    /\ cancelled \in [Calls -> BOOLEAN]
    /\ tries \in [Calls -> Nat]

\* Do gives up only after exactly as many tries as its policy allows, and at least one; it
\* never makes more, whatever mixture of failures and sleeps it went through.
GivesUpAfterAllAttempts ==
    \A c \in Calls :
        /\ tries[c] <= policy[c].attempts
        /\ loop[c].at = "gaveup" => tries[c] = policy[c].attempts /\ tries[c] >= 1

\* "Retrying past the caller's deadline": once its context is over, a call makes no further
\* attempt, though the operation may fail just then and select may take the backoff's timer
\* rather than the context.  A call that was past its look when the context ended still makes
\* the attempt it was about to make, and no other.
NoRetryOnceOver ==
    \A c \in Calls : \A cfg \in Policies : \A n \in 0 .. Attempts(cfg) :
        /\ [](loop[c].at \in Watching /\ Over(c) /\ tries[c] = n => [](tries[c] = n))
        /\ [](loop[c].at = "call" /\ Over(c) /\ tries[c] = n => [](tries[c] <= n + 1))

\* "Well inside a request budget": unless its caller goes away, the default policy gets to make
\* all of its attempts, however slow each of them is: it is never the deadline that stops it.  (A
\* wait for the limiter before the call takes from the same budget: see ThrottledProvider.)
PolicyFitsBudget ==
    \A c \in Calls : loop[c].at = "stopped" /\ policy[c] = Usable(Default) => cancelled[c]
=============================================================================
