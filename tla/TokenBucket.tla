---------------------------- MODULE TokenBucket ----------------------------
(***************************************************************************)
(* The token-bucket limiter of internal/util/ratelimit/ratelimit.go: one   *)
(* per provider, shared by every search that calls that provider.          *)
(*                                                                         *)
(* Tokens are counted in credits, Unit credits to a token, so that the     *)
(* fractions the code keeps in a float64 are whole numbers here.  A        *)
(* critical section of the code is one step.  Wait is a loop of them: it   *)
(* looks at its context with no lock held, reserves under the lock, and    *)
(* sleeps without the lock until its timer fires or its context ends.      *)
(***************************************************************************)
EXTENDS Integers

CONSTANTS
    Procs,    \* goroutines that use the limiter
    Rate,     \* l.rate: credits that accrue per clock tick
    Burst,    \* l.burst: the most tokens the bucket holds
    Unit,     \* credits in one token
    MaxTime   \* bound: the clock stops here

ASSUME BucketAssumption ==
    Rate \in Nat /\ Burst \in Nat /\ Unit \in Nat \ {0} /\ MaxTime \in Nat

VARIABLES
    now,      \* the clock l.now() reads
    tokens,   \* l.tokens, in credits
    last,     \* l.last: when tokens was last brought up to date
    waits,    \* where each goroutine stands in Wait, or how its latest call ended
    spent,    \* history: credits handed out so far
    before,   \* history: before[t] is the value of spent when the clock reached t
    over      \* over[p]: the context of p's latest call has ended

bucketVars == <<tokens, last, waits, spent>>
vars == <<now, tokens, last, waits, spent, before, over>>

Capacity  == Burst * Unit
Unlimited == Rate = 0 \/ Burst = 0

Idle        == [at |-> "idle"]
Looking     == [at |-> "look"]
Reserving   == [at |-> "reserve"]
Sleeping(t) == [at |-> "sleep", wake |-> t]
Granted     == [at |-> "granted"]
Denied      == [at |-> "denied"]

WaitState == [at : {"idle", "look", "reserve", "granted", "denied"}]
                \cup [at : {"sleep"}, wake : Nat]

Outside(p) == waits[p].at \in {"idle", "granted", "denied"}

\* New: the bucket starts full.
Init ==
    /\ now = 0
    /\ tokens = Capacity
    /\ last = 0
    /\ waits = [p \in Procs |-> Idle]
    /\ spent = 0
    /\ before = [t \in 0 .. MaxTime |-> 0]
    /\ over = [p \in Procs |-> FALSE]

Least(a, b) == IF a <= b THEN a ELSE b

\* Mutant: an idle bucket keeps accruing past its burst.
RefilledUncapped == IF now <= last THEN tokens ELSE tokens + (now - last) * Rate

\* refillLocked: what the bucket holds once the time since last is credited.  Every caller
\* sets last to now, or leaves it when no time has passed, which is the same thing.
Refilled == IF now <= last THEN tokens ELSE Least(Capacity, tokens + (now - last) * Rate)

\* Mutant: any fraction of a token is taken for a whole one.
TakeOnCredit(p) ==
    /\ Refilled > 0
    /\ tokens' = Refilled - Unit
    /\ last' = now
    /\ spent' = spent + Unit
    /\ waits' = [waits EXCEPT ![p] = Granted]

\* A whole token is there: take it.
Take(p) ==
    /\ Refilled >= Unit
    /\ tokens' = Refilled - Unit
    /\ last' = now
    /\ spent' = spent + Unit
    /\ waits' = [waits EXCEPT ![p] = Granted]

\* Less than a token is there: the refill is kept, and p goes to state s.
Refuse(p, s) ==
    /\ Refilled < Unit
    /\ tokens' = Refilled
    /\ last' = now
    /\ waits' = [waits EXCEPT ![p] = s]
    /\ UNCHANGED spent

\* A call of an unlimited limiter leaves the bucket alone.
AllowUnlimited(p) ==
    /\ Outside(p) /\ Unlimited
    /\ waits' = [waits EXCEPT ![p] = Granted]
    /\ UNCHANGED <<tokens, last, spent>>

Allow(p) ==
    /\ Outside(p) /\ ~Unlimited
    /\ Take(p) \/ Refuse(p, Denied)

\* Tokens: reading the level brings it up to date.
ReadTokens(p) ==
    /\ Outside(p) /\ ~Unlimited
    /\ tokens' = Refilled
    /\ last' = now
    /\ UNCHANGED <<waits, spent>>

Wait(p) ==
    /\ Outside(p)
    /\ waits' = [waits EXCEPT ![p] = Looking]
    /\ UNCHANGED <<tokens, last, spent>>

\* Mutant: the loop does not look at the context before it reserves.
LookAwayAndReserve(p, dead) ==
    /\ waits[p].at = "look"
    /\ waits' = [waits EXCEPT ![p] = IF Unlimited THEN Granted ELSE Reserving]
    /\ UNCHANGED <<tokens, last, spent>>

\* The top of the loop: a context that has ended ends the wait.  (An unlimited limiter does
\* nothing else.)
Look(p, dead) ==
    /\ waits[p].at = "look"
    /\ waits' = [waits EXCEPT ![p] = IF dead THEN Denied
                                     ELSE IF Unlimited THEN Granted
                                     ELSE Reserving]
    /\ UNCHANGED <<tokens, last, spent>>

\* Mutant: the time to wait is multiplied where it should be divided.
TimeToTokenInverted == (Unit - Refilled) * Rate + 1

\* missing / rate, truncated: the timer may fire just before the token is complete.
TimeToToken == (Unit - Refilled) \div Rate

Reserve(p) ==
    /\ waits[p].at = "reserve"
    /\ Take(p) \/ Refuse(p, Sleeping(now + TimeToToken))

TimerFires(p) ==
    /\ waits[p].at = "sleep"
    /\ waits[p].wake <= now
    /\ waits' = [waits EXCEPT ![p] = Looking]
    /\ UNCHANGED <<tokens, last, spent>>

\* Mutant: the context is looked at only once the timer has fired.
InterruptLate(p, dead) ==
    /\ waits[p].at = "sleep" /\ dead /\ waits[p].wake <= now
    /\ waits' = [waits EXCEPT ![p] = Denied]
    /\ UNCHANGED <<tokens, last, spent>>

\* With the timer and ctx.Done() both ready, select takes either.
ContextInterrupts(p, dead) ==
    /\ waits[p].at = "sleep" /\ dead
    /\ waits' = [waits EXCEPT ![p] = Denied]
    /\ UNCHANGED <<tokens, last, spent>>

\* What Wait does on its own once it is called.
WaitStep(p, dead) ==
    \/ Look(p, dead)
    \/ Reserve(p)
    \/ TimerFires(p)
    \/ ContextInterrupts(p, dead)

\* WaitStep(p, dead) is enabled: only a sleeper whose context is live waits for the clock.
Ready(p, dead) ==
    \/ waits[p].at \in {"look", "reserve"}
    \/ waits[p].at = "sleep" /\ (dead \/ waits[p].wake <= now)

Tick ==
    /\ now < MaxTime
    /\ now' = now + 1
    /\ before' = [before EXCEPT ![now + 1] = spent]

\* A caller's context: live or already over when Wait is called, and over at any later time.
CallWait(p) ==
    /\ Wait(p)
    /\ \E dead \in BOOLEAN : over' = [over EXCEPT ![p] = dead]
    /\ UNCHANGED <<now, before>>

ContextEnds(p) ==
    /\ ~Outside(p) /\ ~over[p]
    /\ over' = [over EXCEPT ![p] = TRUE]
    /\ UNCHANGED <<now, before, bucketVars>>

Proceed(p) == WaitStep(p, over[p]) /\ UNCHANGED <<now, before, over>>

Others(p) ==
    /\ AllowUnlimited(p) \/ Allow(p) \/ ReadTokens(p)
    /\ UNCHANGED <<now, before, over>>

Next ==
    \/ Tick /\ UNCHANGED <<over, bucketVars>>
    \/ \E p \in Procs : CallWait(p) \/ ContextEnds(p) \/ Proceed(p) \/ Others(p)

\* A goroutine that can go on does, and time passes; nothing obliges anyone to call.
Fairness ==
    /\ WF_vars(Tick /\ UNCHANGED <<over, bucketVars>>)
    /\ \A p \in Procs : WF_vars(Proceed(p))

Spec == Init /\ [][Next]_vars /\ Fairness

-----------------------------------------------------------------------------
(* Properties.                                                             *)

\* Every variable has its type, and the level stays between empty and full (Limiter).
TypeOK ==
    /\ now \in 0 .. MaxTime
    /\ tokens \in 0 .. Capacity
    /\ last \in 0 .. now
    /\ waits \in [Procs -> WaitState]
    /\ spent \in Nat
    /\ before \in [0 .. MaxTime -> Nat]
    /\ over \in [Procs -> BOOLEAN]

\* "N per second, bursts to M": in every window of time, whoever asked, through Wait or Allow,
\* and however idle the bucket was before, the tokens handed out are at most a full bucket and
\* what accrues in the window.  (A fixed window would hand out two bursts across a boundary.)
QuotaHolds ==
    ~Unlimited =>
        \A s \in 0 .. now : spent - before[s] <= Capacity + Rate * (now - s)

\* A Wait whose context was over when it last looked, or while it slept, never gets a token:
\* between a dead context and a grant there is always a look at that context.
DeadContextIsDenied ==
    [][\A p \in Procs :
          /\ waits[p].at \in {"look", "sleep"} /\ over[p]
          => waits'[p].at \notin {"reserve", "granted"}]_vars

\* A Wait whose context ends returns, however far off its token is: the queue never outlives
\* the caller's deadline.
DeadlineEndsWait ==
    \A p \in Procs : (~Outside(p) /\ over[p]) ~> Outside(p)

\* How long a bucket takes to fill one token from nothing, rounded up.
TokenTime == (Unit + Rate - 1) \div Rate

\* With nobody to compete with, a Wait ends once a token has had the time to accrue: the
\* truncated delays add up to no lost wake-up and no oversleeping.
LoneWaitEnds ==
    \A p \in Procs :
        [](\A q \in Procs \ {p} : waits[q].at = "idle")
            => ((waits[p].at = "look" /\ now + TokenTime <= MaxTime) ~> Outside(p))
=============================================================================
