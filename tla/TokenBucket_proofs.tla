------------------------- MODULE TokenBucket_proofs -------------------------
(* The limiter's quota, for every rate, burst, number of goroutines and    *)
(* length of run.                                                          *)
EXTENDS TokenBucket, TLAPS

\* An unlimited limiter's callers never reach the bucket, whose delays would divide by zero.
BucketUnused == Unlimited => \A p \in Procs : waits[p].at \notin {"reserve", "sleep"}

\* QuotaHolds is not inductive: what may still be granted in a window is also what the bucket
\* holds.  Up to the last refill, tokens granted and tokens held together are bounded by a
\* full bucket and what has accrued; after it, nothing has been granted.
Account ==
    \A s \in 0 .. now :
        /\ s <= last => spent - before[s] + tokens <= Capacity + Rate * (last - s)
        /\ s > last => before[s] = spent

QuotaInv == TypeOK /\ BucketUnused /\ (~Unlimited => Account)

\* A full bucket is a whole number of credits.
LEMMA CapacityType == Capacity \in Nat
  BY BucketAssumption DEF Capacity

\* What accrues between two instants is a whole number of credits, and it adds up.
LEMMA RateTimes ==
  ASSUME NEW a \in Int, NEW b \in Int, NEW c \in Int, a <= b, b <= c
  PROVE  /\ Rate * (b - a) \in Nat
         /\ Rate * (c - a) = Rate * (c - b) + Rate * (b - a)
<1>1. \A x \in Nat : Rate * x \in Nat
  BY BucketAssumption
<1>2. b - a \in Nat
  OBVIOUS
<1>3. QED
  BY <1>1, <1>2, BucketAssumption

\* What refillLocked leaves in the bucket: never less than empty, never more than full, and
\* never more than what has accrued since the last refill.
LEMMA RefilledFacts ==
  ASSUME TypeOK
  PROVE  /\ Refilled \in 0 .. Capacity
         /\ Refilled <= tokens + Rate * (now - last)
<1>1. now \in Nat /\ last \in Nat /\ last <= now /\ tokens \in Nat /\ tokens <= Capacity
  BY CapacityType, BucketAssumption DEF TypeOK
<1>2. Rate * (now - last) \in Nat /\ (now - last) * Rate = Rate * (now - last)
  BY <1>1, RateTimes, BucketAssumption
<1>3. CASE now <= last
  BY <1>1, <1>2, <1>3, CapacityType DEF Refilled
<1>4. CASE ~(now <= last)
  BY <1>1, <1>2, <1>4, CapacityType DEF Refilled, Least
<1>5. QED
  BY <1>3, <1>4

\* Any operation that refills the bucket, takes c credits out of it and records them keeps the
\* account.
LEMMA AccountKept ==
  ASSUME TypeOK, Account, NEW c \in Nat, c <= Refilled,
         tokens' = Refilled - c, spent' = spent + c, last' = now,
         UNCHANGED <<now, before>>
  PROVE  Account'
<1> SUFFICES ASSUME NEW s \in 0 .. now
             PROVE  spent' - before[s] + tokens' <= Capacity + Rate * (now - s)
  BY DEF Account, TypeOK
<1>1. /\ now \in Nat /\ last \in Nat /\ last <= now /\ tokens \in Nat /\ spent \in Nat
      /\ s \in Nat /\ s <= now /\ before[s] \in Nat
  BY CapacityType, BucketAssumption DEF TypeOK
<1>2. spent' - before[s] + tokens' = spent - before[s] + Refilled
  BY <1>1, RefilledFacts, CapacityType
<1>3. CASE s <= last
  <2>1. Rate * (now - s) = Rate * (now - last) + Rate * (last - s)
    BY <1>1, <1>3, BucketAssumption
  <2>2. Rate * (now - last) \in Nat /\ Rate * (last - s) \in Nat
    BY <1>1, <1>3, BucketAssumption
  <2>3. spent - before[s] + tokens <= Capacity + Rate * (last - s)
    BY <1>3 DEF Account
  <2>4. QED
    BY <1>1, <1>2, <2>1, <2>2, <2>3, RefilledFacts, CapacityType
<1>4. CASE s > last
  <2>1. before[s] = spent
    BY <1>4 DEF Account
  <2>2. Rate * (now - s) \in Nat
    BY <1>1, BucketAssumption
  <2>3. QED
    BY <1>1, <1>2, <2>1, <2>2, RefilledFacts, CapacityType
<1>5. QED
  BY <1>1, <1>3, <1>4

\* A step of a goroutine that leaves the bucket and the clock alone keeps the account.
LEMMA AccountUntouched ==
  ASSUME Account, UNCHANGED <<now, before, tokens, last, spent>>
  PROVE  Account'
  BY DEF Account

\* Take keeps types and account.
LEMMA TakeStep ==
  ASSUME QuotaInv, ~Unlimited, NEW p \in Procs, Take(p), UNCHANGED <<now, before, over>>
  PROVE  QuotaInv'
<1>1. Unit \in Nat /\ Unit <= Refilled /\ TypeOK /\ Account /\ Refilled \in 0 .. Capacity
  BY RefilledFacts, BucketAssumption, CapacityType DEF Take, QuotaInv
<1>2. Account'
  BY <1>1, AccountKept DEF Take
<1>3. TypeOK'
  <2>1. Granted \in WaitState
    BY DEF Granted, WaitState
  <2>2. tokens' \in 0 .. Capacity /\ spent' \in Nat /\ last' \in 0 .. now'
    BY <1>1, CapacityType DEF Take, TypeOK
  <2>3. QED
    BY <2>1, <2>2, <1>1 DEF Take, TypeOK, Capacity
<1>4. QED
  BY <1>2, <1>3 DEF QuotaInv, BucketUnused, Unlimited

\* Refuse keeps types and account, wherever the goroutine goes.
LEMMA RefuseStep ==
  ASSUME QuotaInv, ~Unlimited, NEW p \in Procs, NEW s \in WaitState, Refuse(p, s),
         UNCHANGED <<now, before, over>>
  PROVE  QuotaInv'
<1>1. TypeOK /\ Account /\ Refilled \in 0 .. Capacity
  BY RefilledFacts DEF QuotaInv
<1>2. Account'
  BY <1>1, AccountKept, CapacityType DEF Refuse, TypeOK
<1>3. TypeOK'
  <2>1. tokens' \in 0 .. Capacity /\ spent' \in Nat /\ last' \in 0 .. now'
    BY <1>1, CapacityType DEF Refuse, TypeOK
  <2>2. QED
    BY <2>1, <1>1 DEF Refuse, TypeOK, Capacity
<1>4. QED
  BY <1>2, <1>3 DEF QuotaInv, BucketUnused, Unlimited

\* Every step keeps the invariant.
LEMMA QuotaStep == QuotaInv /\ [Next]_vars => QuotaInv'
<1> SUFFICES ASSUME QuotaInv, [Next]_vars PROVE QuotaInv'
  OBVIOUS
<1>t. TypeOK
  BY DEF QuotaInv
<1>w. /\ Looking \in WaitState /\ Reserving \in WaitState
      /\ Granted \in WaitState /\ Denied \in WaitState
  BY DEF Looking, Reserving, Granted, Denied, WaitState
<1>1. ASSUME Tick, UNCHANGED <<over, bucketVars>> PROVE QuotaInv'
  <2>1. TypeOK'
    BY <1>1, <1>t, BucketAssumption, CapacityType DEF TypeOK, Tick, bucketVars, Capacity
  <2>2. BucketUnused'
    BY <1>1 DEF QuotaInv, BucketUnused, Unlimited, bucketVars
  <2>3. ASSUME ~Unlimited PROVE Account'
    <3> SUFFICES ASSUME NEW s \in 0 .. now'
                 PROVE  /\ s <= last => spent - before'[s] + tokens <= Capacity + Rate * (last - s)
                        /\ s > last => before'[s] = spent
      BY <1>1 DEF Account, bucketVars, Capacity
    <3>1. now \in Nat /\ last \in Nat /\ last <= now /\ now' = now + 1 /\ now' \in 0 .. MaxTime
      BY <1>1, <1>t, BucketAssumption DEF TypeOK, Tick
    <3>2. CASE s = now'
      BY <3>1, <3>2, <1>1, <1>t DEF Tick, TypeOK
    <3>3. CASE s # now'
      <4>1. s \in 0 .. now /\ before'[s] = before[s]
        BY <3>1, <3>3, <1>1, <1>t DEF Tick, TypeOK
      <4>2. QED
        BY <4>1, <2>3 DEF QuotaInv, Account
    <3>4. QED
      BY <3>2, <3>3
  <2>4. QED
    BY <2>1, <2>2, <2>3 DEF QuotaInv, Unlimited
<1>2. ASSUME NEW p \in Procs, CallWait(p) PROVE QuotaInv'
  <2>1. TypeOK'
    BY <1>2, <1>t, <1>w DEF TypeOK, CallWait, Wait, Capacity
  <2>2. BucketUnused'
    BY <1>2, <1>t DEF QuotaInv, BucketUnused, Unlimited, CallWait, Wait, Looking, TypeOK
  <2>3. QED
    BY <2>1, <2>2, <1>2, AccountUntouched DEF QuotaInv, CallWait, Wait, Unlimited
<1>3. ASSUME NEW p \in Procs, ContextEnds(p) PROVE QuotaInv'
  <2>1. TypeOK' /\ BucketUnused'
    BY <1>3, <1>t DEF TypeOK, QuotaInv, BucketUnused, Unlimited, ContextEnds, bucketVars, Capacity
  <2>2. QED
    BY <2>1, <1>3, AccountUntouched DEF QuotaInv, ContextEnds, bucketVars, Unlimited
<1>4. ASSUME NEW p \in Procs, Look(p, over[p]), UNCHANGED <<now, before, over>> PROVE QuotaInv'
  <2>1. waits' = [waits EXCEPT ![p] = waits'[p]]
        /\ waits'[p] \in {Granted, Denied, Reserving} /\ (Unlimited => waits'[p] # Reserving)
    BY <1>4, <1>t DEF Look, TypeOK, Granted, Denied, Reserving
  <2>2. TypeOK'
    BY <2>1, <1>4, <1>t, <1>w DEF TypeOK, Look, Capacity
  <2>3. BucketUnused'
    BY <2>1, <1>t DEF QuotaInv, BucketUnused, Unlimited, TypeOK, Granted, Denied, Reserving
  <2>4. QED
    BY <2>2, <2>3, <1>4, AccountUntouched DEF QuotaInv, Look, Unlimited
<1>5. ASSUME NEW p \in Procs, Reserve(p), UNCHANGED <<now, before, over>> PROVE QuotaInv'
  <2>1. ~Unlimited
    BY <1>5 DEF QuotaInv, BucketUnused, Reserve
  <2>2. CASE Take(p)
    BY <2>1, <2>2, <1>5, TakeStep
  <2>3. CASE Refuse(p, Sleeping(now + TimeToToken))
    <3>1. Unit - Refilled \in Nat /\ Rate \in Nat \ {0} /\ now \in Nat
      BY <2>1, <2>3, <1>t, RefilledFacts, CapacityType, BucketAssumption
      DEF Refuse, Unlimited, TypeOK
    <3>2. now + TimeToToken \in Nat
      BY <3>1 DEF TimeToToken
    <3>3. Sleeping(now + TimeToToken) \in WaitState
      BY <3>2 DEF Sleeping, WaitState
    <3>4. QED
      BY <3>3, <2>1, <2>3, <1>5, RefuseStep
  <2>4. QED
    BY <2>2, <2>3, <1>5 DEF Reserve
<1>6. ASSUME NEW p \in Procs, TimerFires(p) \/ ContextInterrupts(p, over[p]),
             UNCHANGED <<now, before, over>>
      PROVE  QuotaInv'
  <2>1. TypeOK' /\ BucketUnused'
    BY <1>6, <1>t, <1>w
    DEF TypeOK, QuotaInv, BucketUnused, Unlimited, TimerFires, ContextInterrupts, Looking, Denied,
        Capacity
  <2>2. QED
    BY <2>1, <1>6, AccountUntouched DEF QuotaInv, TimerFires, ContextInterrupts, Unlimited
<1>7. ASSUME NEW p \in Procs, AllowUnlimited(p), UNCHANGED <<now, before, over>> PROVE QuotaInv'
  <2>1. TypeOK' /\ BucketUnused'
    BY <1>7, <1>t, <1>w
    DEF TypeOK, QuotaInv, BucketUnused, Unlimited, AllowUnlimited, Granted, Capacity
  <2>2. QED
    BY <2>1, <1>7, AccountUntouched DEF QuotaInv, AllowUnlimited, Unlimited
<1>8. ASSUME NEW p \in Procs, Allow(p), UNCHANGED <<now, before, over>> PROVE QuotaInv'
  BY <1>8, <1>w, TakeStep, RefuseStep DEF Allow
<1>9. ASSUME NEW p \in Procs, ReadTokens(p), UNCHANGED <<now, before, over>> PROVE QuotaInv'
  <2>1. ~Unlimited /\ TypeOK /\ Account /\ Refilled \in 0 .. Capacity
    BY <1>9, RefilledFacts DEF QuotaInv, ReadTokens
  <2>2. Account'
    BY <1>9, <2>1, AccountKept, CapacityType DEF ReadTokens, TypeOK
  <2>3. TypeOK' /\ BucketUnused'
    BY <1>9, <2>1 DEF TypeOK, QuotaInv, BucketUnused, Unlimited, ReadTokens, Capacity
  <2>4. QED
    BY <2>2, <2>3 DEF QuotaInv, Unlimited
<1>10. CASE UNCHANGED vars
  <2>1. TypeOK' /\ BucketUnused'
    BY <1>10, <1>t DEF TypeOK, QuotaInv, BucketUnused, Unlimited, vars, Capacity
  <2>2. QED
    BY <2>1, <1>10, AccountUntouched DEF QuotaInv, vars, Unlimited
<1>11. QED
  BY <1>1, <1>2, <1>3, <1>4, <1>5, <1>6, <1>7, <1>8, <1>9, <1>10
  DEF Next, Proceed, WaitStep, Others

\* The initial state satisfies the invariant: the bucket is full and nothing has been granted.
LEMMA QuotaInit == Init => QuotaInv
<1> SUFFICES ASSUME Init PROVE QuotaInv
  OBVIOUS
<1>1. TypeOK
  BY BucketAssumption, CapacityType DEF Init, TypeOK, Idle, WaitState
<1>2. BucketUnused
  BY DEF Init, BucketUnused, Idle
<1>3. Account
  <2>1. 0 .. now = {0}
    BY DEF Init
  <2>2. Rate * (0 - 0) = 0
    BY BucketAssumption
  <2>3. QED
    BY <2>1, <2>2, CapacityType, BucketAssumption DEF Init, Account
<1>4. QED
  BY <1>1, <1>2, <1>3 DEF QuotaInv

\* In every reachable state every variable has its type; the level never leaves its bounds.
THEOREM TypeCorrect == Spec => []TypeOK
<1>1. QuotaInv => TypeOK
  BY DEF QuotaInv
<1>2. QED
  BY <1>1, QuotaInit, QuotaStep, PTL DEF Spec

\* In every window of time the limiter hands out at most a full bucket and what accrues in it.
THEOREM QuotaIsKept == Spec => []QuotaHolds
<1>1. QuotaInv => QuotaHolds
  <2> SUFFICES ASSUME QuotaInv, ~Unlimited, NEW s \in 0 .. now
               PROVE  spent - before[s] <= Capacity + Rate * (now - s)
    BY DEF QuotaHolds
  <2>1. /\ now \in Nat /\ last \in Nat /\ last <= now /\ tokens \in Nat /\ spent \in Nat
        /\ s \in Nat /\ s <= now /\ before[s] \in Nat /\ Account
    BY CapacityType, BucketAssumption DEF TypeOK, QuotaInv
  <2>2. Rate * (now - s) \in Nat
    BY <2>1, BucketAssumption
  <2>3. CASE s <= last
    <3>1. Rate * (now - s) = Rate * (now - last) + Rate * (last - s) /\ Rate * (now - last) \in Nat
      BY <2>1, <2>3, BucketAssumption
    <3>2. spent - before[s] + tokens <= Capacity + Rate * (last - s) /\ Rate * (last - s) \in Nat
      BY <2>1, <2>3, BucketAssumption DEF Account
    <3>3. QED
      BY <2>1, <3>1, <3>2, CapacityType
  <2>4. CASE s > last
    BY <2>1, <2>2, <2>4, CapacityType DEF Account
  <2>5. QED
    BY <2>1, <2>3, <2>4
<1>2. QED
  BY <1>1, QuotaInit, QuotaStep, PTL DEF Spec

\* No Wait takes a token after it has looked at, or been woken beside, a context that is over.
THEOREM DeadWaitsAreDenied == Spec => DeadContextIsDenied
<1> DEFINE Kept ==
      \A p \in Procs :
          /\ waits[p].at \in {"look", "sleep"} /\ over[p]
          => waits'[p].at \notin {"reserve", "granted"}
<1>1. TypeOK /\ [Next]_vars => [Kept]_vars
  <2> SUFFICES ASSUME TypeOK, Next, NEW p \in Procs,
                      waits[p].at \in {"look", "sleep"}, over[p]
               PROVE  waits'[p].at \notin {"reserve", "granted"}
    OBVIOUS
  <2> USE DEF TypeOK, Outside, Looking, Sleeping, Granted, Denied, Reserving
  <2>1. CASE Tick /\ UNCHANGED <<over, bucketVars>>
    BY <2>1 DEF bucketVars
  <2>2. ASSUME NEW q \in Procs, CallWait(q) PROVE waits'[p].at \notin {"reserve", "granted"}
    BY <2>2 DEF CallWait, Wait
  <2>3. ASSUME NEW q \in Procs, ContextEnds(q) PROVE waits'[p].at \notin {"reserve", "granted"}
    BY <2>3 DEF ContextEnds, bucketVars
  <2>4. ASSUME NEW q \in Procs, Proceed(q) PROVE waits'[p].at \notin {"reserve", "granted"}
    <3>1. CASE q = p
      BY <2>4, <3>1
      DEF Proceed, WaitStep, Look, Reserve, TimerFires, ContextInterrupts
    <3>2. CASE q # p
      BY <2>4, <3>2
      DEF Proceed, WaitStep, Look, Reserve, Take, Refuse, TimerFires, ContextInterrupts
    <3>3. QED
      BY <3>1, <3>2
  <2>5. ASSUME NEW q \in Procs, Others(q) PROVE waits'[p].at \notin {"reserve", "granted"}
    BY <2>5 DEF Others, AllowUnlimited, Allow, Take, Refuse, ReadTokens
  <2>6. QED
    BY <2>1, <2>2, <2>3, <2>4, <2>5 DEF Next
<1>2. QED
  BY <1>1, TypeCorrect, PTL DEF Spec, DeadContextIsDenied
=============================================================================
