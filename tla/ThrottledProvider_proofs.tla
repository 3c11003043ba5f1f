---------------------- MODULE ThrottledProvider_proofs ----------------------
(* A throttled provider, for any number of searches, any limiter, any retry *)
(* policy, any latencies and any timeout.                                  *)
EXTENDS ThrottledProvider, FiniteSetTheorems, TLAPS

\* What the proofs need of the types: how long a sleeper still waits does not matter to them.
Types ==
    /\ now \in Nat /\ spent \in Nat /\ made \in Nat
    /\ waits = [p \in Procs |-> waits[p]]
    /\ \A p \in Procs : waits[p].at \in {"idle", "look", "reserve", "sleep", "granted", "denied"}
    /\ loop \in [Procs -> Loop!LoopState]
    /\ policy \in [Procs -> {Loop!NoPolicy, Loop!Usable(Policy)}]
    /\ due \in [Procs -> Nat]
    /\ cancelled \in [Procs -> BOOLEAN]
    /\ tries \in [Procs -> Nat]

\* The policy a client runs with has at least one attempt, a positive delay and no smaller cap.
LEMMA UsablePolicy ==
  /\ Loop!Attempts(Policy) \in Nat /\ Loop!Attempts(Policy) >= 1
  /\ Loop!Base(Policy) \in Nat /\ Loop!Cap(Policy) \in Nat
  BY ProviderAssumption DEF Loop!Attempts, Loop!Base, Loop!Cap

\* What a step of the wait does: it moves one goroutine that is inside Wait, and one that a limiter
\* with a rate lets through has paid for it.
LEMMA QueueMoves ==
  ASSUME Types, NEW p \in Procs, Queue(p)
  PROVE  /\ waits' = [waits EXCEPT ![p] = waits'[p]]
         /\ waits'[p].at \in {"look", "reserve", "sleep", "granted", "denied"}
         /\ ~Bucket!Outside(p)
         /\ spent' \in {spent, spent + Unit}
         /\ ~Bucket!Unlimited /\ waits'[p].at = "granted" => spent' = spent + Unit
         /\ UNCHANGED <<now, loop, policy, due, cancelled, tries, made>>
<1> USE DEF Types, Queue, callVars, Bucket!Outside, Bucket!Granted, Bucket!Denied, Bucket!Reserving,
            Bucket!Looking, Bucket!Sleeping
<1>1. CASE Bucket!Look(p, Dead[p])
  BY <1>1 DEF Bucket!Look
<1>2. CASE Bucket!Reserve(p)
  BY <1>2 DEF Bucket!Reserve, Bucket!Take, Bucket!Refuse
<1>3. CASE Bucket!TimerFires(p)
  BY <1>3 DEF Bucket!TimerFires
<1>4. CASE Bucket!ContextInterrupts(p, Dead[p])
  BY <1>4 DEF Bucket!ContextInterrupts
<1>5. QED
  BY <1>1, <1>2, <1>3, <1>4 DEF Bucket!WaitStep

\* The ways a step of the retry loop can go: it looks at the context, the operation is called, the
\* call returns, it backs off with attempts left, or it wakes up.
Looks(p)    == /\ loop[p].at = "top" /\ loop'[p].at = "call"
               /\ loop'[p].attempt = loop[p].attempt
               /\ tries' = tries /\ made' = made
Calls(p)    == /\ loop[p].at = "call" /\ loop'[p].at = "fetch"
               /\ loop'[p].attempt = loop[p].attempt
               /\ tries'[p] = tries[p] + 1 /\ made' = made + 1
Returns(p)  == loop'[p].at \in Loop!Returned /\ tries' = tries /\ made' = made
BacksOff(p) == /\ loop[p].at = "fetch" /\ loop'[p].at = "sleep"
               /\ loop'[p].attempt = loop[p].attempt
               /\ loop[p].attempt # policy[p].attempts
               /\ tries' = tries /\ made' = made
WakesUp(p)  == /\ loop[p].at = "sleep" /\ loop'[p].at = "top"
               /\ loop'[p].attempt = loop[p].attempt + 1
               /\ tries' = tries /\ made' = made

\* A step of the retry loop moves one running call, in one of these ways.
LEMMA FetchMoves ==
  ASSUME Types, NEW p \in Procs, Fetch(p)
  PROVE  /\ loop[p].at \in Loop!Running
         /\ loop' = [loop EXCEPT ![p] = loop'[p]] /\ loop'[p] \in Loop!LoopState
         /\ tries' = [tries EXCEPT ![p] = tries'[p]] /\ tries'[p] \in Nat
         /\ Looks(p) \/ Calls(p) \/ Returns(p) \/ BacksOff(p) \/ WakesUp(p)
         /\ UNCHANGED <<now, waits, spent, policy, due, cancelled>>
<1>f. /\ loop[p].attempt \in Nat /\ loop[p].delay \in Nat /\ loop[p].timer \in Nat
      /\ now \in Nat /\ tries[p] \in Nat /\ loop[p] \in Loop!LoopState
      /\ loop \in [Procs -> Loop!LoopState] /\ tries \in [Procs -> Nat]
  BY DEF Types, Loop!LoopState
<1>m. policy[p].max \in Nat
  BY UsablePolicy, ProviderAssumption DEF Types, Loop!NoPolicy, Loop!Usable
<1>p. made' = IF tries'[p] > tries[p] THEN made + 1 ELSE made
  BY DEF Fetch
<1>u. UNCHANGED <<now, waits, spent>>
  BY DEF Fetch
<1>0. CASE Loop!Look(p)
  <2>1. /\ loop' = [loop EXCEPT ![p] = [loop[p] EXCEPT !.at = "call"]]
        /\ tries' = tries /\ loop[p].at = "top"
        /\ policy' = policy /\ due' = due /\ cancelled' = cancelled
    BY <1>0, <1>f DEF Loop!Look
  <2>2. /\ loop'[p] \in Loop!LoopState /\ loop'[p].at = "call"
        /\ loop'[p].attempt = loop[p].attempt
    BY <2>1, <1>f DEF Loop!LoopState, Loop!Running
  <2>3. QED
    BY <2>1, <2>2, <1>f, <1>p, <1>u DEF Loop!Running, Loop!Watching, Looks
<1>1. CASE Loop!Attempt(p)
  <2>1. PICK d \in Latencies : loop' = [loop EXCEPT ![p].at = "fetch", ![p].timer = now + d]
    BY <1>1 DEF Loop!Attempt
  <2>2. now + d \in Nat
    BY <1>f, ProviderAssumption
  <2>3. loop' = [loop EXCEPT ![p] = [loop[p] EXCEPT !.at = "fetch", !.timer = now + d]]
    BY <2>1, <1>f
  <2>4. /\ loop'[p] \in Loop!LoopState /\ loop'[p].at = "fetch"
        /\ loop'[p].attempt = loop[p].attempt
    BY <2>2, <2>3, <1>f DEF Loop!LoopState, Loop!Running, Loop!Watching
  <2>5. tries' = [tries EXCEPT ![p] = tries[p] + 1] /\ tries'[p] = tries[p] + 1
    BY <1>1, <1>f DEF Loop!Attempt
  <2>6. made' = made + 1
    BY <2>5, <1>p, <1>f
  <2>7. QED
    BY <2>3, <2>4, <2>5, <2>6, <1>1, <1>f, <1>u DEF Loop!Attempt, Loop!Running, Loop!Watching, Calls
<1>2. CASE Loop!Stop(p)
  BY <1>2, <1>f, <1>p, <1>u
  DEF Loop!Stop, Loop!LoopState, Loop!Running, Loop!Watching, Loop!Returned, Returns
<1>3. CASE Loop!Succeed(p)
  BY <1>3, <1>f, <1>p, <1>u
  DEF Loop!Succeed, Loop!LatencyOver, Loop!LoopState, Loop!Running, Loop!Watching, Loop!Returned,
      Returns
<1>4. CASE Loop!Fail(p)
  <2>1. CASE loop[p].attempt = policy[p].attempts
    BY <2>1, <1>4, <1>f, <1>p, <1>u
    DEF Loop!Fail, Loop!LatencyOver, Loop!LoopState, Loop!Running, Loop!Watching, Loop!Returned,
        Returns
  <2>2. CASE loop[p].attempt # policy[p].attempts
    <3>1. /\ loop' = [loop EXCEPT ![p] = [loop[p] EXCEPT !.at = "sleep",
                                                         !.timer = now + loop[p].delay]]
          /\ tries' = tries /\ loop[p].at = "fetch"
          /\ policy' = policy /\ due' = due /\ cancelled' = cancelled
      BY <1>4, <2>2, <1>f DEF Loop!Fail, Loop!LatencyOver
    <3>2. now + loop[p].delay \in Nat
      BY <1>f
    <3>3. /\ loop'[p] \in Loop!LoopState /\ loop'[p].at = "sleep"
          /\ loop'[p].attempt = loop[p].attempt
      BY <3>1, <3>2, <1>f DEF Loop!LoopState, Loop!Running, Loop!Watching
    <3>4. QED
      BY <2>2, <3>1, <3>3, <1>f, <1>p, <1>u DEF Loop!Running, Loop!Watching, BacksOff
  <2>3. QED
    BY <2>1, <2>2
<1>5. CASE Loop!WakeUp(p)
  <2>1. Loop!Grown(loop[p].delay, policy[p].max) \in Nat
    BY <1>f, <1>m DEF Loop!Grown, Loop!Least
  <2>2. loop'[p] = Loop!At("top", loop[p].attempt + 1, Loop!Grown(loop[p].delay, policy[p].max), 0)
    BY <1>5, <1>f DEF Loop!WakeUp
  <2>3. /\ loop'[p] \in Loop!LoopState /\ loop'[p].at = "top"
        /\ loop'[p].attempt = loop[p].attempt + 1
    BY <2>1, <2>2, <1>f DEF Loop!At, Loop!LoopState, Loop!Running, Loop!Watching
  <2>4. QED
    BY <2>3, <1>5, <1>f, <1>p, <1>u DEF Loop!WakeUp, Loop!Running, Loop!Watching, WakesUp
<1>6. QED
  BY <1>0, <1>1, <1>2, <1>3, <1>4, <1>5 DEF Fetch, Loop!DoStep

\* Every provider starts with these types.
LEMMA TypesInit == Init => Types
  BY ProviderAssumption
  DEF Init, Types, Loop!Init, Loop!At, Loop!LoopState, Loop!NoPolicy, Bucket!Idle

\* Every step keeps them.
LEMMA TypesStep == Types /\ [Next]_vars => Types'
<1> SUFFICES ASSUME Types, [Next]_vars PROVE Types'
  OBVIOUS
<1>1. CASE Tick
  BY <1>1, ProviderAssumption DEF Tick, Bucket!Tick, callVars, Types
<1>2. ASSUME NEW p \in Procs, Arrive(p) PROVE Types'
  <2>1. now + Timeout \in Nat
    BY ProviderAssumption DEF Types
  <2>2. Loop!At("new", 0, 0, 0) \in Loop!LoopState
    BY DEF Loop!At, Loop!LoopState
  <2>3. /\ waits' = [waits EXCEPT ![p] = Bucket!Looking] /\ spent' = spent
        /\ UNCHANGED <<now, policy, made>>
        /\ loop' = [loop EXCEPT ![p] = Loop!At("new", 0, 0, 0)]
        /\ due' = [due EXCEPT ![p] = now + Timeout]
        /\ tries' = [tries EXCEPT ![p] = 0]
        /\ \E gone \in BOOLEAN : cancelled' = [cancelled EXCEPT ![p] = gone]
    BY <1>2 DEF Arrive, Bucket!Wait
  <2>4. QED
    BY <2>1, <2>2, <2>3 DEF Types, Bucket!Looking
<1>3. ASSUME NEW p \in Procs, Delegate(p) PROVE Types'
  <2>1. Loop!At("top", 1, Loop!Base(Policy), 0) \in Loop!LoopState
    BY UsablePolicy DEF Loop!At, Loop!LoopState, Loop!Running, Loop!Watching
  <2>2. QED
    BY <1>3, <2>1 DEF Delegate, Loop!Enter, Types
<1>4. ASSUME NEW p \in Procs, Queue(p) PROVE Types'
  BY <1>4, QueueMoves, ProviderAssumption DEF Types
<1>5. ASSUME NEW p \in Procs, Fetch(p) PROVE Types'
  BY <1>5, FetchMoves DEF Types, Looks, Calls, Returns, BacksOff, WakesUp
<1>6. ASSUME NEW p \in Procs, Cancel(p) PROVE Types'
  BY <1>6 DEF Cancel, Types
<1>7. CASE UNCHANGED vars
  BY <1>7 DEF vars, Types
<1>8. QED
  BY <1>1, <1>2, <1>3, <1>4, <1>5, <1>6, <1>7 DEF Next, ClockStopped

-----------------------------------------------------------------------------
(* One deadline for the queue, the fetches and the backoffs.               *)

\* A call that is waiting or running when the clock moves has a live context.
LEMMA OnlyLiveCallsWait ==
  ASSUME Types, Tick, NEW p \in Procs, ~Free(p)
  PROVE  now + 1 <= due[p]
<1>1. ~Loop!Ready(p) /\ ~Bucket!Ready(p, Dead[p]) /\ ~Admitted(p)
  BY DEF Tick, Prompt, Loop!Prompt
<1>2. now \in Nat /\ due[p] \in Nat /\ Dead[p] = Loop!Over(p)
  BY DEF Types, Dead
<1>3. loop[p].at \in {"new"} \cup Loop!Running \cup Loop!Returned
  BY DEF Types, Loop!LoopState
<1>4. ~Loop!Over(p)
  <2>1. CASE Bucket!Outside(p)
    <3>1. waits[p].at = "granted" /\ loop[p].at \in Loop!Running
      BY <1>1, <1>3, <2>1 DEF Free, Admitted
    <3>2. QED
      BY <1>1, <3>1 DEF Loop!Ready, Loop!Running
  <2>2. CASE waits[p].at = "sleep"
    BY <1>1, <1>2, <2>2 DEF Bucket!Ready
  <2>3. CASE ~Bucket!Outside(p) /\ waits[p].at # "sleep"
    BY <1>1, <2>3 DEF Bucket!Ready, Bucket!Outside, Types
  <2>4. QED
    BY <2>1, <2>2, <2>3
<1>5. QED
  BY <1>2, <1>4 DEF Loop!Over

\* BackByDeadline is inductive with the types.
DeadlineInv == Types /\ BackByDeadline

\* Every step keeps it: a call that arrives has its whole timeout before it, the clock waits for
\* every call whose context is over, and no other step brings a call back to life.
LEMMA DeadlineStep == DeadlineInv /\ [Next]_vars => DeadlineInv'
<1> SUFFICES ASSUME DeadlineInv, [Next]_vars PROVE DeadlineInv'
  OBVIOUS
<1>t. Types /\ Types' /\ BackByDeadline
  BY TypesStep DEF DeadlineInv
<1> SUFFICES ASSUME NEW q \in Procs, ~Free(q)' PROVE now' <= due'[q]
  BY <1>t DEF DeadlineInv, BackByDeadline
<1>q. ~Free(q) => now <= due[q]
  BY <1>t DEF BackByDeadline
<1>1. CASE Tick
  <2>1. ~Free(q) /\ now' = now + 1 /\ due' = due
    BY <1>1 DEF Tick, Bucket!Tick, callVars, Free, Bucket!Outside
  <2>2. QED
    BY <2>1, <1>1, <1>t, OnlyLiveCallsWait
<1>2. ASSUME NEW p \in Procs, Arrive(p) PROVE now' <= due'[q]
  <2>1. CASE q = p
    BY <2>1, <1>2, <1>t, ProviderAssumption DEF Arrive, Types
  <2>2. CASE q # p
    BY <2>2, <1>2, <1>q, <1>t DEF Arrive, Types, Free, Bucket!Wait, Bucket!Outside
  <2>3. QED
    BY <2>1, <2>2
<1>3. ASSUME NEW p \in Procs, Delegate(p) PROVE now' <= due'[q]
  <2>1. ~Free(q)
    BY <1>3, <1>t DEF Delegate, Loop!Enter, Admitted, Free, Types, Bucket!Outside, Loop!Returned
  <2>2. QED
    BY <2>1, <1>q, <1>3 DEF Delegate
<1>4. ASSUME NEW p \in Procs, Queue(p) PROVE now' <= due'[q]
  <2>1. ~Free(q)
    BY <1>4, <1>t, QueueMoves DEF Free, Types, Bucket!Outside
  <2>2. QED
    BY <2>1, <1>q, <1>4 DEF Queue, callVars
<1>5. ASSUME NEW p \in Procs, Fetch(p) PROVE now' <= due'[q]
  <2>1. ~Free(q)
    BY <1>5, <1>t, FetchMoves
    DEF Free, Types, Bucket!Outside, Loop!Running, Loop!Watching, Loop!Returned
  <2>2. QED
    BY <2>1, <1>q, <1>5, <1>t, FetchMoves
<1>6. ASSUME NEW p \in Procs, Cancel(p) PROVE now' <= due'[q]
  BY <1>6, <1>q DEF Cancel, Free, Bucket!Outside
<1>7. CASE UNCHANGED vars
  BY <1>7, <1>q DEF vars, Free, Bucket!Outside
<1>8. QED
  BY <1>1, <1>2, <1>3, <1>4, <1>5, <1>6, <1>7 DEF Next, ClockStopped

\* No call of a throttled provider outlives its timeout, whatever the limiter, the latencies and
\* the backoffs are and however many searches queue for the limiter.
THEOREM CallsEndInTime == Spec => []BackByDeadline
<1>1. Init => DeadlineInv
  <2> SUFFICES ASSUME Init PROVE DeadlineInv
    OBVIOUS
  <2>1. \A p \in Procs : Free(p)
    BY DEF Init, Free, Bucket!Idle, Bucket!Outside
  <2>2. QED
    BY <2>1, TypesInit DEF DeadlineInv, BackByDeadline
<1>2. DeadlineInv => BackByDeadline
  BY DEF DeadlineInv
<1>3. QED
  BY <1>1, <1>2, DeadlineStep, PTL DEF Spec

-----------------------------------------------------------------------------
(* Every fetch is paid for.                                                *)

\* The attempts a token pays for.
Allowed == Loop!Attempts(Policy)

\* FetchesArePaidFor is not inductive: a token is paid before the fetches it is for.  So a call
\* is followed from the queue through its attempts: only a granted wait leads into the retry loop,
\* and the loop calls the operation only where its count has attempts left.
InOrder(p) ==
    /\ waits[p].at # "granted" => loop[p].at = "new"
    /\ loop[p].at = "new" => tries[p] = 0
    /\ loop[p].at \in Loop!Running => policy[p].attempts = Allowed /\ loop[p].attempt <= Allowed
    /\ loop[p].at \in {"top", "call"} => tries[p] + 1 = loop[p].attempt
    /\ loop[p].at \in {"fetch", "sleep"} => tries[p] = loop[p].attempt
    /\ loop[p].at = "sleep" => tries[p] < Allowed

\* The attempts that are paid for and have not been made.
Unused == {a \in Procs \X (1 .. Allowed) : waits[a[1]].at = "granted" /\ tries[a[1]] < a[2]}

\* The books: what has been fetched and what may still be fetched on the tokens handed out.
Books == ~Bucket!Unlimited => (made + Cardinality(Unused)) * Unit <= Allowed * spent

PaidInv == Types /\ (\A p \in Procs : InOrder(p)) /\ Books

\* There are finitely many attempts to make.
LEMMA UnusedIsFinite ==
  ASSUME NEW S \in SUBSET (Procs \X (1 .. Allowed))
  PROVE  IsFiniteSet(S) /\ Cardinality(S) \in Nat
<1>1. IsFiniteSet(1 .. Allowed)
  BY UsablePolicy, FS_Interval DEF Allowed
<1>2. IsFiniteSet(Procs \X (1 .. Allowed))
  BY <1>1, ProviderAssumption, FS_Product
<1>3. QED
  BY <1>2, FS_Subset, FS_CardinalityType

\* One call has Allowed attempts.
LEMMA AttemptsOfOneCall ==
  ASSUME NEW p \in Procs
  PROVE  Cardinality({p} \X (1 .. Allowed)) = Allowed
<1>1. /\ Allowed \in Nat /\ IsFiniteSet(1 .. Allowed)
      /\ Cardinality(1 .. Allowed) = IF 1 > Allowed THEN 0 ELSE Allowed - 1 + 1
  BY UsablePolicy, FS_Interval DEF Allowed
<1>2. IsFiniteSet({p}) /\ Cardinality({p}) = 1
  BY FS_Singleton
<1>3. Cardinality({p} \X (1 .. Allowed)) = Cardinality({p}) * Cardinality(1 .. Allowed)
  BY <1>1, <1>2, FS_Product
<1>4. Allowed >= 1
  BY UsablePolicy DEF Allowed
<1>5. QED
  BY <1>1, <1>2, <1>3, <1>4

\* The arithmetic of the books: n attempts, made or still paid for, at a to a token of t credits,
\* stay balanced when none is added, and when a are added with another token.
LEMMA Bookkeeping ==
  ASSUME NEW n \in Nat, NEW s \in Nat, NEW a \in Nat, NEW t \in Nat, n * t <= a * s,
         NEW m \in Nat, NEW r \in Nat,
         \/ m <= n /\ s <= r
         \/ m <= n + a /\ r = s + t
  PROVE  m * t <= a * r
<1>1. ASSUME NEW x \in Nat, NEW y \in Nat, NEW z \in Nat, x <= y PROVE x * z <= y * z
  <2>1. y - x \in Nat /\ (y - x) * z \in Nat
    BY <1>1
  <2>2. y * z = x * z + (y - x) * z
    BY <1>1
  <2>3. x * z \in Nat /\ y * z \in Nat
    OBVIOUS
  <2>4. QED
    BY <2>1, <2>2, <2>3
<1>2. /\ n * t \in Nat /\ m * t \in Nat /\ a * s \in Nat /\ a * r \in Nat /\ a * t \in Nat
      /\ (n + a) * t = n * t + a * t /\ a * (s + t) = a * s + a * t
      /\ a * r = r * a /\ a * s = s * a
  OBVIOUS
<1>3. CASE m <= n /\ s <= r
  BY <1>1, <1>2, <1>3
<1>4. CASE m <= n + a /\ r = s + t
  <2>1. m * t <= (n + a) * t
    BY <1>1, <1>4
  <2>2. QED
    BY <1>2, <1>4, <2>1
<1>5. QED
  BY <1>3, <1>4

\* A step that adds no attempts, or a call's attempts with another token, leaves the books in order.
LEMMA BooksBalance ==
  ASSUME Types, Types', Books,
         ~Bucket!Unlimited =>
             \/ /\ made' + Cardinality(Unused') <= made + Cardinality(Unused)
                /\ spent <= spent'
             \/ /\ made' + Cardinality(Unused') <= made + Cardinality(Unused) + Allowed
                /\ spent' = spent + Unit
  PROVE  Books'
<1>1. Unused \in SUBSET (Procs \X (1 .. Allowed)) /\ Unused' \in SUBSET (Procs \X (1 .. Allowed))
  BY DEF Unused, Allowed, Loop!Attempts
<1>2. Cardinality(Unused) \in Nat /\ Cardinality(Unused') \in Nat
  BY <1>1, UnusedIsFinite
<1>3. /\ made \in Nat /\ spent \in Nat /\ made' \in Nat /\ spent' \in Nat
      /\ Allowed \in Nat /\ Unit \in Nat
  BY UsablePolicy, ProviderAssumption DEF Types, Allowed
<1>4. Bucket!Unlimited' = Bucket!Unlimited /\ Allowed' = Allowed
  BY DEF Bucket!Unlimited, Allowed, Loop!Attempts
<1>5. CASE Bucket!Unlimited
  BY <1>4, <1>5 DEF Books
<1>6. CASE ~Bucket!Unlimited
  <2> DEFINE n == made + Cardinality(Unused)
             m == made' + Cardinality(Unused')
  <2>1. n \in Nat /\ m \in Nat /\ n * Unit <= Allowed * spent
    BY <1>2, <1>3, <1>6 DEF Books
  <2>2. \/ m <= n /\ spent <= spent'
        \/ m <= n + Allowed /\ spent' = spent + Unit
    BY <1>6
  <2> HIDE DEF n, m
  <2>3. m * Unit <= Allowed * spent'
    BY <1>3, <2>1, <2>2, Bookkeeping
  <2>4. QED
    BY <2>3, <1>4 DEF Books, m
<1>7. QED
  BY <1>5, <1>6

\* A step that leaves at most the unused attempts there were adds none.
LEMMA FewerUnused ==
  ASSUME Unused' \subseteq Unused
  PROVE  /\ Cardinality(Unused') \in Nat /\ Cardinality(Unused) \in Nat
         /\ Cardinality(Unused') <= Cardinality(Unused)
<1>1. Unused \in SUBSET (Procs \X (1 .. Allowed)) /\ Unused' \in SUBSET Unused
  BY DEF Unused
<1>2. QED
  BY <1>1, UnusedIsFinite, FS_Subset, FS_CardinalityType

\* Every step keeps every call in order.
LEMMA OrderStep ==
  ASSUME Types, \A p \in Procs : InOrder(p), [Next]_vars, NEW q \in Procs
  PROVE  InOrder(q)'
<1>t. Types /\ Types' /\ InOrder(q) /\ Allowed \in Nat /\ Allowed >= 1
  BY TypesStep, UsablePolicy DEF Allowed
<1>a. Allowed' = Allowed
  BY DEF Allowed, Loop!Attempts
<1>f. tries[q] \in Nat /\ loop[q].attempt \in Nat
  BY <1>t DEF Types, Loop!LoopState
<1>1. CASE Tick
  BY <1>1, <1>t DEF Tick, callVars, InOrder, Allowed
<1>2. ASSUME NEW p \in Procs, Arrive(p) PROVE InOrder(q)'
  <2>1. CASE q = p
    BY <2>1, <1>2, <1>t, <1>a DEF Arrive, Types, InOrder, Loop!At, Loop!Running, Loop!Watching
  <2>2. CASE q # p
    BY <2>2, <1>2, <1>t, <1>a DEF Arrive, Bucket!Wait, Types, InOrder
  <2>3. QED
    BY <2>1, <2>2
<1>3. ASSUME NEW p \in Procs, Delegate(p) PROVE InOrder(q)'
  <2>1. CASE q = p
    <3>1. /\ waits'[q].at = "granted" /\ loop'[q].at = "top" /\ loop'[q].attempt = 1
          /\ tries'[q] = 0 /\ policy'[q].attempts = Allowed
      BY <2>1, <1>3, <1>t
      DEF Delegate, Admitted, Types, Loop!Enter, Loop!At, Loop!Usable, Allowed
    <3>2. QED
      BY <3>1, <1>t, <1>a DEF InOrder
  <2>2. CASE q # p
    BY <2>2, <1>3, <1>t, <1>a DEF Delegate, Loop!Enter, Types, InOrder
  <2>3. QED
    BY <2>1, <2>2
<1>4. ASSUME NEW p \in Procs, Queue(p) PROVE InOrder(q)'
  <2>1. /\ UNCHANGED <<loop, policy, tries>>
        /\ waits'[q] = waits[q] \/ (q = p /\ ~Bucket!Outside(q))
    BY <1>4, <1>t, QueueMoves DEF Types
  <2>2. QED
    BY <2>1, <1>t, <1>a DEF InOrder, Bucket!Outside
<1>5. ASSUME NEW p \in Procs, Fetch(p) PROVE InOrder(q)'
  <2>1. UNCHANGED <<waits, policy>> /\ loop[p].at \in Loop!Running
    BY <1>5, <1>t, FetchMoves
  <2>2. CASE q = p
    <3>1. waits[q].at = "granted" /\ policy[q].attempts = Allowed /\ loop[q].attempt <= Allowed
      BY <2>1, <2>2, <1>t DEF InOrder, Loop!Running, Loop!Watching
    <3>0. CASE Looks(p)
      BY <3>1, <3>0, <2>1, <2>2, <1>t, <1>a, <1>f DEF Looks, InOrder
    <3>2. CASE Calls(p)
      BY <3>1, <3>2, <2>1, <2>2, <1>t, <1>a, <1>f DEF Calls, InOrder
    <3>3. CASE Returns(p)
      BY <3>1, <3>3, <2>1, <2>2, <1>t, <1>a
      DEF Returns, InOrder, Loop!Running, Loop!Watching, Loop!Returned
    <3>4. CASE BacksOff(p)
      BY <3>1, <3>4, <2>1, <2>2, <1>t, <1>a, <1>f DEF BacksOff, InOrder
    <3>5. CASE WakesUp(p)
      BY <3>1, <3>5, <2>1, <2>2, <1>t, <1>a, <1>f DEF WakesUp, InOrder
    <3>6. QED
      BY <3>0, <3>2, <3>3, <3>4, <3>5, <1>5, <1>t, FetchMoves
  <2>3. CASE q # p
    <3>1. loop'[q] = loop[q] /\ tries'[q] = tries[q]
      BY <2>3, <1>5, <1>t, FetchMoves DEF Types
    <3>2. QED
      BY <3>1, <2>1, <1>t, <1>a DEF InOrder
  <2>4. QED
    BY <2>2, <2>3
<1>6. ASSUME NEW p \in Procs, Cancel(p) PROVE InOrder(q)'
  BY <1>6, <1>t, <1>a DEF Cancel, InOrder
<1>7. CASE UNCHANGED vars
  BY <1>7, <1>t, <1>a DEF vars, InOrder
<1>8. QED
  BY <1>1, <1>2, <1>3, <1>4, <1>5, <1>6, <1>7 DEF Next, ClockStopped

\* Every step leaves the books in order.
LEMMA BooksStep ==
  ASSUME Types, Books, \A p \in Procs : InOrder(p), [Next]_vars
  PROVE  Books'
<1>t. Types /\ Types' /\ Allowed \in Nat /\ Allowed >= 1 /\ Unit \in Nat
  BY TypesStep, UsablePolicy, ProviderAssumption DEF Allowed
<1>a. Allowed' = Allowed
  BY DEF Allowed, Loop!Attempts
<1>n. made \in Nat /\ spent \in Nat
  BY <1>t DEF Types
\* Steps that change neither what is made nor what is spent and leave no more attempts.
<1>s. ASSUME UNCHANGED <<made, spent>>, Unused' \subseteq Unused PROVE Books'
  <2>1. /\ Cardinality(Unused') \in Nat /\ Cardinality(Unused) \in Nat
        /\ Cardinality(Unused') <= Cardinality(Unused)
    BY <1>s, FewerUnused
  <2>2. QED
    BY <2>1, <1>s, <1>t, <1>n, BooksBalance
<1>1. CASE Tick
  BY <1>1, <1>s, <1>a DEF Tick, callVars, Unused
<1>2. ASSUME NEW p \in Procs, Arrive(p) PROVE Books'
  <2>1. waits'[p].at = "look" /\ \A q \in Procs \ {p} : waits'[q] = waits[q] /\ tries'[q] = tries[q]
    BY <1>2, <1>t DEF Arrive, Bucket!Wait, Bucket!Looking, Types
  <2>2. Unused' \subseteq Unused
    BY <2>1, <1>a DEF Unused
  <2>3. QED
    BY <2>2, <1>2, <1>s DEF Arrive, Bucket!Wait
<1>3. ASSUME NEW p \in Procs, Delegate(p) PROVE Books'
  <2>1. tries[p] = 0
    BY <1>3 DEF Delegate, Admitted, InOrder
  <2>2. tries' = tries /\ waits' = waits
    BY <2>1, <1>3, <1>t DEF Delegate, Loop!Enter, Types
  <2>3. QED
    BY <2>2, <1>3, <1>s, <1>a DEF Delegate, Unused
<1>4. ASSUME NEW p \in Procs, Queue(p) PROVE Books'
  <2>1. /\ \A q \in Procs \ {p} : waits'[q] = waits[q]
        /\ waits[p].at # "granted" /\ tries' = tries /\ made' = made
        /\ spent' \in {spent, spent + Unit}
        /\ ~Bucket!Unlimited /\ waits'[p].at = "granted" => spent' = spent + Unit
    BY <1>4, <1>t, QueueMoves DEF Types, Bucket!Outside
  <2>2. CASE waits'[p].at = "granted"
    <3> DEFINE S == {p} \X (1 .. Allowed)
    <3>1. Unused' \subseteq Unused \cup S
      BY <2>1, <1>a DEF Unused
    <3>2. /\ Unused \in SUBSET (Procs \X (1 .. Allowed)) /\ S \in SUBSET (Procs \X (1 .. Allowed))
          /\ Unused \cap S \in SUBSET (Procs \X (1 .. Allowed))
          /\ Unused' \in SUBSET (Procs \X (1 .. Allowed))
      BY <1>a DEF Unused
    <3>3. Cardinality(S) = Allowed
      BY AttemptsOfOneCall
    <3> HIDE DEF S
    <3>4. /\ IsFiniteSet(Unused) /\ IsFiniteSet(S)
          /\ Cardinality(Unused) \in Nat /\ Cardinality(Unused \cap S) \in Nat
          /\ Cardinality(Unused') \in Nat
      BY <3>2, UnusedIsFinite
    <3>5. /\ IsFiniteSet(Unused \cup S)
          /\ Cardinality(Unused \cup S)
                = Cardinality(Unused) + Cardinality(S) - Cardinality(Unused \cap S)
      BY <3>4, FS_Union
    <3>6. Cardinality(Unused') <= Cardinality(Unused \cup S)
      BY <3>1, <3>5, FS_Subset
    <3>7. Cardinality(Unused') <= Cardinality(Unused) + Allowed
      BY <3>3, <3>4, <3>5, <3>6, <1>t
    <3>8. QED
      BY <3>4, <3>7, <2>1, <2>2, <1>t, <1>n, BooksBalance
  <2>3. CASE waits'[p].at # "granted"
    <3>1. Unused' \subseteq Unused
      BY <2>1, <2>3, <1>a DEF Unused
    <3>2. /\ Cardinality(Unused') \in Nat /\ Cardinality(Unused) \in Nat
          /\ Cardinality(Unused') <= Cardinality(Unused)
      BY <3>1, FewerUnused
    <3>3. spent <= spent'
      BY <2>1, <1>t, <1>n
    <3>4. QED
      BY <2>1, <3>2, <3>3, <1>t, <1>n, BooksBalance
  <2>4. QED
    BY <2>2, <2>3
<1>5. ASSUME NEW p \in Procs, Fetch(p) PROVE Books'
  <2>1. /\ UNCHANGED <<waits, spent>> /\ \A q \in Procs \ {p} : tries'[q] = tries[q]
        /\ Looks(p) \/ Calls(p) \/ Returns(p) \/ BacksOff(p) \/ WakesUp(p)
        /\ tries[p] \in Nat /\ loop[p].at \in Loop!Running
    BY <1>5, <1>t, FetchMoves DEF Types
  <2>2. CASE Calls(p)
    <3> DEFINE a == <<p, tries[p] + 1>>
    <3>1. /\ tries'[p] = tries[p] + 1 /\ made' = made + 1
          /\ waits[p].at = "granted" /\ tries[p] + 1 <= Allowed
      BY <2>1, <2>2 DEF Calls, InOrder, Loop!Running, Loop!Watching
    <3>2. a \in Unused /\ Unused' \subseteq Unused \ {a}
      BY <2>1, <3>1, <1>a, <1>t DEF Unused
    <3> HIDE DEF a
    <3>3. Unused \in SUBSET (Procs \X (1 .. Allowed)) /\ Unused' \in SUBSET (Procs \X (1 .. Allowed))
      BY <1>a DEF Unused
    <3>4. /\ IsFiniteSet(Unused) /\ Cardinality(Unused) \in Nat /\ Cardinality(Unused') \in Nat
      BY <3>3, UnusedIsFinite
    <3>5. IsFiniteSet(Unused \ {a}) /\ Cardinality(Unused \ {a}) = Cardinality(Unused) - 1
      BY <3>2, <3>4, FS_RemoveElement
    <3>6. Cardinality(Unused') <= Cardinality(Unused) - 1
      BY <3>2, <3>5, FS_Subset
    <3>7. made' + Cardinality(Unused') <= made + Cardinality(Unused) /\ spent <= spent'
      BY <3>1, <3>4, <3>6, <2>1, <1>n
    <3>8. QED
      BY <3>7, <1>t, BooksBalance
  <2>3. CASE ~Calls(p)
    <3>1. tries' = tries /\ made' = made
      BY <2>1, <2>3 DEF Looks, Returns, BacksOff, WakesUp
    <3>2. QED
      BY <2>1, <3>1, <1>s, <1>a DEF Unused
  <2>4. QED
    BY <2>2, <2>3
<1>6. ASSUME NEW p \in Procs, Cancel(p) PROVE Books'
  BY <1>6, <1>s, <1>a DEF Cancel, Unused
<1>7. CASE UNCHANGED vars
  BY <1>7, <1>s, <1>a DEF vars, Unused
<1>8. QED
  BY <1>1, <1>2, <1>3, <1>4, <1>5, <1>6, <1>7 DEF Next, ClockStopped

\* With a limiter that has a rate, every fetch is paid for by a token, and no token pays for more
\* of them than the retry policy has attempts, however calls are cut short and made again.
THEOREM TokensPayForFetches == Spec => []FetchesArePaidFor
<1>1. Init => PaidInv
  <2> SUFFICES ASSUME Init PROVE PaidInv
    OBVIOUS
  <2>1. Types
    BY TypesInit
  <2>2. \A p \in Procs : InOrder(p)
    BY DEF Init, InOrder, Bucket!Idle, Loop!Init, Loop!At, Loop!Running, Loop!Watching
  <2>3. Unused = {} /\ made = 0 /\ spent = 0
    BY DEF Init, Unused, Bucket!Idle
  <2>4. Allowed \in Nat /\ Unit \in Nat /\ Cardinality({}) = 0
    BY UsablePolicy, ProviderAssumption, FS_EmptySet DEF Allowed
  <2>5. Books
    BY <2>3, <2>4 DEF Books
  <2>6. QED
    BY <2>1, <2>2, <2>5 DEF PaidInv
<1>2. PaidInv /\ [Next]_vars => PaidInv'
  BY TypesStep, OrderStep, BooksStep DEF PaidInv
<1>3. PaidInv => FetchesArePaidFor
  <2> SUFFICES ASSUME PaidInv, ~Bucket!Unlimited PROVE made * Unit <= Allowed * spent
    BY DEF FetchesArePaidFor, Allowed
  <2>1. Unused \in SUBSET (Procs \X (1 .. Allowed))
    BY DEF Unused
  <2>2. /\ Cardinality(Unused) \in Nat /\ made \in Nat /\ spent \in Nat
        /\ Allowed \in Nat /\ Unit \in Nat
    BY <2>1, UnusedIsFinite, UsablePolicy, ProviderAssumption DEF Allowed, PaidInv, Types
  <2>3. (made + Cardinality(Unused)) * Unit <= Allowed * spent
    BY DEF PaidInv, Books
  <2>4. made + Cardinality(Unused) \in Nat /\ made <= made + Cardinality(Unused)
    BY <2>2
  <2>5. QED
    BY <2>2, <2>3, <2>4, Bookkeeping
<1>4. QED
  BY <1>1, <1>2, <1>3, PTL DEF Spec
=============================================================================
