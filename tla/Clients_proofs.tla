---------------------------- MODULE Clients_proofs ----------------------------
(***************************************************************************)
(* The four airline clients (internal/repo/external_client): the retry     *)
(* loop around their fetches, for every set of calls, every policy however *)
(* odd and every latency; and what they make of their payloads, for every  *)
(* list of clients, every timetable of items that fly and every request.   *)
(***************************************************************************)
EXTENDS Adapters, RetriedFetch, FiniteSetTheorems, WellFoundedInduction, TLAPS

-----------------------------------------------------------------------------
(* The retry loop.                                                         *)

\* The loop's limits are not inductive: a call that wakes up starts one more attempt, and what it
\* has tried by then depends on where it stands.  Attempts are counted at the top of the loop,
\* tries when the operation is called, and only a call with attempts left goes to sleep.
CountsAgree(c) ==
    /\ loop[c].at = "new" => loop[c].attempt = 0 /\ tries[c] = 0
    /\ loop[c].at \in Running => loop[c].attempt >= 1
    /\ loop[c].at \in {"top", "call"} => tries[c] = loop[c].attempt - 1
    /\ loop[c].at \in {"fetch", "sleep", "ok", "gaveup"} => tries[c] = loop[c].attempt
    /\ loop[c].at = "sleep" => loop[c].attempt < policy[c].attempts
    /\ loop[c].at = "gaveup" => loop[c].attempt = policy[c].attempts
    /\ tries[c] <= loop[c].attempt

LoopInv == TypeOK /\ \A c \in Calls : CountsAgree(c)

\* What Do makes of a configured policy: at least one attempt, a positive delay, and a cap that
\* is no smaller.
LEMMA UsablePolicies ==
  ASSUME NEW cfg \in Policies
  PROVE  /\ Attempts(cfg) \in Nat /\ Attempts(cfg) >= 1
         /\ Base(cfg) \in Nat /\ Base(cfg) >= 1
         /\ Cap(cfg) \in Nat /\ Base(cfg) <= Cap(cfg)
  BY RetryAssumption DEF Attempts, Base, Cap

\* The policy of a call, whether it has been made or not.
LEMMA PolicyFacts ==
  ASSUME TypeOK, NEW c \in Calls
  PROVE  /\ policy[c].attempts \in Nat /\ policy[c].attempts >= 1
         /\ policy[c].base \in Nat
         /\ policy[c].max \in Nat
<1>1. CASE policy[c] = NoPolicy
  BY <1>1, RetryAssumption DEF NoPolicy
<1>2. CASE \E cfg \in Policies : policy[c] = Usable(cfg)
  BY <1>2, UsablePolicies DEF Usable
<1>3. QED
  BY <1>1, <1>2 DEF TypeOK

\* The local variables of a call.
LEMMA LoopFacts ==
  ASSUME TypeOK, NEW c \in Calls
  PROVE  /\ loop[c].attempt \in Nat /\ loop[c].attempt <= policy[c].attempts
         /\ loop[c].delay \in Nat /\ loop[c].delay <= policy[c].max
         /\ loop[c].timer \in Nat /\ now \in Nat /\ due[c] \in Nat /\ tries[c] \in Nat
         /\ cancelled[c] \in BOOLEAN
         /\ loop[c].at \in {"new"} \cup Running \cup Returned
  BY DEF TypeOK, LoopState

\* A delay that grows stays a number, within its cap.
LEMMA GrownFacts ==
  ASSUME NEW d \in Nat, NEW cap \in Nat
  PROVE  Grown(d, cap) \in Nat /\ Grown(d, cap) <= cap
  BY DEF Grown, Least

\* Only call c moves.
OnlyMoves(c) ==
    /\ loop' = [loop EXCEPT ![c] = loop'[c]]
    /\ policy' = [policy EXCEPT ![c] = policy'[c]]
    /\ tries' = [tries EXCEPT ![c] = tries'[c]]
    /\ due' = [due EXCEPT ![c] = due'[c]]
    /\ UNCHANGED <<now, cancelled>>

\* A step of one call that keeps its own limits and counts keeps everyone's.
LEMMA OneCallMoves ==
  ASSUME LoopInv, NEW c \in Calls, OnlyMoves(c),
         loop'[c] \in LoopState, tries'[c] \in Nat, due'[c] \in Nat,
         policy'[c] \in {NoPolicy} \cup {Usable(cfg) : cfg \in Policies},
         loop'[c].attempt <= policy'[c].attempts, loop'[c].delay <= policy'[c].max,
         CountsAgree(c)'
  PROVE  LoopInv'
<1>1. \A b \in Calls \ {c} : loop'[b] = loop[b] /\ policy'[b] = policy[b] /\ tries'[b] = tries[b]
  BY DEF LoopInv, TypeOK, OnlyMoves
<1>3. TypeOK'
  BY <1>1 DEF LoopInv, TypeOK, OnlyMoves
<1>4. ASSUME NEW b \in Calls, b # c PROVE CountsAgree(b)'
  BY <1>1, <1>4 DEF LoopInv, CountsAgree
<1>5. QED
  BY <1>3, <1>4 DEF LoopInv

\* What a step of Do does to its call: it changes nothing but the call's state and its tries, and
\* keeps limits and counts.
LEMMA DoStepKeeps ==
  ASSUME LoopInv, NEW c \in Calls, DoStep(c), UNCHANGED now
  PROVE  LoopInv'
<1>i. TypeOK /\ CountsAgree(c)
  BY DEF LoopInv
<1>p. /\ policy[c] \in {NoPolicy} \cup {Usable(cfg) : cfg \in Policies}
      /\ loop[c] \in LoopState
  BY <1>i DEF TypeOK
<1>f. /\ loop[c].attempt \in Nat /\ loop[c].attempt <= policy[c].attempts
      /\ loop[c].delay \in Nat /\ loop[c].delay <= policy[c].max /\ loop[c].timer \in Nat
      /\ now \in Nat /\ due[c] \in Nat /\ tries[c] \in Nat
      /\ policy[c].attempts \in Nat /\ policy[c].max \in Nat
  BY <1>i, LoopFacts, PolicyFacts
<1>k. policy' = policy /\ due' = due /\ UNCHANGED <<now, cancelled>>
  BY DEF DoStep, Look, Attempt, Stop, Succeed, Fail, WakeUp
<1>m. SUFFICES /\ loop' = [loop EXCEPT ![c] = loop'[c]] /\ tries' = [tries EXCEPT ![c] = tries'[c]]
               /\ loop'[c] \in LoopState /\ tries'[c] \in Nat
               /\ loop'[c].attempt <= policy[c].attempts /\ loop'[c].delay <= policy[c].max
               /\ CountsAgree(c)'
  BY <1>i, <1>p, <1>f, <1>k, OneCallMoves DEF OnlyMoves, TypeOK
<1> USE <1>i, <1>p, <1>f, <1>k DEF Running, Watching, Returned
<1>0. CASE Look(c)
  <2>1. /\ loop' = [loop EXCEPT ![c] = loop'[c]] /\ loop'[c] \in LoopState
        /\ loop'[c].attempt = loop[c].attempt /\ loop'[c].delay = loop[c].delay
        /\ loop'[c].at = "call" /\ tries' = tries /\ loop[c].at = "top"
    BY <1>0 DEF Look, LoopState, TypeOK
  <2>2. QED
    BY <2>1 DEF CountsAgree, TypeOK
<1>1. CASE Attempt(c)
  <2>1. PICK d \in Latencies : loop' = [loop EXCEPT ![c].at = "fetch", ![c].timer = now + d]
    BY <1>1 DEF Attempt
  <2>a. now + d \in Nat
    BY RetryAssumption
  <2>b. loop' = [loop EXCEPT ![c] = [loop[c] EXCEPT !.at = "fetch", !.timer = now + d]]
    BY <2>1 DEF TypeOK
  <2>2. /\ loop' = [loop EXCEPT ![c] = loop'[c]] /\ loop'[c] \in LoopState
        /\ loop'[c].attempt = loop[c].attempt /\ loop'[c].delay = loop[c].delay
        /\ loop'[c].at = "fetch"
    BY <2>a, <2>b DEF LoopState, TypeOK
  <2>3. /\ tries' = [tries EXCEPT ![c] = tries'[c]] /\ tries'[c] = tries[c] + 1
        /\ loop[c].at = "call"
    BY <1>1 DEF Attempt, TypeOK
  <2>4. CountsAgree(c)'
    BY <2>2, <2>3 DEF CountsAgree
  <2>5. QED
    BY <2>2, <2>3, <2>4
<1>2. CASE Stop(c)
  <2>1. /\ loop' = [loop EXCEPT ![c] = loop'[c]] /\ loop'[c] \in LoopState
        /\ loop'[c].attempt = loop[c].attempt /\ loop'[c].delay = loop[c].delay
        /\ loop'[c].at = "stopped" /\ tries' = tries
    BY <1>2 DEF Stop, LoopState, TypeOK
  <2>2. QED
    BY <2>1 DEF CountsAgree, TypeOK
<1>3. CASE Succeed(c)
  <2>1. /\ loop' = [loop EXCEPT ![c] = loop'[c]] /\ loop'[c] \in LoopState
        /\ loop'[c].attempt = loop[c].attempt /\ loop'[c].delay = loop[c].delay
        /\ loop'[c].at = "ok" /\ tries' = tries /\ loop[c].at = "fetch"
    BY <1>3 DEF Succeed, LatencyOver, LoopState, TypeOK
  <2>2. QED
    BY <2>1 DEF CountsAgree, TypeOK
<1>4. CASE Fail(c)
  <2>a. CASE loop[c].attempt = policy[c].attempts
    BY <1>4, <2>a DEF Fail, LatencyOver, LoopState, TypeOK, CountsAgree
  <2>b. CASE loop[c].attempt # policy[c].attempts
    <3>1. /\ loop' = [loop EXCEPT ![c] = loop'[c]] /\ loop'[c] \in LoopState
          /\ loop'[c].attempt = loop[c].attempt /\ loop'[c].delay = loop[c].delay
          /\ loop'[c].at = "sleep" /\ tries' = tries /\ loop[c].at = "fetch"
      <4>1. /\ loop' = [loop EXCEPT ![c] = [loop[c] EXCEPT !.at = "sleep",
                                                           !.timer = now + loop[c].delay]]
            /\ tries' = tries /\ loop[c].at = "fetch"
        BY <1>4, <2>b DEF Fail, LatencyOver, TypeOK
      <4>2. now + loop[c].delay \in Nat
        OBVIOUS
      <4>3. QED
        BY <4>1, <4>2 DEF LoopState, TypeOK
    <3>2. CountsAgree(c)'
      BY <2>b, <3>1 DEF CountsAgree
    <3>3. QED
      BY <3>1, <3>2 DEF TypeOK
  <2>1. QED
    BY <2>a, <2>b
<1>5. CASE WakeUp(c)
  <2>1. Grown(loop[c].delay, policy[c].max) \in Nat
        /\ Grown(loop[c].delay, policy[c].max) <= policy[c].max
    BY GrownFacts
  <2>2. /\ loop' = [loop EXCEPT ![c] = loop'[c]] /\ loop'[c] \in LoopState
        /\ loop'[c].attempt = loop[c].attempt + 1 /\ loop'[c].delay <= policy[c].max
        /\ loop'[c].at = "top" /\ tries' = tries /\ loop[c].at = "sleep"
    BY <1>5, <2>1 DEF WakeUp, At, LoopState, TypeOK
  <2>3. QED
    BY <2>2 DEF CountsAgree, TypeOK
<1>6. QED
  BY <1>0, <1>1, <1>2, <1>3, <1>4, <1>5 DEF DoStep

\* Every step keeps limits and counts.
LEMMA LoopStep == LoopInv /\ [Next]_vars => LoopInv'
<1> SUFFICES ASSUME LoopInv, [Next]_vars PROVE LoopInv'
  OBVIOUS
<1>1. CASE Tick /\ UNCHANGED retryVars
  BY <1>1 DEF Tick, retryVars, LoopInv, TypeOK, CountsAgree
<1>2. ASSUME NEW c \in Calls, Call(c) PROVE LoopInv'
  <2>1. PICK cfg \in Policies : Enter(c, cfg) /\ due' = [due EXCEPT ![c] = now + Budget[cfg]]
    BY <1>2 DEF Call
  <2>2. /\ loop'[c] = At("top", 1, Base(cfg), 0) /\ policy'[c] = Usable(cfg) /\ tries'[c] = 0
        /\ due'[c] = now + Budget[cfg] /\ OnlyMoves(c)
    BY <1>2, <2>1 DEF Call, Enter, OnlyMoves, LoopInv, TypeOK
  <2>3. /\ loop'[c] \in LoopState /\ tries'[c] \in Nat /\ due'[c] \in Nat
        /\ loop'[c].attempt <= policy'[c].attempts /\ loop'[c].delay <= policy'[c].max
        /\ CountsAgree(c)'
    BY <2>2, UsablePolicies, RetryAssumption
    DEF At, LoopState, Usable, Running, Watching, CountsAgree, LoopInv, TypeOK
  <2>4. QED
    BY <2>2, <2>3, OneCallMoves
<1>3. ASSUME NEW c \in Calls, Cancel(c), UNCHANGED now PROVE LoopInv'
  BY <1>3 DEF Cancel, LoopInv, TypeOK, CountsAgree
<1>4. ASSUME NEW c \in Calls, DoStep(c), UNCHANGED now PROVE LoopInv'
  BY <1>4, DoStepKeeps
<1>5. CASE UNCHANGED vars
  BY <1>5 DEF vars, LoopInv, TypeOK, CountsAgree
<1>6. QED
  BY <1>1, <1>2, <1>3, <1>4, <1>5 DEF Next, Finished

\* No call has been made at first.
LEMMA LoopInit == Init => LoopInv
<1> SUFFICES ASSUME Init PROVE LoopInv
  OBVIOUS
<1>1. TypeOK
  BY RetryAssumption DEF Init, TypeOK, At, LoopState, NoPolicy
<1>2. QED
  BY <1>1 DEF Init, LoopInv, CountsAgree, At, Running, Watching

\* In every reachable state every variable has its type, and no call's attempt or delay is beyond
\* its policy.
THEOREM TypeCorrect == Spec => []TypeOK
<1>1. LoopInv => TypeOK
  BY DEF LoopInv
<1>2. QED
  BY <1>1, LoopInit, LoopStep, PTL DEF Spec

\* Whatever it is configured with, Do gives up after exactly as many tries as its usable policy
\* allows, at least one, and never makes more.
THEOREM AttemptsAreCounted == Spec => []GivesUpAfterAllAttempts
<1>1. LoopInv => GivesUpAfterAllAttempts
  <2> SUFFICES ASSUME LoopInv, NEW c \in Calls
               PROVE  /\ tries[c] <= policy[c].attempts
                      /\ loop[c].at = "gaveup" => tries[c] = policy[c].attempts /\ tries[c] >= 1
    BY DEF GivesUpAfterAllAttempts
  <2>1. TypeOK /\ CountsAgree(c)
    BY DEF LoopInv
  <2>2. QED
    BY <2>1, LoopFacts, PolicyFacts DEF CountsAgree
<1>2. QED
  BY <1>1, LoopInit, LoopStep, PTL DEF Spec

\* What a call whose context is over can still do, if it has made n attempts: none, once it is at
\* a place where it looks at the context; and one, the one it is about to make, if it is past its
\* look.  Neither set of states is left again.
NoneLeft(c, n) == Over(c) /\ loop[c].at \in Watching \cup Returned /\ tries[c] = n
OneLeft(c, n)  == Over(c) /\ loop[c].at = "call" /\ tries[c] = n

\* A context that is over stays over, and no step starts a call anew.
LEMMA OverStaysOver ==
  ASSUME LoopInv, [Next]_vars, NEW c \in Calls, Over(c), loop[c].at # "new"
  PROVE  /\ Over(c)'
         /\ \/ loop'[c] = loop[c] /\ tries'[c] = tries[c]
            \/ DoStep(c)
<1>t. TypeOK /\ now \in Nat /\ due[c] \in Nat
  BY LoopFacts DEF LoopInv
<1>1. CASE Tick /\ UNCHANGED retryVars
  BY <1>1, <1>t DEF Tick, retryVars, Over
<1>2. ASSUME NEW b \in Calls, Call(b)
      PROVE  /\ Over(c)' /\ loop'[c] = loop[c] /\ tries'[c] = tries[c]
  <2>1. b # c
    BY <1>2 DEF Call
  <2>2. QED
    BY <1>2, <1>t, <2>1 DEF Call, Enter, Over, TypeOK
<1>3. ASSUME NEW b \in Calls, Cancel(b), UNCHANGED now
      PROVE  /\ Over(c)' /\ loop'[c] = loop[c] /\ tries'[c] = tries[c]
  BY <1>3, <1>t DEF Cancel, Over, TypeOK
<1>4. ASSUME NEW b \in Calls, DoStep(b), UNCHANGED now
      PROVE  /\ Over(c)'
             /\ (loop'[c] = loop[c] /\ tries'[c] = tries[c]) \/ DoStep(c)
  <2>1. Over(c)'
    BY <1>4 DEF DoStep, Look, Attempt, Stop, Succeed, Fail, WakeUp, Over
  <2>2. CASE b # c
    BY <1>4, <1>t, <2>1, <2>2
    DEF DoStep, Look, Attempt, Stop, Succeed, Fail, WakeUp, TypeOK
  <2>3. QED
    BY <1>4, <2>1, <2>2
<1>5. CASE UNCHANGED vars
  BY <1>5 DEF vars, Over
<1>6. QED
  BY <1>1, <1>2, <1>3, <1>4, <1>5 DEF Next, Finished

\* With its context over, a call that looks at it from where it stands never calls again: the
\* timer of its backoff may fire first, and the operation may fail first, but both lead to a look.
LEMMA NoneLeftStays ==
  ASSUME NEW c \in Calls, NEW n \in Nat
  PROVE  LoopInv /\ NoneLeft(c, n) /\ [Next]_vars => NoneLeft(c, n)'
<1> SUFFICES ASSUME LoopInv, NoneLeft(c, n), [Next]_vars PROVE NoneLeft(c, n)'
  OBVIOUS
<1>1. /\ Over(c) /\ loop[c].at \in Watching \cup Returned /\ tries[c] = n /\ loop[c].at # "new"
      /\ TypeOK
  BY DEF NoneLeft, LoopInv, Watching, Returned
<1>2. Over(c)' /\ ((loop'[c] = loop[c] /\ tries'[c] = tries[c]) \/ DoStep(c))
  BY <1>1, OverStaysOver
<1>3. CASE loop'[c] = loop[c] /\ tries'[c] = tries[c]
  BY <1>1, <1>2, <1>3 DEF NoneLeft
<1>4. CASE DoStep(c)
  <2>1. Stop(c) \/ Succeed(c) \/ Fail(c) \/ WakeUp(c)
    BY <1>1, <1>4 DEF DoStep, Look, Attempt, Watching, Returned
  <2>2. tries' = tries
    BY <2>1 DEF Stop, Succeed, Fail, WakeUp
  <2>3. loop'[c].at \in {"top", "sleep"} \cup Returned
    BY <1>1, <2>1 DEF Stop, Succeed, Fail, WakeUp, At, TypeOK, LoopState, Returned
  <2>4. QED
    BY <1>1, <1>2, <2>2, <2>3 DEF NoneLeft, Watching
<1>5. QED
  BY <1>2, <1>3, <1>4

\* Past its look, a call makes the attempt it is about to make, and has none left then.
LEMMA OneLeftStays ==
  ASSUME NEW c \in Calls, NEW n \in Nat
  PROVE  LoopInv /\ OneLeft(c, n) /\ [Next]_vars => OneLeft(c, n)' \/ NoneLeft(c, n + 1)'
<1> SUFFICES ASSUME LoopInv, OneLeft(c, n), [Next]_vars
             PROVE  OneLeft(c, n)' \/ NoneLeft(c, n + 1)'
  OBVIOUS
<1>1. Over(c) /\ loop[c].at = "call" /\ tries[c] = n /\ loop[c].at # "new" /\ TypeOK
  BY DEF OneLeft, LoopInv
<1>2. Over(c)' /\ ((loop'[c] = loop[c] /\ tries'[c] = tries[c]) \/ DoStep(c))
  BY <1>1, OverStaysOver
<1>3. CASE loop'[c] = loop[c] /\ tries'[c] = tries[c]
  BY <1>1, <1>2, <1>3 DEF OneLeft
<1>4. CASE DoStep(c)
  <2>1. Attempt(c)
    BY <1>1, <1>4
    DEF DoStep, Look, Stop, Watching, Succeed, Fail, LatencyOver, WakeUp
  <2>2. loop'[c].at = "fetch" /\ tries'[c] = n + 1
    BY <1>1, <2>1 DEF Attempt, TypeOK
  <2>3. QED
    BY <1>2, <2>2 DEF NoneLeft, Watching
<1>5. QED
  BY <1>2, <1>3, <1>4

\* Once its context is over, a call makes no further attempt, whichever of a timer and the context
\* comes first: at most the one it was about to make when the context ended.
THEOREM DeadCallsAreNotRetried == Spec => NoRetryOnceOver
<1>1. ASSUME NEW c \in Calls, NEW n \in Nat
      PROVE  Spec => /\ [](loop[c].at \in Watching /\ Over(c) /\ tries[c] = n => [](tries[c] = n))
                     /\ [](loop[c].at = "call" /\ Over(c) /\ tries[c] = n
                              => [](tries[c] <= n + 1))
  <2>1. LoopInv /\ NoneLeft(c, n) /\ [Next]_vars => NoneLeft(c, n)'
    BY <1>1, NoneLeftStays
  <2>2. LoopInv /\ NoneLeft(c, n + 1) /\ [Next]_vars => NoneLeft(c, n + 1)'
    BY <1>1, NoneLeftStays
  <2>3. LoopInv /\ OneLeft(c, n) /\ [Next]_vars => OneLeft(c, n)' \/ NoneLeft(c, n + 1)'
    BY <1>1, OneLeftStays
  <2>4. loop[c].at \in Watching /\ Over(c) /\ tries[c] = n => NoneLeft(c, n)
    BY DEF NoneLeft
  <2>5. loop[c].at = "call" /\ Over(c) /\ tries[c] = n => OneLeft(c, n)
    BY DEF OneLeft
  <2>6. NoneLeft(c, n) => tries[c] = n
    BY DEF NoneLeft
  <2>7. OneLeft(c, n) \/ NoneLeft(c, n + 1) => tries[c] <= n + 1
    BY <1>1 DEF OneLeft, NoneLeft
  <2>8. QED
    BY <2>1, <2>2, <2>3, <2>4, <2>5, <2>6, <2>7, LoopInit, LoopStep, PTL DEF Spec
<1>2. \A cfg \in Policies : \A n \in 0 .. Attempts(cfg) : n \in Nat
  BY UsablePolicies
<1>3. QED
  BY <1>1, <1>2 DEF NoRetryOnceOver

-----------------------------------------------------------------------------
(* Whether a policy fits its budget.                                       *)

\* The number of attempts the default policy makes.
Tries == Usable(Default).attempts

\* How the slowest call under the default policy goes: delay[n] is its backoff after attempt n,
\* and left[n] is at least what it takes from the start of attempt n to its end.
WorstCase(slowest, delay, left) ==
    /\ slowest \in Nat /\ \A d \in Latencies : d <= slowest
    /\ delay \in [1 .. Tries -> Nat] /\ left \in [1 .. Tries -> Nat]
    /\ delay[1] = Usable(Default).base
    /\ \A n \in 1 .. Tries - 1 :
          /\ delay[n + 1] = Grown(delay[n], Usable(Default).max)
          /\ left[n] >= slowest + delay[n] + left[n + 1]
    /\ left[Tries] >= slowest

\* The deadlines of calls under the default policy leave room for the slowest one.
BudgetSuffices(left) ==
    \A cfg \in Policies : Usable(cfg) = Usable(Default) => left[1] < Budget[cfg]

\* PolicyFitsBudget is not inductive: a call that still runs has to have what is left of its
\* worst case before it.  A timer is never overslept, since the clock waits for it.
InTime(slowest, delay, left, c) ==
    LET n == loop[c].attempt
    IN  /\ loop[c].at \in {"fetch", "sleep"} => now <= loop[c].timer
        /\ loop[c].at \in Running /\ policy[c] = Usable(Default) =>
              /\ loop[c].delay = delay[n]
              /\ \/ cancelled[c]
                 \/ loop[c].at \in {"top", "call"} /\ now + left[n] < due[c]
                 \/ loop[c].at = "fetch" /\ loop[c].timer + left[n] - slowest < due[c]
                 \/ loop[c].at = "sleep" /\ loop[c].timer + left[n + 1] < due[c]
        /\ loop[c].at = "stopped" /\ policy[c] = Usable(Default) => cancelled[c]

TimeInv(slowest, delay, left) ==
    LoopInv /\ \A c \in Calls : InTime(slowest, delay, left, c)

\* A call that is left alone stays in time, as long as the clock stands still.
LEMMA StaysInTime ==
  ASSUME NEW slowest, NEW delay, NEW left, NEW b \in Calls, InTime(slowest, delay, left, b),
         loop'[b] = loop[b], policy'[b] = policy[b], due'[b] = due[b],
         cancelled'[b] = cancelled[b] \/ cancelled'[b], now' = now
  PROVE  InTime(slowest, delay, left, b)'
  BY DEF InTime

\* A step of Do keeps its own call in time.
LEMMA DoStepInTime ==
  ASSUME NEW slowest, NEW delay, NEW left, WorstCase(slowest, delay, left),
         LoopInv, NEW c \in Calls, InTime(slowest, delay, left, c), DoStep(c), now' = now
  PROVE  InTime(slowest, delay, left, c)'
<1> DEFINE n == loop[c].attempt
<1>i. TypeOK /\ CountsAgree(c)
  BY DEF LoopInv
<1>f. /\ n \in Nat /\ n <= policy[c].attempts /\ loop[c].timer \in Nat /\ loop[c].delay \in Nat
      /\ now \in Nat /\ due[c] \in Nat /\ policy[c].attempts \in Nat /\ cancelled[c] \in BOOLEAN
  BY <1>i, LoopFacts, PolicyFacts
<1>k. policy' = policy /\ due' = due /\ cancelled' = cancelled
  BY DEF DoStep, Look, Attempt, Stop, Succeed, Fail, WakeUp
<1>w. slowest \in Nat /\ Tries \in Nat /\ Tries >= 1
      /\ \A m \in 1 .. Tries : left[m] \in Nat /\ delay[m] \in Nat /\ left[m] >= slowest
  <2>1. Tries \in Nat /\ Tries >= 1
    BY UsablePolicies, RetryAssumption DEF Tries, Usable
  <2>2. slowest \in Nat /\ \A m \in 1 .. Tries : left[m] \in Nat /\ delay[m] \in Nat
    BY <2>1 DEF WorstCase
  <2>3. ASSUME NEW m \in 1 .. Tries PROVE left[m] >= slowest
    <3>1. CASE m = Tries
      BY <3>1 DEF WorstCase
    <3>2. CASE m # Tries
      <4>1. m \in 1 .. Tries - 1 /\ m + 1 \in 1 .. Tries
        BY <2>1, <3>2
      <4>2. left[m] >= slowest + delay[m] + left[m + 1]
        BY <4>1 DEF WorstCase
      <4>3. QED
        BY <2>2, <4>1, <4>2
    <3>3. QED
      BY <3>1, <3>2
  <2>4. QED
    BY <2>1, <2>2, <2>3
<1>d. policy[c] = Usable(Default) => policy[c].attempts = Tries
                                      /\ policy[c].max = Usable(Default).max
  BY DEF Tries
<1> USE <1>i, <1>f, <1>k, <1>w
<1>0. CASE Look(c)
  <2>1. /\ loop'[c].at = "call" /\ loop'[c].timer = loop[c].timer /\ loop'[c].attempt = n
        /\ loop'[c].delay = loop[c].delay /\ loop[c].at = "top"
    BY <1>0 DEF Look, TypeOK, LoopState
  <2>2. QED
    BY <2>1 DEF InTime, Running, Watching
<1>1. CASE Attempt(c)
  <2>1. PICK d \in Latencies : loop' = [loop EXCEPT ![c].at = "fetch", ![c].timer = now + d]
    BY <1>1 DEF Attempt
  <2>2. d \in Nat /\ d <= slowest
    BY RetryAssumption DEF WorstCase
  <2>3. /\ loop'[c].at = "fetch" /\ loop'[c].timer = now + d /\ loop'[c].attempt = n
        /\ loop'[c].delay = loop[c].delay /\ loop[c].at = "call" /\ n >= 1
    BY <2>1, <1>1 DEF Attempt, TypeOK, LoopState, CountsAgree, Running, Watching
  <2>4. QED
    BY <2>2, <2>3, <1>d DEF InTime, Running, Watching
<1>2. CASE Stop(c)
  <2>1. loop'[c].at = "stopped" /\ loop[c].at \in Watching /\ Over(c) /\ n >= 1
    BY <1>2 DEF Stop, TypeOK, LoopState, CountsAgree, Running, Watching
  <2>2. policy[c] = Usable(Default) => cancelled[c]
    <3> SUFFICES ASSUME policy[c] = Usable(Default), ~cancelled[c] PROVE FALSE
      OBVIOUS
    <3>1. n \in 1 .. Tries /\ now >= due[c]
      BY <2>1, <1>d DEF Over
    <3>2. loop[c].at = "sleep" => n + 1 \in 1 .. Tries
      BY <3>1, <1>d DEF CountsAgree
    <3>3. QED
      BY <2>1, <3>1, <3>2 DEF InTime, Running, Watching
  <2>3. QED
    BY <2>1, <2>2 DEF InTime, Running, Watching
<1>3. CASE Succeed(c)
  <2>1. loop'[c].at = "ok"
    BY <1>3 DEF Succeed, TypeOK, LoopState
  <2>2. QED
    BY <2>1 DEF InTime, Running, Watching
<1>4. CASE Fail(c)
  <2>1. loop[c].at = "fetch" /\ loop[c].timer = now /\ n >= 1
    BY <1>4 DEF Fail, LatencyOver, InTime, CountsAgree, Running, Watching
  <2>2. CASE n = policy[c].attempts
    <3>1. loop'[c].at = "gaveup"
      BY <1>4, <2>2 DEF Fail, TypeOK, LoopState
    <3>2. QED
      BY <3>1 DEF InTime, Running, Watching
  <2>3. CASE n # policy[c].attempts
    <3>1. /\ loop'[c].at = "sleep" /\ loop'[c].timer = now + loop[c].delay /\ loop'[c].attempt = n
          /\ loop'[c].delay = loop[c].delay
      BY <1>4, <2>3 DEF Fail, TypeOK, LoopState
    <3>2. ASSUME policy[c] = Usable(Default)
          PROVE  /\ delay[n] \in Nat /\ left[n] \in Nat /\ left[n + 1] \in Nat
                 /\ left[n] >= slowest + delay[n] + left[n + 1]
      <4>1. n \in 1 .. Tries - 1 /\ n + 1 \in 1 .. Tries
        BY <2>1, <2>3, <3>2, <1>d
      <4>2. left[n] >= slowest + delay[n] + left[n + 1]
        BY <4>1 DEF WorstCase
      <4>3. QED
        BY <4>1, <4>2
    <3>3. QED
      BY <2>1, <3>1, <3>2 DEF InTime, Running, Watching
  <2>4. QED
    BY <2>2, <2>3
<1>5. CASE WakeUp(c)
  <2>1. /\ loop'[c].at = "top" /\ loop'[c].attempt = n + 1
        /\ loop'[c].delay = Grown(loop[c].delay, policy[c].max)
        /\ loop[c].at = "sleep" /\ loop[c].timer = now /\ n >= 1 /\ n < policy[c].attempts
    <3>1. loop[c].at = "sleep" /\ loop[c].timer <= now
      BY <1>5 DEF WakeUp
    <3>2. loop[c].timer = now
      BY <3>1 DEF InTime
    <3>3. n >= 1 /\ n < policy[c].attempts
      BY <3>1 DEF CountsAgree, Running, Watching
    <3>4. loop'[c] = At("top", n + 1, Grown(loop[c].delay, policy[c].max), 0)
      BY <1>5 DEF WakeUp, TypeOK
    <3>5. QED
      BY <3>1, <3>2, <3>3, <3>4 DEF At
  <2>2. ASSUME policy[c] = Usable(Default)
        PROVE  loop'[c].delay = delay[n + 1]
    <3>1. n \in 1 .. Tries - 1
      BY <2>1, <2>2, <1>d
    <3>2. delay[n + 1] = Grown(delay[n], Usable(Default).max)
      BY <3>1 DEF WorstCase
    <3>3. loop[c].delay = delay[n]
      BY <2>1, <2>2 DEF InTime, Running, Watching
    <3>4. QED
      BY <2>1, <2>2, <3>2, <3>3, <1>d
  <2>3. QED
    BY <2>1, <2>2 DEF InTime, Running, Watching
<1>6. QED
  BY <1>0, <1>1, <1>2, <1>3, <1>4, <1>5 DEF DoStep

\* Every step keeps every call in time.
LEMMA TimeStep ==
  ASSUME NEW slowest, NEW delay, NEW left,
         WorstCase(slowest, delay, left), BudgetSuffices(left)
  PROVE  TimeInv(slowest, delay, left) /\ [Next]_vars => TimeInv(slowest, delay, left)'
<1> SUFFICES ASSUME TimeInv(slowest, delay, left), [Next]_vars
             PROVE  TimeInv(slowest, delay, left)'
  OBVIOUS
<1>1. LoopInv /\ LoopInv' /\ TypeOK /\ \A b \in Calls : InTime(slowest, delay, left, b)
  BY LoopStep DEF TimeInv, LoopInv
<1>2. SUFFICES ASSUME NEW b \in Calls PROVE InTime(slowest, delay, left, b)'
  BY <1>1 DEF TimeInv
<1>3. InTime(slowest, delay, left, b)
  BY <1>1
<1>4. CASE Tick /\ UNCHANGED retryVars
  <2>1. loop' = loop /\ policy' = policy /\ due' = due /\ cancelled' = cancelled /\ now' = now + 1
        /\ ~Ready(b)
    BY <1>4 DEF Tick, retryVars, Prompt
  <2>2. loop[b].timer \in Nat /\ now \in Nat
    BY <1>1, LoopFacts
  <2>3. loop[b].at \notin {"top", "call"} /\ (loop[b].at \in {"fetch", "sleep"} => now + 1 <= loop[b].timer)
    BY <2>1, <2>2 DEF Ready
  <2>4. QED
    BY <2>1, <2>3, <1>3 DEF InTime, Running, Watching
<1>5. ASSUME NEW c \in Calls, Call(c) PROVE InTime(slowest, delay, left, b)'
  <2>1. CASE b = c
    <3>1. PICK cfg \in Policies : Enter(c, cfg) /\ due' = [due EXCEPT ![c] = now + Budget[cfg]]
      BY <1>5 DEF Call
    <3>2. /\ loop'[c].at = "top" /\ loop'[c].attempt = 1 /\ loop'[c].delay = Usable(cfg).base
          /\ policy'[c] = Usable(cfg) /\ due'[c] = now + Budget[cfg] /\ now' = now
      BY <3>1, <1>1, <1>5 DEF Call, Enter, At, Usable, TypeOK
    <3>3. /\ now \in Nat /\ Budget[cfg] \in Nat
          /\ Usable(cfg) = Usable(Default) => left[1] < Budget[cfg]
          /\ left[1] \in Nat /\ delay[1] = Usable(Default).base
      <4>1. Tries \in Nat /\ Tries >= 1
        BY UsablePolicies, RetryAssumption DEF Tries, Usable
      <4>2. QED
        BY <4>1, <1>1, RetryAssumption DEF BudgetSuffices, WorstCase, TypeOK
    <3>4. QED
      BY <2>1, <3>2, <3>3 DEF InTime, Running, Watching
  <2>2. CASE b # c
    BY <2>2, <1>1, <1>3, <1>5, StaysInTime DEF Call, Enter, TypeOK
  <2>3. QED
    BY <2>1, <2>2
<1>6. ASSUME NEW c \in Calls, Cancel(c), now' = now PROVE InTime(slowest, delay, left, b)'
  <2>1. loop' = loop /\ policy' = policy /\ due' = due /\ (cancelled[b] => cancelled'[b])
    BY <1>6, <1>1 DEF Cancel, TypeOK
  <2>2. QED
    BY <2>1, <1>3, <1>6 DEF InTime
<1>7. ASSUME NEW c \in Calls, DoStep(c), now' = now PROVE InTime(slowest, delay, left, b)'
  <2>1. CASE b = c
    BY <2>1, <1>1, <1>7, DoStepInTime
  <2>2. CASE b # c
    BY <2>2, <1>1, <1>3, <1>7, StaysInTime
    DEF DoStep, Look, Attempt, Stop, Succeed, Fail, WakeUp, TypeOK
  <2>3. QED
    BY <2>1, <2>2
<1>8. CASE UNCHANGED vars
  BY <1>8, <1>3, StaysInTime DEF vars
<1>9. QED
  BY <1>4, <1>5, <1>6, <1>7, <1>8 DEF Next, Finished

\* If the worst case of the default policy ends within its budget, no call under it is ever
\* stopped by the deadline: only a caller that goes away keeps it from all of its attempts.
THEOREM PoliciesFit ==
  ASSUME NEW slowest, NEW delay, NEW left,
         WorstCase(slowest, delay, left), BudgetSuffices(left)
  PROVE  Spec => []PolicyFitsBudget
<1>1. Init => TimeInv(slowest, delay, left)
  BY LoopInit DEF Init, TimeInv, InTime, At, Running, Watching
<1>2. TimeInv(slowest, delay, left) /\ [Next]_vars => TimeInv(slowest, delay, left)'
  BY TimeStep
<1>3. TimeInv(slowest, delay, left) => PolicyFitsBudget
  BY DEF TimeInv, InTime, PolicyFitsBudget
<1>4. QED
  BY <1>1, <1>2, <1>3, PTL DEF Spec

\* The default of three attempts: three latencies and, whatever the cap, three base delays have to
\* fit.  (In milliseconds, 3 * 150 + 3 * 50 against AirAsia's 800.)
THEOREM ThreeAttemptsFit ==
  ASSUME NEW slowest \in Nat, \A d \in Latencies : d <= slowest,
         Attempts(Default) = 3,
         \A cfg \in Policies :
             Usable(cfg) = Usable(Default) => 3 * slowest + 3 * Base(Default) < Budget[cfg]
  PROVE  Spec => []PolicyFitsBudget
<1> DEFINE base  == Base(Default)
           cap   == Cap(Default)
           delay == [n \in 1 .. Tries |-> IF n = 1 THEN base
                                          ELSE IF n = 2 THEN Grown(base, cap)
                                          ELSE Grown(Grown(base, cap), cap)]
           left  == [n \in 1 .. Tries |-> IF n = 1 THEN 3 * slowest + 3 * base
                                          ELSE IF n = 2 THEN 2 * slowest + 2 * base
                                          ELSE slowest]
<1>1. Tries = 3 /\ Usable(Default).base = base /\ Usable(Default).max = cap
      /\ base \in Nat /\ cap \in Nat
  BY UsablePolicies, RetryAssumption DEF Tries, Usable
<1>2. Grown(base, cap) \in Nat /\ Grown(base, cap) <= 2 * base
      /\ Grown(Grown(base, cap), cap) \in Nat
  BY <1>1, GrownFacts DEF Grown, Least
<1>3. WorstCase(slowest, delay, left)
  <2>1. delay \in [1 .. Tries -> Nat] /\ left \in [1 .. Tries -> Nat]
    BY <1>1, <1>2
  <2>2. /\ delay[1] = base /\ delay[2] = Grown(base, cap) /\ delay[3] = Grown(delay[2], cap)
        /\ left[1] = 3 * slowest + 3 * base /\ left[2] = 2 * slowest + 2 * base
        /\ left[3] = slowest
    BY <1>1
  <2> HIDE DEF delay, left, base, cap
  <2>3. ASSUME NEW n \in 1 .. Tries - 1
        PROVE  /\ delay[n + 1] = Grown(delay[n], Usable(Default).max)
               /\ left[n] >= slowest + delay[n] + left[n + 1]
    <3>1. CASE n = 1
      BY <1>1, <1>2, <2>2, <3>1
    <3>2. CASE n = 2
      BY <1>1, <1>2, <2>2, <3>2
    <3>3. QED
      BY <1>1, <3>1, <3>2
  <2>4. QED
    BY <1>1, <2>1, <2>2, <2>3 DEF WorstCase
<1>4. BudgetSuffices(left)
  BY <1>1 DEF BudgetSuffices
<1>5. QED
  BY <1>3, <1>4, PoliciesFit

-----------------------------------------------------------------------------
(* Sums and lists.                                                         *)

\* A set of numbers with a member has a smallest one: how a loop's first failure is found.
LEMMA SmallestNat ==
  ASSUME NEW T \in SUBSET Nat, T # {}
  PROVE  \E x \in T : \A y \in T : x <= y
<1>1. PICK x \in T : \A y \in T : ~(<<y, x>> \in OpToRel(<, Nat))
  BY NatLessThanWellFounded, WFMin, Zenon
<1>2. \A y \in T : ~(y < x)
  BY <1>1 DEF OpToRel
<1>3. QED
  BY <1>2

\* Total is the last of a series of sums, each one summand longer.
LEMMA TotalUnfolds ==
  ASSUME NEW ns, Len(ns) \in Nat
  PROVE  \E sum : /\ sum[0] = 0
                  /\ \A i \in 1 .. Len(ns) : sum[i] = sum[i - 1] + ns[i]
                  /\ Total(ns) = sum[Len(ns)]
<1> DEFINE Builds(g, m) == g = [i \in 0 .. m |-> IF i = 0 THEN 0 ELSE g[i - 1] + ns[i]]
           Bad == {m \in Nat : ~\E g : Builds(g, m)}
           sum == CHOOSE g : Builds(g, Len(ns))
<1>1. Total(ns) = sum[Len(ns)]
  BY Zenon DEF Total
<1>2. \E g : Builds(g, 0)
  <2> DEFINE g == [i \in 0 .. 0 |-> 0]
  <2>1. Builds(g, 0)
    OBVIOUS
  <2>2. QED
    BY <2>1
<1>3. ASSUME NEW m \in Nat, NEW g, Builds(g, m) PROVE \E h : Builds(h, m + 1)
  <2> DEFINE h == [i \in 0 .. m + 1 |-> IF i = m + 1 THEN g[m] + ns[m + 1] ELSE g[i]]
  <2>1. \A i \in 0 .. m : g[i] = IF i = 0 THEN 0 ELSE g[i - 1] + ns[i]
    BY <1>3
  <2>2. \A i \in 0 .. m : h[i] = g[i]
    OBVIOUS
  <2>3. h[m + 1] = h[m] + ns[m + 1]
    BY <2>2
  <2>4. \A i \in 0 .. m + 1 : h[i] = IF i = 0 THEN 0 ELSE h[i - 1] + ns[i]
    <3> SUFFICES ASSUME NEW i \in 0 .. m + 1
                 PROVE  h[i] = IF i = 0 THEN 0 ELSE h[i - 1] + ns[i]
      OBVIOUS
    <3>1. CASE i = m + 1
      BY <2>3, <3>1
    <3>2. CASE i # m + 1
      <4>1. i \in 0 .. m /\ (i # 0 => i - 1 \in 0 .. m)
        BY <3>2
      <4> HIDE DEF h
      <4>2. QED
        BY <2>1, <2>2, <4>1
    <3>3. QED
      BY <3>1, <3>2
  <2>5. DOMAIN h = 0 .. m + 1 /\ h = [i \in 0 .. m + 1 |-> h[i]]
    OBVIOUS
  <2> HIDE DEF h
  <2>6. Builds(h, m + 1)
    BY <2>4, <2>5
  <2>7. QED
    BY <2>6
<1>4. \E g : Builds(g, Len(ns))
  <2> SUFFICES ASSUME Bad # {} PROVE FALSE
    OBVIOUS
  <2>1. PICK m \in Bad : \A k \in Bad : m <= k
    BY SmallestNat
  <2>2. m \in Nat /\ m # 0
    BY <1>2
  <2>3. m - 1 \in Nat /\ ~(m <= m - 1) /\ m - 1 + 1 = m
    BY <2>2
  <2>4. PICK g : Builds(g, m - 1)
    BY <2>1, <2>3
  <2>5. \E h : Builds(h, m - 1 + 1)
    BY <1>3, <2>3, <2>4
  <2>6. QED
    BY <2>3, <2>5
<1>5. Builds(sum, Len(ns))
  BY <1>4, Zenon
<1> HIDE DEF sum
<1>6. \A i \in 0 .. Len(ns) : sum[i] = IF i = 0 THEN 0 ELSE sum[i - 1] + ns[i]
  BY <1>5 DEF Builds
<1>7. sum[0] = 0 /\ \A i \in 1 .. Len(ns) : sum[i] = sum[i - 1] + ns[i]
  BY <1>6
<1>8. QED
  BY <1>1, <1>7

\* FlattenSeq is the last of a series of lists, each one longer by a further part.
LEMMA FlattenUnfolds ==
  ASSUME NEW ss, Len(ss) \in Nat, Len(ss) # 0
  PROVE  \E upTo : /\ upTo[1] = ss[1]
                   /\ \A i \in 2 .. Len(ss) : upTo[i] = upTo[i - 1] \o ss[i]
                   /\ FlattenSeq(ss) = upTo[Len(ss)]
<1> DEFINE Builds(g, m) == g = [i \in 1 .. m |-> IF i = 1 THEN ss[i] ELSE g[i - 1] \o ss[i]]
           Bad == {m \in Nat : ~\E g : Builds(g, m)}
           upTo == CHOOSE g : Builds(g, Len(ss))
<1>1. FlattenSeq(ss) = upTo[Len(ss)]
  BY Zenon DEF FlattenSeq
<1>2. \E g : Builds(g, 0)
  <2> DEFINE g == [i \in 1 .. 0 |-> 0]
  <2>1. 1 .. 0 = {}
    OBVIOUS
  <2>2. Builds(g, 0)
    BY <2>1
  <2>3. QED
    BY <2>2
<1>3. ASSUME NEW m \in Nat, NEW g, Builds(g, m) PROVE \E h : Builds(h, m + 1)
  <2> DEFINE h == [i \in 1 .. m + 1 |-> IF i = m + 1
                                        THEN IF m = 0 THEN ss[1] ELSE g[m] \o ss[m + 1]
                                        ELSE g[i]]
  <2>1. \A i \in 1 .. m : g[i] = IF i = 1 THEN ss[i] ELSE g[i - 1] \o ss[i]
    BY <1>3
  <2>2. \A i \in 1 .. m : h[i] = g[i]
    OBVIOUS
  <2>3. h[m + 1] = IF m = 0 THEN ss[1] ELSE h[m] \o ss[m + 1]
    BY <2>2
  <2>4. \A i \in 1 .. m + 1 : h[i] = IF i = 1 THEN ss[i] ELSE h[i - 1] \o ss[i]
    <3> SUFFICES ASSUME NEW i \in 1 .. m + 1
                 PROVE  h[i] = IF i = 1 THEN ss[i] ELSE h[i - 1] \o ss[i]
      OBVIOUS
    <3> HIDE DEF h
    <3>1. CASE i = m + 1
      <4>1. (m = 0 <=> i = 1) /\ i - 1 = m
        BY <3>1
      <4>2. QED
        BY <2>3, <3>1, <4>1
    <3>2. CASE i # m + 1
      <4>1. i \in 1 .. m /\ (i # 1 => i - 1 \in 1 .. m)
        BY <3>2
      <4>2. QED
        BY <2>1, <2>2, <4>1
    <3>3. QED
      BY <3>1, <3>2
  <2>5. DOMAIN h = 1 .. m + 1 /\ h = [i \in 1 .. m + 1 |-> h[i]]
    OBVIOUS
  <2> HIDE DEF h
  <2>6. Builds(h, m + 1)
    BY <2>4, <2>5
  <2>7. QED
    BY <2>6
<1>4. \E g : Builds(g, Len(ss))
  <2> SUFFICES ASSUME Bad # {} PROVE FALSE
    OBVIOUS
  <2>1. PICK m \in Bad : \A k \in Bad : m <= k
    BY SmallestNat
  <2>2. m \in Nat /\ m # 0
    BY <1>2
  <2>3. m - 1 \in Nat /\ ~(m <= m - 1) /\ m - 1 + 1 = m
    BY <2>2
  <2>4. PICK g : Builds(g, m - 1)
    BY <2>1, <2>3
  <2>5. \E h : Builds(h, m - 1 + 1)
    BY <1>3, <2>3, <2>4
  <2>6. QED
    BY <2>3, <2>5
<1>5. Builds(upTo, Len(ss))
  BY <1>4, Zenon
<1> HIDE DEF upTo
<1>6. \A i \in 1 .. Len(ss) : upTo[i] = IF i = 1 THEN ss[i] ELSE upTo[i - 1] \o ss[i]
  BY <1>5 DEF Builds
<1>7. upTo[1] = ss[1]
  BY <1>6
<1>8. ASSUME NEW i \in 2 .. Len(ss) PROVE upTo[i] = upTo[i - 1] \o ss[i]
  <2>1. i \in 1 .. Len(ss) /\ i # 1
    OBVIOUS
  <2>2. QED
    BY <1>6, <2>1
<1>9. QED
  BY <1>1, <1>7, <1>8
\* The elements of s are those of the first n parts of ss.
Gathers(s, ss, n) ==
    /\ \A k \in 1 .. Len(s) : \E i \in 1 .. n : \E m \in 1 .. Len(ss[i]) : s[k] = ss[i][m]
    /\ \A i \in 1 .. n : \A m \in 1 .. Len(ss[i]) : \E k \in 1 .. Len(s) : s[k] = ss[i][m]

\* One part more: its elements join those gathered so far.
LEMMA GathersMore ==
  ASSUME NEW S, NEW s \in Seq(S), NEW ss \in Seq(Seq(S)), NEW n \in Nat, n < Len(ss),
         Gathers(s, ss, n)
  PROVE  Gathers(s \o ss[n + 1], ss, n + 1)
<1> DEFINE t == ss[n + 1]
           both == s \o t
<1>1. n + 1 \in 1 .. Len(ss) /\ t \in Seq(S)
  OBVIOUS
<1>2. /\ both \in Seq(S) /\ Len(both) = Len(s) + Len(t) /\ Len(s) \in Nat /\ Len(t) \in Nat
      /\ \A k \in 1 .. Len(s) : both[k] = s[k]
      /\ \A m \in 1 .. Len(t) : both[Len(s) + m] = t[m]
  BY <1>1
<1> HIDE DEF both, t
<1>3. ASSUME NEW k \in 1 .. Len(both)
      PROVE  \E i \in 1 .. n + 1 : \E m \in 1 .. Len(ss[i]) : both[k] = ss[i][m]
  <2>1. CASE k <= Len(s)
    <3>1. k \in 1 .. Len(s)
      BY <1>2, <2>1
    <3>2. PICK i \in 1 .. n : \E m \in 1 .. Len(ss[i]) : s[k] = ss[i][m]
      BY <3>1 DEF Gathers
    <3>3. i \in 1 .. n + 1 /\ both[k] = s[k]
      BY <1>2, <3>1, <3>2
    <3>4. QED
      BY <3>2, <3>3
  <2>2. CASE k > Len(s)
    <3>1. k - Len(s) \in 1 .. Len(t) /\ Len(s) + (k - Len(s)) = k
      BY <1>2, <2>2
    <3>2. both[k] = t[k - Len(s)]
      BY <1>2, <3>1
    <3>3. n + 1 \in 1 .. n + 1 /\ k - Len(s) \in 1 .. Len(ss[n + 1])
          /\ both[k] = ss[n + 1][k - Len(s)]
      BY <3>1, <3>2 DEF t
    <3>4. QED
      BY <3>3
  <2>3. k <= Len(s) \/ k > Len(s)
    BY <1>2
  <2>4. QED
    BY <2>1, <2>2, <2>3
<1>4. ASSUME NEW i \in 1 .. n + 1, NEW m \in 1 .. Len(ss[i])
      PROVE  \E k \in 1 .. Len(both) : both[k] = ss[i][m]
  <2>1. CASE i = n + 1
    <3>1. m \in 1 .. Len(t) /\ ss[i][m] = t[m]
      BY <2>1 DEF t
    <3>2. Len(s) + m \in 1 .. Len(both)
      BY <1>2, <3>1
    <3>3. QED
      BY <1>2, <3>1, <3>2
  <2>2. CASE i # n + 1
    <3>1. PICK k \in 1 .. Len(s) : s[k] = ss[i][m]
      BY <2>2 DEF Gathers
    <3>2. k \in 1 .. Len(both)
      BY <1>2
    <3>3. QED
      BY <1>2, <3>1, <3>2
  <2>3. QED
    BY <2>1, <2>2
<1>5. QED
  BY <1>3, <1>4 DEF Gathers, both, t

\* What FlattenSeq makes of a list of lists: their elements, and as many as they have together.
LEMMA FlattenFacts ==
  ASSUME NEW S, NEW ss \in Seq(Seq(S))
  PROVE  /\ FlattenSeq(ss) \in Seq(S)
         /\ Gathers(FlattenSeq(ss), ss, Len(ss))
         /\ Len(FlattenSeq(ss)) = Total([i \in DOMAIN ss |-> Len(ss[i])])
<1> DEFINE lens == [i \in DOMAIN ss |-> Len(ss[i])]
<1>1. /\ Len(ss) \in Nat /\ DOMAIN ss = 1 .. Len(ss)
      /\ \A i \in 1 .. Len(ss) : ss[i] \in Seq(S) /\ lens[i] = Len(ss[i]) /\ Len(ss[i]) \in Nat
      /\ Len(lens) = Len(ss)
  OBVIOUS
<1> HIDE DEF lens
<1>2. PICK sum : /\ sum[0] = 0
                 /\ \A i \in 1 .. Len(ss) : sum[i] = sum[i - 1] + lens[i]
                 /\ Total(lens) = sum[Len(ss)]
  BY <1>1, TotalUnfolds
<1>3. CASE Len(ss) = 0
  <2>1. ss = <<>> /\ FlattenSeq(ss) = <<>>
    BY <1>1, <1>3 DEF FlattenSeq
  <2>2. Gathers(<<>>, <<>>, 0)
    BY DEF Gathers
  <2>3. Total(lens) = 0 /\ Len(<<>>) = 0 /\ <<>> \in Seq(S)
    BY <1>2, <1>3
  <2>4. QED
    BY <1>3, <2>1, <2>2, <2>3 DEF lens
<1>4. CASE Len(ss) # 0
  <2>1. PICK upTo : /\ upTo[1] = ss[1]
                    /\ \A i \in 2 .. Len(ss) : upTo[i] = upTo[i - 1] \o ss[i]
                    /\ FlattenSeq(ss) = upTo[Len(ss)]
    BY <1>1, <1>4, FlattenUnfolds
  <2> DEFINE Holds(n) == upTo[n] \in Seq(S) /\ Gathers(upTo[n], ss, n) /\ Len(upTo[n]) = sum[n]
             Bad == {n \in Nat : n # 0 /\ n <= Len(ss) /\ ~Holds(n)}
  <2>2. Holds(1)
    <3>1. 1 \in 1 .. Len(ss) /\ upTo[1] \in Seq(S)
      BY <1>1, <1>4, <2>1
    <3>2. Gathers(ss[1], ss, 1)
      BY DEF Gathers
    <3>3. sum[1] = sum[1 - 1] + lens[1]
      BY <1>2, <3>1
    <3>4. sum[1] = Len(ss[1])
      BY <1>1, <1>2, <3>1, <3>3
    <3>5. QED
      BY <2>1, <3>1, <3>2, <3>4
  <2>3. ASSUME NEW n \in 2 .. Len(ss), Holds(n - 1) PROVE Holds(n)
    <3>1. n - 1 \in Nat /\ n - 1 < Len(ss) /\ n - 1 + 1 = n /\ n \in 1 .. Len(ss)
      BY <1>1
    <3>2. upTo[n] = upTo[n - 1] \o ss[n] /\ sum[n] = sum[n - 1] + Len(ss[n])
      BY <1>1, <1>2, <2>1, <3>1
    <3>3. Gathers(upTo[n - 1] \o ss[n - 1 + 1], ss, n - 1 + 1)
      BY <2>3, <3>1, GathersMore
    <3>4. upTo[n - 1] \o ss[n] \in Seq(S)
          /\ Len(upTo[n - 1] \o ss[n]) = Len(upTo[n - 1]) + Len(ss[n])
      BY <1>1, <2>3, <3>1
    <3>5. QED
      BY <2>3, <3>1, <3>2, <3>3, <3>4
  <2>4. Bad = {}
    <3> SUFFICES ASSUME Bad # {} PROVE FALSE
      OBVIOUS
    <3>1. PICK n \in Bad : \A k \in Bad : n <= k
      BY SmallestNat
    <3>2. n # 1 /\ n \in 2 .. Len(ss)
      BY <1>1, <2>2, <3>1
    <3>3. n - 1 \in Nat /\ n - 1 # 0 /\ n - 1 <= Len(ss) /\ ~(n <= n - 1)
      BY <1>1, <3>2
    <3>4. Holds(n - 1)
      BY <3>1, <3>3
    <3>5. Holds(n)
      BY <2>3, <3>2, <3>4
    <3>6. QED
      BY <3>1, <3>5
  <2>5. Holds(Len(ss))
    BY <1>1, <1>4, <2>4
  <2>6. QED
    BY <1>2, <2>1, <2>5 DEF lens
<1>5. QED
  BY <1>3, <1>4

\* Two lists match, element by element, in the relation R.
Alike(s, t, R) == Len(s) = Len(t) /\ \A k \in 1 .. Len(s) : <<s[k], t[k]>> \in R

\* Lists that match still do with matching lists after them.
LEMMA ConcatAlike ==
  ASSUME NEW S, NEW T, NEW R, NEW a \in Seq(S), NEW b \in Seq(T),
         NEW c \in Seq(S), NEW d \in Seq(T),
         Alike(a, b, R), Alike(c, d, R)
  PROVE  Alike(a \o c, b \o d, R)
<1>a. Len(b) = Len(a) /\ Len(d) = Len(c)
  BY Zenon DEF Alike
<1>b. Len(a) \in Nat /\ Len(c) \in Nat /\ Len(a \o c) = Len(a) + Len(c)
  OBVIOUS
<1>1. /\ Len(a) \in Nat /\ Len(c) \in Nat /\ Len(b) = Len(a) /\ Len(d) = Len(c)
      /\ Len(a \o c) = Len(a) + Len(c)
  BY <1>a, <1>b
<1>2. Len(b \o d) = Len(a) + Len(c)
  BY <1>1
<1>3. ASSUME NEW k \in 1 .. Len(a \o c) PROVE <<(a \o c)[k], (b \o d)[k]>> \in R
  <2>1. CASE k <= Len(a)
    <3>1. k \in 1 .. Len(a)
      BY <1>1, <2>1
    <3>2. (a \o c)[k] = a[k]
      BY <3>1
    <3>3. (b \o d)[k] = b[k]
      BY <1>1, <3>1
    <3>4. QED
      BY <3>1, <3>2, <3>3 DEF Alike
  <2>2. CASE ~(k <= Len(a))
    <3>1. k - Len(a) \in 1 .. Len(c)
      BY <1>1, <2>2
    <3>2. (a \o c)[k] = c[k - Len(a)]
      BY <1>1, <2>2
    <3>3. (b \o d)[k] = d[k - Len(a)]
      BY <1>1, <2>2
    <3>4. QED
      BY <3>1, <3>2, <3>3 DEF Alike
  <2>3. QED
    BY <2>1, <2>2
<1>4. QED
  BY <1>1, <1>2, <1>3 DEF Alike

\* Lists of lists that match part by part match once flattened.
LEMMA FlattenAlike ==
  ASSUME NEW S, NEW T, NEW R, NEW ss \in Seq(Seq(S)), NEW tt \in Seq(Seq(T)),
         Len(ss) = Len(tt), \A i \in 1 .. Len(ss) : Alike(ss[i], tt[i], R)
  PROVE  Alike(FlattenSeq(ss), FlattenSeq(tt), R)
<1>1. /\ Len(ss) \in Nat
      /\ \A i \in 1 .. Len(ss) : ss[i] \in Seq(S) /\ tt[i] \in Seq(T) /\ Alike(ss[i], tt[i], R)
  OBVIOUS
<1>2. CASE Len(ss) = 0
  <2>1. ss = <<>>
    BY <1>2
  <2>5. tt = <<>>
    <3>1. Len(tt) = 0
      BY <1>2
    <3>2. \A t : t \in Seq(Seq(T)) /\ Len(t) = 0 => t = <<>>
      OBVIOUS
    <3>3. QED
      BY <3>1, <3>2
  <2>4. FlattenSeq(<<>>) = <<>>
    BY DEF FlattenSeq
  <2>2. Alike(<<>>, <<>>, R)
    BY DEF Alike
  <2>3. QED
    BY <2>1, <2>2, <2>4, <2>5
<1>3. CASE Len(ss) # 0
  <2>1. PICK us : /\ us[1] = ss[1]
                  /\ \A i \in 2 .. Len(ss) : us[i] = us[i - 1] \o ss[i]
                  /\ FlattenSeq(ss) = us[Len(ss)]
    BY <1>1, <1>3, FlattenUnfolds
  <2>2. PICK ut : /\ ut[1] = tt[1]
                  /\ \A i \in 2 .. Len(tt) : ut[i] = ut[i - 1] \o tt[i]
                  /\ FlattenSeq(tt) = ut[Len(tt)]
    BY <1>1, <1>3, FlattenUnfolds
  <2> DEFINE Holds(n) == us[n] \in Seq(S) /\ ut[n] \in Seq(T) /\ Alike(us[n], ut[n], R)
             Bad == {n \in Nat : n # 0 /\ n <= Len(ss) /\ ~Holds(n)}
  <2>3. Holds(1)
    BY <1>1, <1>3, <2>1, <2>2
  <2>4. ASSUME NEW n \in 2 .. Len(ss), Holds(n - 1) PROVE Holds(n)
    <3>6. n \in 1 .. Len(ss) /\ n \in 2 .. Len(tt)
      OBVIOUS
    <3>1. n \in 1 .. Len(ss) /\ us[n] = us[n - 1] \o ss[n] /\ ut[n] = ut[n - 1] \o tt[n]
      BY <2>1, <2>2, <3>6, Zenon
    <3>2. /\ us[n - 1] \in Seq(S) /\ ut[n - 1] \in Seq(T) /\ ss[n] \in Seq(S) /\ tt[n] \in Seq(T)
          /\ Alike(us[n - 1], ut[n - 1], R) /\ Alike(ss[n], tt[n], R)
      BY <1>1, <2>4, <3>1, Zenon
    <3>3. us[n - 1] \o ss[n] \in Seq(S) /\ ut[n - 1] \o tt[n] \in Seq(T)
      BY <3>2
    <3>4. Alike(us[n - 1] \o ss[n], ut[n - 1] \o tt[n], R)
      BY <3>2, ConcatAlike
    <3>5. QED
      BY <3>1, <3>3, <3>4
  <2>5. Bad = {}
    <3> SUFFICES ASSUME Bad # {} PROVE FALSE
      OBVIOUS
    <3>1. PICK n \in Bad : \A k \in Bad : n <= k
      BY SmallestNat
    <3>2. n # 1 /\ n \in 2 .. Len(ss)
      BY <1>1, <2>3, <3>1
    <3>3. n - 1 \in Nat /\ n - 1 # 0 /\ n - 1 <= Len(ss) /\ ~(n <= n - 1)
      BY <1>1, <3>2
    <3>4. Holds(n - 1)
      BY <3>1, <3>3
    <3>5. Holds(n)
      BY <2>4, <3>2, <3>4
    <3>6. QED
      BY <3>1, <3>5
  <2>6. Holds(Len(ss))
    <3>1. Len(ss) \in Nat /\ Len(ss) # 0 /\ Len(ss) <= Len(ss)
      BY <1>1, <1>3
    <3>2. QED
      BY <2>5, <3>1, Zenon
  <2>7. QED
    BY <2>1, <2>2, <2>6
<1>4. QED
  BY <1>2, <1>3

\* What a client read of one record, as a list.
LEMMA SmallSets ==
  /\ SetToSeq({}) = <<>>
  /\ \A x : SetToSeq({x}) = <<x>>
<1>1. SetToSeq({}) = <<>>
  <2>1. Cardinality({}) = 0 /\ 1 .. 0 = {}
    BY FS_EmptySet
  <2>2. \A f \in [1 .. 0 -> {}] : f = <<>>
    BY <2>1
  <2>3. <<>> \in [1 .. 0 -> {}] /\ IsInjective(<<>>)
    BY <2>1 DEF IsInjective
  <2>4. QED
    BY <2>1, <2>2, <2>3, Zenon DEF SetToSeq
<1>2. ASSUME NEW x PROVE SetToSeq({x}) = <<x>>
  <2>1. Cardinality({x}) = 1 /\ 1 .. 1 = {1}
    BY FS_Singleton
  <2>2. \A f \in [1 .. 1 -> {x}] : f = <<x>>
    <3> SUFFICES ASSUME NEW f \in [1 .. 1 -> {x}] PROVE f = <<x>>
      OBVIOUS
    <3>1. f \in Seq({x}) /\ Len(f) = 1 /\ f[1] = x
      BY <2>1
    <3>2. QED
      BY <3>1
  <2>3. <<x>> \in [1 .. 1 -> {x}] /\ IsInjective(<<x>>)
    BY <2>1 DEF IsInjective
  <2>4. QED
    BY <2>1, <2>2, <2>3, Zenon DEF SetToSeq
<1>3. QED
  BY <1>1, <1>2

-----------------------------------------------------------------------------
(* Airports, minutes and their rounding.                                   *)

\* What the registry says of an airport: its code is no other spelling of a code and not blank, it
\* has a city, and its zone is known.
LEMMA RegistryFacts ==
  ASSUME NEW a \in DOMAIN Registry
  PROVE  /\ a # "cgk" /\ a # Blank
         /\ Registry[a].zone \in DOMAIN ZoneOffset
         /\ OffsetAt(a) \in Int
         /\ OffsetAt(a) = ZoneOffset[Registry[a].zone] * Hour
         /\ City(a) # Blank
<1>1. DOMAIN Registry = {"CGK", "SUB", "UPG", "DPS"} /\ DOMAIN ZoneOffset = {"WIB", "WITA", "WIT"}
  BY DEF Registry, ZoneOffset
<1>2. a # "cgk" /\ a # Blank
  BY <1>1 DEF Blank
<1>3. Registry[a].zone \in {"WIB", "WITA"} /\ Registry[a].city # ""
  <2>1. CASE a = "CGK"
    BY <2>1 DEF Registry
  <2>2. CASE a = "SUB"
    BY <2>2 DEF Registry
  <2>3. CASE a = "UPG"
    BY <2>3 DEF Registry
  <2>4. CASE a = "DPS"
    BY <2>4 DEF Registry
  <2>5. QED
    BY <1>1, <2>1, <2>2, <2>3, <2>4
<1>4. OffsetAt(a) \in Int
  <2>1. ZoneOffset["WIB"] = 7 /\ ZoneOffset["WITA"] = 8
    BY DEF ZoneOffset
  <2>2. 7 * Hour \in Int /\ 8 * Hour \in Int
    BY DEF Hour, Minute
  <2>3. QED
    BY <1>3, <2>1, <2>2, Zenon DEF OffsetAt
<1>5. DOMAIN Upper = {"cgk"}
  BY DEF Upper
<1>6. Uppered(a) = a
  BY <1>2, <1>5 DEF Uppered
<1>7. City(a) # Blank
  BY <1>3, <1>6 DEF City, Blank
<1>8. QED
  BY <1>1, <1>2, <1>3, <1>4, <1>7 DEF OffsetAt

\* A duration in half minutes is as many minutes, or half a minute more.
LEMMA RoundedFacts ==
  ASSUME NEW d \in Nat
  PROVE  /\ Rounded(d) \in Nat
         /\ 2 * Rounded(d) - d \in 0 .. 1
         /\ d >= 1 => Rounded(d) >= 1
  BY DEF Rounded, Minute

\* One summand more.
LEMMA OneTermMore ==
  \A m \in Nat : \A n \in 1 .. m : \A a, b, c, d \in Nat :
     2 * a - b \in 0 .. n - 1 /\ 2 * c - d \in 0 .. 1
     => a + c \in Nat /\ b + d \in Nat /\ 2 * (a + c) - (b + d) \in 0 .. n
OBVIOUS

\* Minutes that are so many half minutes each, or half a minute more, are so in sum.
LEMMA SumsOfMinutes ==
  ASSUME NEW m \in Nat, NEW ns, NEW hs, Len(ns) = m, Len(hs) = m,
         \A i \in 1 .. m : ns[i] \in Nat /\ hs[i] \in Nat /\ 2 * ns[i] - hs[i] \in 0 .. 1
  PROVE  Total(ns) \in Nat /\ Total(hs) \in Nat /\ 2 * Total(ns) - Total(hs) \in 0 .. m
<1>1. PICK s : s[0] = 0 /\ (\A i \in 1 .. m : s[i] = s[i - 1] + ns[i]) /\ Total(ns) = s[m]
  BY TotalUnfolds
<1>2. PICK h : h[0] = 0 /\ (\A i \in 1 .. m : h[i] = h[i - 1] + hs[i]) /\ Total(hs) = h[m]
  BY TotalUnfolds
<1> DEFINE Holds(n) == s[n] \in Nat /\ h[n] \in Nat /\ 2 * s[n] - h[n] \in 0 .. n
           Bad == {n \in Nat : n <= m /\ ~Holds(n)}
<1>3. Holds(0)
  BY <1>1, <1>2
<1>4. ASSUME NEW n \in 1 .. m, Holds(n - 1) PROVE Holds(n)
  <2>1. s[n] = s[n - 1] + ns[n] /\ h[n] = h[n - 1] + hs[n]
    BY <1>1, <1>2
  <2>2. ns[n] \in Nat /\ hs[n] \in Nat /\ 2 * ns[n] - hs[n] \in 0 .. 1
    OBVIOUS
  <2>3. s[n - 1] \in Nat /\ h[n - 1] \in Nat /\ 2 * s[n - 1] - h[n - 1] \in 0 .. n - 1
    BY <1>4 DEF Holds
  <2> HIDE DEF Holds, Bad
  <2>6. /\ s[n - 1] + ns[n] \in Nat /\ h[n - 1] + hs[n] \in Nat
        /\ 2 * (s[n - 1] + ns[n]) - (h[n - 1] + hs[n]) \in 0 .. n
    BY <2>2, <2>3, OneTermMore, Zenon
  <2>7. QED
    BY <2>1, <2>6, Zenon DEF Holds
<1>5. Bad = {}
  <2> SUFFICES ASSUME Bad # {} PROVE FALSE
    OBVIOUS
  <2>1. PICK n \in Bad : \A k \in Bad : n <= k
    BY SmallestNat
  <2>2. n # 0 /\ n \in Nat /\ n <= m
    BY <1>3, <2>1
  <2>3. n - 1 \in Nat /\ n - 1 <= m /\ ~(n <= n - 1) /\ n \in 1 .. m
    BY <2>2
  <2>4. Holds(n - 1)
    BY <2>1, <2>3, Zenon
  <2>5. QED
    BY <1>4, <2>1, <2>3, <2>4, Zenon
<1>6. Holds(m)
  <2>1. m <= m
    OBVIOUS
  <2>2. QED
    BY <1>5, <2>1, Zenon
<1>7. QED
  BY <1>1, <1>2, <1>6

\* A sum of naturals is a natural, no less than its first summand, and zero if all of them are.
LEMMA SumsOfNaturals ==
  ASSUME NEW m \in Nat, NEW ns, Len(ns) = m, \A i \in 1 .. m : ns[i] \in Nat
  PROVE  /\ Total(ns) \in Nat
         /\ m > 0 => Total(ns) >= ns[1]
         /\ (\A i \in 1 .. m : ns[i] = 0) => Total(ns) = 0
         /\ (\A i \in 1 .. m : ns[i] >= 1) => Total(ns) >= m
<1>1. PICK s : s[0] = 0 /\ (\A i \in 1 .. m : s[i] = s[i - 1] + ns[i]) /\ Total(ns) = s[m]
  BY TotalUnfolds
<1> DEFINE Holds(n) == /\ s[n] \in Nat
                       /\ n > 0 => s[n] >= ns[1]
                       /\ (\A i \in 1 .. m : ns[i] = 0) => s[n] = 0
                       /\ (\A i \in 1 .. m : ns[i] >= 1) => s[n] >= n
           Bad == {n \in Nat : n <= m /\ ~Holds(n)}
<1>3. Holds(0)
  BY <1>1
<1>4. ASSUME NEW n \in 1 .. m, Holds(n - 1) PROVE Holds(n)
  <2>1. s[n] = s[n - 1] + ns[n] /\ ns[n] \in Nat
    BY <1>1
  <2>2. n = 1 => s[n] = ns[1]
    BY <1>1, <2>1
  <2> HIDE DEF Bad
  <2>3. QED
    BY <1>4, <2>1, <2>2
<1>5. Bad = {}
  <2> SUFFICES ASSUME Bad # {} PROVE FALSE
    OBVIOUS
  <2>1. PICK n \in Bad : \A k \in Bad : n <= k
    BY SmallestNat
  <2>2. n # 0 /\ n \in Nat /\ n <= m
    BY <1>3, <2>1
  <2>3. n - 1 \in Nat /\ n - 1 <= m /\ ~(n <= n - 1) /\ n \in 1 .. m
    BY <2>2
  <2>4. Holds(n - 1)
    BY <2>1, <2>3, Zenon
  <2>5. QED
    BY <1>4, <2>1, <2>3, <2>4, Zenon
<1>6. Holds(m)
  <2>1. m <= m
    OBVIOUS
  <2>2. QED
    BY <1>5, <2>1, Zenon
<1>7. QED
  BY <1>1, <1>6

-----------------------------------------------------------------------------
(* Journeys, leg by leg.                                                   *)

Leg == [from : DOMAIN Registry, to : DOMAIN Registry, depart : Nat \ {0}, arrive : Nat]

\* A journey, leg by leg: what Flies says, with the sequences it speaks of unfolded.
LegByLeg(j) ==
    /\ Len(j.legs) \in Nat \ {0} /\ DOMAIN j.legs = 1 .. Len(j.legs)
    /\ \A i \in 1 .. Len(j.legs) :
          /\ j.legs[i] \in Leg
          /\ j.legs[i].from \in DOMAIN Registry /\ j.legs[i].to \in DOMAIN Registry
          /\ j.legs[i].depart \in Nat \ {0} /\ j.legs[i].arrive \in Nat
          /\ j.legs[i].depart < j.legs[i].arrive /\ j.legs[i].from # j.legs[i].to
    /\ From(j) = j.legs[1].from /\ Leaves(j) = j.legs[1].depart
    /\ To(j) = j.legs[Len(j.legs)].to /\ Arrives(j) = j.legs[Len(j.legs)].arrive
    /\ Head(j.legs) = j.legs[1]
    /\ Changes(j) \in Seq(DOMAIN Registry)
    /\ DOMAIN Changes(j) = 1 .. Len(j.legs) - 1 /\ Len(Changes(j)) = Len(j.legs) - 1
    /\ \A i \in 1 .. Len(j.legs) - 1 :
          /\ Changes(j)[i] = j.legs[i].to
          /\ j.legs[i + 1].from = j.legs[i].to
          /\ Wait(j, i) = j.legs[i + 1].depart - j.legs[i].arrive /\ Wait(j, i) \in Nat

\* A journey that can be flown is flown leg by leg.
LEMMA LegsOfJourneys ==
  ASSUME NEW j, Flies(j)
  PROVE  LegByLeg(j)
<1> DEFINE n == Len(j.legs)
<1>1. j.legs \in Seq(Leg) /\ j.legs # <<>>
  BY Zenon DEF Flies, JourneyRec, Leg
<1>2. n \in Nat \ {0} /\ DOMAIN j.legs = 1 .. n /\ \A i \in 1 .. n : j.legs[i] \in Leg
  BY <1>1
<1>3. ASSUME NEW i \in 1 .. n
      PROVE  /\ j.legs[i].from \in DOMAIN Registry /\ j.legs[i].to \in DOMAIN Registry
             /\ j.legs[i].depart \in Nat \ {0} /\ j.legs[i].arrive \in Nat
             /\ j.legs[i].depart < j.legs[i].arrive /\ j.legs[i].from # j.legs[i].to
  <2>1. j.legs[i] \in Leg
    BY <1>2
  <2>2. j.legs[i].depart < j.legs[i].arrive /\ j.legs[i].from # j.legs[i].to
    BY <1>2, Zenon DEF Flies
  <2>3. QED
    BY <2>1, <2>2 DEF Leg
<1>4. Head(j.legs) = j.legs[1] /\ Last(j.legs) = j.legs[n]
  BY <1>1 DEF Last
<1>5. /\ From(j) = j.legs[1].from /\ Leaves(j) = j.legs[1].depart
      /\ To(j) = j.legs[n].to /\ Arrives(j) = j.legs[n].arrive
  BY <1>4, Zenon DEF From, Leaves, To, Arrives
<1>6. n - 1 \in Nat /\ \A i \in 1 .. n - 1 : i \in 1 .. n /\ i + 1 \in 1 .. n
  BY <1>2
<1>7. \A i \in 1 .. n - 1 : j.legs[i].to \in DOMAIN Registry
  BY <1>3, <1>6
<1>8. Changes(j) = [i \in 1 .. n - 1 |-> j.legs[i].to]
  BY Zenon DEF Changes
<1>9. /\ Changes(j) \in Seq(DOMAIN Registry)
      /\ DOMAIN Changes(j) = 1 .. n - 1 /\ Len(Changes(j)) = n - 1
      /\ \A i \in 1 .. n - 1 : Changes(j)[i] = j.legs[i].to
  <2> HIDE DEF n
  <2>1. QED
    BY <1>6, <1>7, <1>8
<1>10. ASSUME NEW i \in 1 .. n - 1
       PROVE  /\ j.legs[i + 1].from = j.legs[i].to
              /\ Wait(j, i) = j.legs[i + 1].depart - j.legs[i].arrive /\ Wait(j, i) \in Nat
  <2>1. j.legs[i + 1].from = j.legs[i].to /\ Wait(j, i) >= 0
    BY <1>9, Zenon DEF Flies
  <2>2. j.legs[i + 1].depart \in Nat /\ j.legs[i].arrive \in Nat
    BY <1>3, <1>6
  <2>3. Wait(j, i) = j.legs[i + 1].depart - j.legs[i].arrive
    BY Zenon DEF Wait
  <2>4. QED
    BY <2>1, <2>2, <2>3
<1>11. QED
  BY <1>2, <1>3, <1>4, <1>5, <1>9, <1>10, Zenon DEF LegByLeg

\* The half minutes a journey spends in the air, leg by leg.
Flown(j) == [i \in DOMAIN j.legs |-> j.legs[i].arrive - j.legs[i].depart]

\* A journey lasts as long as its legs and the waits between them; it has an hour to leave and a
\* later one to arrive, and leaves for the last leg no earlier than for the first.
Lasts(j) ==
    /\ Leaves(j) \in Nat \ {0} /\ Arrives(j) \in Nat /\ Duration(j) \in Nat
    /\ Leaves(j) < Arrives(j) /\ Duration(j) = Arrives(j) - Leaves(j) /\ Duration(j) >= 1
    /\ Leaves(j) <= j.legs[Len(j.legs)].depart
    /\ OnGround(j) \in Nat /\ Total(Flown(j)) \in Nat /\ Total(Flown(j)) >= Len(j.legs)
    /\ Duration(j) = Total(Flown(j)) + OnGround(j)

\* A journey that can be flown lasts as long as its legs and waits.
LEMMA LengthOfJourneys ==
  ASSUME NEW j, Flies(j)
  PROVE  Lasts(j)
<1> DEFINE n == Len(j.legs)
           waits == [i \in DOMAIN Changes(j) |-> Wait(j, i)]
           legs == Flown(j)
<1>1. LegByLeg(j)
  BY LegsOfJourneys
<1>a. n \in Nat \ {0} /\ DOMAIN j.legs = 1 .. n /\ DOMAIN Changes(j) = 1 .. n - 1
  BY <1>1, Zenon DEF LegByLeg
<1>b. \A i \in 1 .. n : /\ j.legs[i].depart \in Nat \ {0} /\ j.legs[i].arrive \in Nat
                        /\ j.legs[i].depart < j.legs[i].arrive
  BY <1>1, Zenon DEF LegByLeg
<1>c. \A i \in 1 .. n - 1 :
         Wait(j, i) = j.legs[i + 1].depart - j.legs[i].arrive /\ Wait(j, i) \in Nat
  BY <1>1, Zenon DEF LegByLeg
<1>2. /\ Len(waits) = n - 1 /\ n - 1 \in Nat
      /\ \A i \in 1 .. n - 1 : waits[i] = Wait(j, i) /\ waits[i] \in Nat
  BY <1>a, <1>c
<1>3. /\ Len(legs) = n
      /\ \A i \in 1 .. n : legs[i] = j.legs[i].arrive - j.legs[i].depart /\ legs[i] \in Nat
                           /\ legs[i] >= 1
  BY <1>a, <1>b DEF Flown
<1>4. OnGround(j) = Total(waits)
  BY Zenon DEF OnGround
<1> HIDE DEF waits, legs
<1>5. OnGround(j) \in Nat
  BY <1>2, <1>4, SumsOfNaturals
<1>6. Total(legs) \in Nat /\ Total(legs) >= n
  BY <1>3, <1>a, SumsOfNaturals
<1>7. PICK w : w[0] = 0 /\ (\A i \in 1 .. n - 1 : w[i] = w[i - 1] + waits[i])
               /\ Total(waits) = w[n - 1]
  BY <1>2, TotalUnfolds
<1>8. PICK l : l[0] = 0 /\ (\A i \in 1 .. n : l[i] = l[i - 1] + legs[i]) /\ Total(legs) = l[n]
  BY <1>3, <1>a, TotalUnfolds
<1> DEFINE Holds(k) == /\ w[k - 1] \in Nat /\ l[k] \in Nat
                       /\ j.legs[k].arrive = j.legs[1].depart + l[k] + w[k - 1]
                       /\ j.legs[1].depart <= j.legs[k].depart
           Bad == {k \in Nat : k # 0 /\ k <= n /\ ~Holds(k)}
<1>9. Holds(1)
  <2>1. 1 \in 1 .. n
    BY <1>a
  <2>2. l[1] = l[1 - 1] + legs[1]
    BY <1>8, <2>1
  <2>3. l[1] = j.legs[1].arrive - j.legs[1].depart
    BY <1>8, <1>3, <1>b, <2>1, <2>2
  <2>4. w[1 - 1] = 0 /\ w[1 - 1] \in Nat
    BY <1>7
  <2>5. /\ j.legs[1].depart \in Nat /\ j.legs[1].arrive \in Nat
        /\ j.legs[1].depart < j.legs[1].arrive
    BY <1>b, <2>1
  <2>6. j.legs[1].arrive = j.legs[1].depart + l[1] + 0 /\ l[1] \in Nat
        /\ j.legs[1].depart <= j.legs[1].depart
    BY <2>3, <2>5
  <2>7. QED
    BY <2>4, <2>6, Zenon
<1>10. ASSUME NEW k \in 2 .. n, Holds(k - 1) PROVE Holds(k)
  <2>1. k \in 1 .. n /\ k - 1 \in 1 .. n - 1 /\ k - 1 \in 1 .. n /\ k - 1 + 1 = k
    BY <1>a
  <2>2. w[k - 1] = w[k - 1 - 1] + waits[k - 1] /\ l[k] = l[k - 1] + legs[k]
    BY <1>7, <1>8, <2>1
  <2>3. waits[k - 1] = j.legs[k].depart - j.legs[k - 1].arrive /\ waits[k - 1] \in Nat
    BY <1>2, <1>c, <2>1
  <2>4. legs[k] = j.legs[k].arrive - j.legs[k].depart /\ legs[k] \in Nat
    BY <1>3, <2>1
  <2>5. /\ j.legs[k].depart \in Nat /\ j.legs[k].arrive \in Nat /\ j.legs[k - 1].arrive \in Nat
        /\ j.legs[k - 1].depart \in Nat /\ j.legs[1].depart \in Nat
        /\ j.legs[k - 1].depart < j.legs[k - 1].arrive
    BY <1>a, <1>b, <2>1
  <2>6. /\ w[k - 1 - 1] \in Nat /\ l[k - 1] \in Nat
        /\ j.legs[k - 1].arrive = j.legs[1].depart + l[k - 1] + w[k - 1 - 1]
        /\ j.legs[1].depart <= j.legs[k - 1].depart
    BY <1>10
  <2> DEFINE start == j.legs[1].depart    arrived == j.legs[k - 1].arrive
             air == l[k - 1]              ground == w[k - 1 - 1]
             wait == waits[k - 1]         leg == legs[k]
             left == j.legs[k - 1].depart lands == j.legs[k].arrive
             leaves == j.legs[k].depart
  <2>a. /\ start \in Nat /\ arrived \in Nat /\ air \in Nat /\ ground \in Nat /\ wait \in Nat
        /\ leg \in Nat /\ left \in Nat /\ lands \in Nat /\ leaves \in Nat
    BY <2>3, <2>4, <2>5, <2>6, Zenon
  <2>b. /\ arrived = start + air + ground /\ start <= left /\ left < arrived
        /\ wait = leaves - arrived /\ leg = lands - leaves
    BY <2>3, <2>4, <2>5, <2>6, Zenon
  <2> HIDE DEF start, arrived, air, ground, wait, leg, left, lands, leaves, Holds, Bad, n
  <2>c. /\ ground + wait \in Nat /\ air + leg \in Nat
        /\ lands = start + (air + leg) + (ground + wait)
        /\ start <= leaves
    BY ONLY <2>a, <2>b
  <2>7. /\ w[k - 1 - 1] + waits[k - 1] \in Nat /\ l[k - 1] + legs[k] \in Nat
        /\ j.legs[k].arrive = j.legs[1].depart + (l[k - 1] + legs[k])
                            + (w[k - 1 - 1] + waits[k - 1])
        /\ j.legs[1].depart <= j.legs[k].depart
    BY <2>c DEF start, arrived, air, ground, wait, leg, left, lands, leaves
  <2>8. QED
    BY <2>2, <2>7, Zenon DEF Holds
<1>11. Bad = {}
  <2> SUFFICES ASSUME Bad # {} PROVE FALSE
    OBVIOUS
  <2>1. PICK k \in Bad : \A i \in Bad : k <= i
    BY SmallestNat
  <2>2. k # 1 /\ k \in Nat /\ k # 0 /\ k <= n
    BY <1>9, <2>1
  <2>3. k - 1 \in Nat /\ k - 1 # 0 /\ k - 1 <= n /\ ~(k <= k - 1) /\ k \in 2 .. n
    BY <2>2, <1>a
  <2>4. Holds(k - 1)
    BY <2>1, <2>3, Zenon
  <2>5. QED
    BY <1>10, <2>1, <2>3, <2>4, Zenon
<1>12. Holds(n)
  <2>1. n \in Nat /\ n # 0 /\ n <= n
    BY <1>a
  <2>2. QED
    BY <1>11, <2>1, Zenon
<1>13. /\ Leaves(j) = j.legs[1].depart /\ Arrives(j) = j.legs[n].arrive
       /\ Duration(j) = Arrives(j) - Leaves(j)
  BY <1>1, Zenon DEF LegByLeg, Duration
<1>14. /\ j.legs[1].depart \in Nat \ {0} /\ j.legs[n].arrive \in Nat
       /\ j.legs[n].depart \in Nat /\ j.legs[n].depart < j.legs[n].arrive
  BY <1>a, <1>b
<1>15. /\ j.legs[n].arrive = j.legs[1].depart + Total(legs) + OnGround(j)
       /\ j.legs[1].depart <= j.legs[n].depart
  BY <1>4, <1>7, <1>8, <1>12
<1>16. Duration(j) = Total(legs) + OnGround(j) /\ Duration(j) \in Nat /\ Duration(j) >= 1
       /\ Leaves(j) < Arrives(j)
  <2> DEFINE leaves == j.legs[1].depart
             last == j.legs[n].depart
             lands == j.legs[n].arrive
             air == Total(legs)
             ground == OnGround(j)
  <2>1. air \in Nat /\ ground \in Nat
    BY <1>5, <1>6
  <2>2. leaves \in Nat /\ last \in Nat /\ lands \in Nat /\ last < lands
    BY <1>14
  <2>3. lands = leaves + air + ground /\ leaves <= last
    BY <1>15, Zenon
  <2>4. Leaves(j) = leaves /\ Duration(j) = lands - leaves /\ Arrives(j) = lands
    BY <1>13, Zenon
  <2> HIDE DEF leaves, last, lands, air, ground
  <2>5. Duration(j) = air + ground /\ Duration(j) \in Nat /\ Duration(j) >= 1 /\ leaves < lands
    BY ONLY <2>1, <2>2, <2>3, <2>4
  <2>6. QED
    BY <2>4, <2>5 DEF leaves, lands, air, ground
<1>17. QED
  BY <1>5, <1>6, <1>13, <1>14, <1>15, <1>16 DEF Lasts, legs

-----------------------------------------------------------------------------
(* Items, and how their stamps are read back.                              *)

\* An item of a timetable: a journey that can be flown, and what is wrong with its record.
IsItem(item) == item \in [journey : JourneyRec, fault : Faults] /\ Flies(item.journey)

\* A time as its place shows it.
There(airport, at) == [at |-> at, offset |-> OffsetAt(airport)]

ReadsStamps(a, at) ==
    /\ ParseOffset(Stamp(a, at, "colon")) = {There(a, at)}
    /\ ParseCompactOffset(Stamp(a, at, "compact")) = {There(a, at)}
    /\ ParseInZone(Stamp(a, at, "naive"), Registry[a].zone) = {There(a, at)}
    /\ ParseOffset(Stamp(a, at, "other")) = {}
    /\ ParseCompactOffset(Stamp(a, at, "other")) = {}
    /\ \A zone : ParseInZone(Stamp(a, at, "other"), zone) = {}
    /\ \A stamp : ParseInZone(stamp, Blank) = {}

\* What is stamped in a layout is read back as it was, in that layout and in no other; a zone
\* that is left out cannot be read.
LEMMA StampsAreRead ==
  ASSUME NEW a \in DOMAIN Registry, NEW at \in Int
  PROVE  ReadsStamps(a, at)
<1>1. /\ Registry[a].zone \in DOMAIN ZoneOffset /\ OffsetAt(a) \in Int
      /\ OffsetAt(a) = ZoneOffset[Registry[a].zone] * Hour
  BY RegistryFacts
<1>2. at + OffsetAt(a) - OffsetAt(a) = at
  BY <1>1
<1>3. ASSUME NEW layout
      PROVE  /\ Stamp(a, at, layout).layout = layout /\ Stamp(a, at, layout).offset = OffsetAt(a)
             /\ Read(Stamp(a, at, layout), OffsetAt(a)) = There(a, at)
  <2>1. /\ Stamp(a, at, layout).layout = layout /\ Stamp(a, at, layout).offset = OffsetAt(a)
        /\ Stamp(a, at, layout).wall = at + OffsetAt(a)
    BY DEF Stamp
  <2> DEFINE x == Stamp(a, at, layout)   o == OffsetAt(a)
             wall == x.wall
  <2>a. wall = at + o /\ o \in Int
    BY <1>1, <2>1, Zenon
  <2> HIDE DEF x, o, wall
  <2>b. wall - o = at
    BY ONLY <2>a, at \in Int
  <2>2. x.wall - o = at
    BY <2>b DEF wall
  <2>3. Read(x, o) = [at |-> at, offset |-> o]
    BY <2>2 DEF Read
  <2>4. QED
    BY <2>1, <2>3 DEF x, o, There
<1>4. \A x : {Read(x, o) : o \in {OffsetAt(a)}} = {Read(x, OffsetAt(a))}
  OBVIOUS
<1>5. \A x : {Read(x, o) : o \in {}} = {}
  OBVIOUS
<1>6. \A x : {Read(x, ZoneOffset[z] * Hour) : z \in {}} = {}
  OBVIOUS
<1>7. \A x : {Read(x, ZoneOffset[z] * Hour) : z \in {Registry[a].zone}} = {Read(x, OffsetAt(a))}
  BY <1>1
<1>8. ParseOffset(Stamp(a, at, "colon")) = {There(a, at)}
  BY <1>3, <1>4 DEF ParseOffset
<1>9. ParseCompactOffset(Stamp(a, at, "compact")) = {There(a, at)}
  BY <1>3, <1>4 DEF ParseCompactOffset
<1>10. {Registry[a].zone} \cap DOMAIN ZoneOffset = {Registry[a].zone}
  BY <1>1
<1>11. ParseInZone(Stamp(a, at, "naive"), Registry[a].zone) = {There(a, at)}
  BY <1>3, <1>7, <1>10 DEF ParseInZone
<1>12. ParseOffset(Stamp(a, at, "other")) = {} /\ ParseCompactOffset(Stamp(a, at, "other")) = {}
  BY <1>3, <1>5 DEF ParseOffset, ParseCompactOffset
<1>13. \A zone : ParseInZone(Stamp(a, at, "other"), zone) = {}
  BY <1>3, <1>6 DEF ParseInZone
<1>14. {Blank} \cap DOMAIN ZoneOffset = {}
  BY DEF Blank, ZoneOffset
<1>15. \A stamp : ParseInZone(stamp, Blank) = {}
  BY <1>6, <1>14 DEF ParseInZone
<1>16. QED
  BY <1>8, <1>9, <1>11, <1>12, <1>13, <1>15 DEF ReadsStamps

\* The times a record gives for its two ends.
Departs(item) ==
    There(From(item.journey), IF item.fault = "zero" THEN 0 ELSE Leaves(item.journey))
Lands(item) ==
    There(To(item.journey), IF item.fault = "backwards" THEN Leaves(item.journey)
                            ELSE Arrives(item.journey))

\* Each client reads both ends of a record, whatever its layout; a timestamp that cannot be read
\* is no time for any of them.
ReadsEnds(item) ==
    /\ item.fault # "unreadable" =>
          /\ ParseOffset(DepartureStamp(item, "colon")) = {Departs(item)}
          /\ ParseCompactOffset(DepartureStamp(item, "compact")) = {Departs(item)}
          /\ ParseInZone(DepartureStamp(item, "naive"), Registry[From(item.journey)].zone)
                = {Departs(item)}
    /\ item.fault = "unreadable" =>
          /\ ParseOffset(DepartureStamp(item, "colon")) = {}
          /\ ParseCompactOffset(DepartureStamp(item, "compact")) = {}
          /\ ParseInZone(DepartureStamp(item, "naive"), Registry[From(item.journey)].zone) = {}
    /\ ParseOffset(ArrivalStamp(item, "colon")) = {Lands(item)}
    /\ ParseCompactOffset(ArrivalStamp(item, "compact")) = {Lands(item)}
    /\ ParseInZone(ArrivalStamp(item, "naive"), Registry[To(item.journey)].zone) = {Lands(item)}
    /\ ParseInZone(ArrivalStamp(item, "naive"), Blank) = {}

\* Where and when the two ends of a journey are.
LEMMA EndsOfJourneys ==
  ASSUME NEW j, Flies(j)
  PROVE  /\ From(j) \in DOMAIN Registry /\ To(j) \in DOMAIN Registry /\ From(j) # To(j)
         /\ Leaves(j) \in Nat \ {0} /\ Arrives(j) \in Nat /\ Leaves(j) < Arrives(j)
<1>1. LegByLeg(j) /\ Lasts(j)
  BY LegsOfJourneys, LengthOfJourneys
<1>2. Len(j.legs) \in Nat \ {0} /\ From(j) = j.legs[1].from /\ To(j) = j.legs[Len(j.legs)].to
  BY <1>1, Zenon DEF LegByLeg
<1>3. 1 \in 1 .. Len(j.legs) /\ Len(j.legs) \in 1 .. Len(j.legs)
  BY <1>2
<1>4. From(j) \in DOMAIN Registry /\ To(j) \in DOMAIN Registry
  BY <1>1, <1>2, <1>3, Zenon DEF LegByLeg
<1>5. From(j) # To(j)
  BY Zenon DEF Flies
<1>6. Leaves(j) \in Nat \ {0} /\ Arrives(j) \in Nat /\ Leaves(j) < Arrives(j)
  BY <1>1, Zenon DEF Lasts
<1>7. QED
  BY <1>4, <1>5, <1>6

\* The stamps of every item at its ends are read back as they stand in the record.
LEMMA EndsAreRead ==
  ASSUME NEW item, IsItem(item)
  PROVE  ReadsEnds(item)
<1> DEFINE j == item.journey
<1>1. /\ From(j) \in DOMAIN Registry /\ To(j) \in DOMAIN Registry
      /\ Leaves(j) \in Int /\ Arrives(j) \in Int /\ 0 \in Int /\ ZeroTime.at = 0
  BY EndsOfJourneys DEF IsItem, ZeroTime
<1>2. CASE item.fault = "unreadable"
  <2>1. \A layout : DepartureStamp(item, layout) = Stamp(From(j), Leaves(j), "other")
    BY <1>2 DEF DepartureStamp
  <2>2. ReadsStamps(From(j), Leaves(j)) /\ ReadsStamps(To(j), Arrives(j))
    BY <1>1, StampsAreRead
  <2>3. \A layout : ArrivalStamp(item, layout) = Stamp(To(j), Arrives(j), layout)
    BY <1>2 DEF ArrivalStamp
  <2>4. Lands(item) = There(To(j), Arrives(j))
    BY <1>2 DEF Lands
  <2>5. QED
    BY <1>2, <2>1, <2>2, <2>3, <2>4 DEF ReadsEnds, ReadsStamps
<1>3. CASE item.fault # "unreadable"
  <2> DEFINE at == IF item.fault = "zero" THEN 0 ELSE Leaves(j)
             to == IF item.fault = "backwards" THEN Leaves(j) ELSE Arrives(j)
  <2>1. at \in Int /\ to \in Int
    BY <1>1
  <2>2. \A layout : DepartureStamp(item, layout) = Stamp(From(j), at, layout)
    BY <1>1, <1>3 DEF DepartureStamp
  <2>3. \A layout : ArrivalStamp(item, layout) = Stamp(To(j), to, layout)
    BY DEF ArrivalStamp
  <2>4. Departs(item) = There(From(j), at) /\ Lands(item) = There(To(j), to)
    BY DEF Departs, Lands
  <2> HIDE DEF at, to
  <2>5. ReadsStamps(From(j), at) /\ ReadsStamps(To(j), to)
    BY <1>1, <2>1, StampsAreRead
  <2>6. QED
    BY <1>3, <2>2, <2>3, <2>4, <2>5 DEF ReadsEnds, ReadsStamps
<1>4. QED
  BY <1>2, <1>3

-----------------------------------------------------------------------------
(* Waits between legs, and records of a single leg.                        *)

\* The waits a summary lists, or the zeros that stand for prose nobody can read.
WaitsTold(ws, item) ==
    /\ Len(ws) = Len(Changes(item.journey))
    /\ \/ \A i \in 1 .. Len(ws) : ws[i] = DeclaredWait(item, i)
       \/ item.fault = "prose" /\ \A i \in 1 .. Len(ws) : ws[i] = 0

\* What those waits come to: what the journey spends on the ground, but for their rounding, and
\* less than it lasts; only a wait that is told as long as the journey itself is too long.
WaitsComeTo(ws, item) ==
    /\ Total(ws) \in Nat
    /\ item.fault # "overlong" /\ (\A i \in 1 .. Len(ws) : ws[i] = DeclaredWait(item, i)) =>
          2 * Total(ws) - OnGround(item.journey) \in 0 .. Len(ws)
    /\ item.fault = "overlong" /\ Connecting(item.journey) =>
          Total(ws) >= Rounded(Duration(item.journey))
    /\ item.fault # "overlong" \/ ~Connecting(item.journey) =>
          Total(ws) < Rounded(Duration(item.journey))
    /\ \A i \in 1 .. Len(ws) : ws[i] \in Nat
    /\ ~Connecting(item.journey) => Total(ws) = 0

\* The sum of the waits a record lists, for every number of stops.
LEMMA SumOfWaits ==
  ASSUME NEW item, IsItem(item), NEW ws, WaitsTold(ws, item)
  PROVE  WaitsComeTo(ws, item)
<1> DEFINE j == item.journey
           n == Len(j.legs)
           m == Len(ws)
           D == Duration(j)
           R == Rounded(D)
           hs == [i \in DOMAIN Changes(j) |-> Wait(j, i)]
<1>1. LegByLeg(j) /\ Lasts(j)
  BY LegsOfJourneys, LengthOfJourneys DEF IsItem
<1>2. /\ n \in Nat \ {0} /\ m = n - 1 /\ m \in Nat
      /\ Connecting(j) <=> m > 0
      /\ DOMAIN Changes(j) = 1 .. m
  BY <1>1 DEF LegByLeg, WaitsTold, Connecting
<1>3. \A i \in 1 .. m : Wait(j, i) \in Nat
  BY <1>1, <1>2 DEF LegByLeg
<1>4. Len(hs) = m /\ (\A i \in 1 .. m : hs[i] = Wait(j, i)) /\ OnGround(j) = Total(hs)
  BY <1>2 DEF OnGround
<1> HIDE DEF hs, m, n
<1>5. /\ D \in Nat /\ D >= 1 /\ OnGround(j) \in Nat /\ Total(Flown(j)) \in Nat
      /\ Total(Flown(j)) >= n
      /\ D = Total(Flown(j)) + OnGround(j)
  BY <1>1 DEF Lasts, n
<1>6. R \in Nat /\ 2 * R - D \in 0 .. 1 /\ R >= 1
  BY <1>5, RoundedFacts
<1> HIDE DEF R, D
<1>7. \A i \in 1 .. m : Rounded(Wait(j, i)) \in Nat
                        /\ 2 * Rounded(Wait(j, i)) - Wait(j, i) \in 0 .. 1
  BY <1>3, RoundedFacts
<1>8. CASE item.fault # "overlong" /\ \A i \in 1 .. m : ws[i] = DeclaredWait(item, i)
  <2>1. \A i \in 1 .. m : ws[i] = Rounded(Wait(j, i))
    BY <1>8 DEF DeclaredWait
  <2>2. \A i \in 1 .. m : ws[i] \in Nat /\ hs[i] \in Nat /\ 2 * ws[i] - hs[i] \in 0 .. 1
    BY <2>1, <1>3, <1>4, <1>7
  <2>3. Total(ws) \in Nat /\ 2 * Total(ws) - Total(hs) \in 0 .. m
    <3>1. Len(ws) = m
      BY DEF m
    <3>2. QED
      BY <1>2, <1>4, <2>2, <3>1, SumsOfMinutes
  <2>4. Total(ws) < R
    BY <1>2, <1>4, <1>5, <1>6, <2>3
  <2>5. m = 0 => Total(ws) = 0
    BY <1>2, <2>2, SumsOfNaturals DEF m
  <2>6. QED
    BY <1>2, <1>4, <1>8, <2>2, <2>3, <2>4, <2>5 DEF WaitsComeTo, m, R, D
<1>9. CASE item.fault = "overlong" /\ \A i \in 1 .. m : ws[i] = DeclaredWait(item, i)
  <2>1. \A i \in 1 .. m : ws[i] = R /\ ws[i] \in Nat
    BY <1>6, <1>9 DEF DeclaredWait, R, D
  <2>2. Total(ws) \in Nat /\ (m > 0 => Total(ws) >= ws[1]) /\ (m = 0 => Total(ws) = 0)
    <3>1. Len(ws) = m
      BY DEF m
    <3>2. /\ Total(ws) \in Nat /\ (m > 0 => Total(ws) >= ws[1])
          /\ (\A i \in 1 .. m : ws[i] = 0) => Total(ws) = 0
      BY <1>2, <2>1, <3>1, SumsOfNaturals
    <3>3. QED
      BY <3>2
  <2>3. m > 0 => Total(ws) >= R
    BY <1>2, <2>1, <2>2
  <2>4. m = 0 => Total(ws) < R
    BY <1>6, <2>2
  <2>5. QED
    BY <1>2, <1>9, <2>1, <2>2, <2>3, <2>4 DEF WaitsComeTo, m, R, D
<1>10. CASE /\ item.fault = "prose" /\ \A i \in 1 .. m : ws[i] = 0
            /\ ~\A i \in 1 .. m : ws[i] = DeclaredWait(item, i)
  <2>1. Total(ws) = 0
    BY <1>2, <1>10, SumsOfNaturals DEF m
  <2>2. \A i \in 1 .. m : ws[i] \in Nat
    BY <1>10
  <2>3. Total(ws) \in Nat /\ Total(ws) < R
    BY <1>6, <2>1
  <2>4. QED
    BY <1>10, <2>1, <2>2, <2>3 DEF WaitsComeTo, m, R, D
<1>11. QED
  BY <1>8, <1>9, <1>10 DEF WaitsTold, m

\* The codes of a record: tidy or not, they name the journey's cities, and two different airports.
CodesOf(item) ==
    /\ OriginCode(item) # Blank /\ OriginCode(item) # To(item.journey)
    /\ City(OriginCode(item)) = City(From(item.journey)) /\ City(From(item.journey)) # Blank
    /\ City(To(item.journey)) # Blank /\ To(item.journey) # Blank
    /\ DestinationCode(item) = (IF item.fault = "nowhere" THEN Blank ELSE To(item.journey))
    /\ OriginCode(item) # DestinationCode(item)

\* Every item is told with such codes.
LEMMA CodesOfItems ==
  ASSUME NEW item, IsItem(item)
  PROVE  CodesOf(item)
<1> DEFINE j == item.journey
<1>1. From(j) \in DOMAIN Registry /\ To(j) \in DOMAIN Registry /\ From(j) # To(j)
  BY EndsOfJourneys DEF IsItem
<1>2. /\ From(j) # Blank /\ To(j) # Blank /\ To(j) # "cgk"
      /\ City(From(j)) # Blank /\ City(To(j)) # Blank
  BY <1>1, RegistryFacts
<1>3. DestinationCode(item) = (IF item.fault = "nowhere" THEN Blank ELSE To(j))
  BY DEF DestinationCode
<1>4. City("cgk") = City("CGK")
  <2>1. Uppered("cgk") = "CGK" /\ Uppered("CGK") = "CGK"
    BY DEF Uppered, Upper
  <2>2. QED
    BY <2>1 DEF City
<1>5. CASE OriginCode(item) = From(j)
  BY <1>1, <1>2, <1>3, <1>5 DEF CodesOf
<1>6. CASE OriginCode(item) = "cgk" /\ From(j) = "CGK"
  <2>1. "cgk" # Blank
    BY DEF Blank
  <2>2. QED
    BY <1>2, <1>3, <1>4, <1>6, <2>1 DEF CodesOf
<1>7. QED
  BY <1>5, <1>6 DEF OriginCode

\* One segment with the ends of a record.
Seg(item, a, b) ==
    [from |-> [airport |-> OriginCode(item), city |-> a],
     to |-> [airport |-> DestinationCode(item), city |-> b],
     depart |-> Departs(item), arrive |-> Lands(item)]

\* The waits of a flight with listed stops.
Waits(f) == [i \in DOMAIN f.stopovers |-> f.stopovers[i].wait]

\* A flight made of a record that gives its two ends, and lists the stops between them.
OneLeg(f, item) ==
    /\ \E a, b : /\ f.segments = <<Seg(item, a, b)>> /\ a = City(From(item.journey))
                 /\ item.fault # "nowhere" => b = City(To(item.journey))
    /\ Len(f.stopovers) = Len(Changes(item.journey))
    /\ DOMAIN f.stopovers = DOMAIN Changes(item.journey)
    /\ \A i \in DOMAIN Changes(item.journey) :
          f.stopovers[i].airport.airport = Changes(item.journey)[i]
    /\ WaitsTold(Waits(f), item)
    /\ f.provider # "Batik Air" \/ item.fault # "prose" =>
          \A i \in 1 .. Len(Changes(item.journey)) : Waits(f)[i] = DeclaredWait(item, i)
    /\ f.price.amount = Amount(item) /\ f.seats = SeatsLeft(item)
    /\ f.price = [amount |-> f.price.amount, currency |-> f.price.currency]
    /\ f.price.currency \in {Blank, "IDR"} /\ f.cabin = item.journey.cabin

\* What nothing speaks against showing.
Sellable(f, item) ==
    /\ item.fault \notin {"zero", "backwards", "unpaid", "nowhere", "oversold"}
    /\ f.price.currency # Blank
    /\ item.fault # "overlong" \/ ~Connecting(item.journey)

\* The figures of such a flight.
OneLegFigures(f, item) ==
    /\ ~HasTimedLegs(f) /\ f.segments # <<>> /\ Len(f.segments) = 1 /\ DOMAIN f.segments = {1}
    /\ Stops(f) = Len(Changes(item.journey))
    /\ \E a, b : /\ f.segments[1] = Seg(item, a, b) /\ a = City(From(item.journey))
                 /\ item.fault # "nowhere" => b = City(To(item.journey))
    /\ Head(f.segments) = f.segments[1] /\ Last(f.segments) = f.segments[1]
    /\ item.fault \notin {"zero", "backwards"} => TotalMinutes(f) = Rounded(Duration(item.journey))
    /\ LayoverMinutes(f) = Total(Waits(f))

\* Every flight of one leg that tells an item has these figures.
LEMMA FiguresOfOneLeg ==
  ASSUME NEW item, IsItem(item), NEW f, OneLeg(f, item)
  PROVE  OneLegFigures(f, item)
<1> DEFINE j == item.journey
<1>1. PICK a, b : /\ f.segments = <<Seg(item, a, b)>> /\ a = City(From(j))
                  /\ item.fault # "nowhere" => b = City(To(j))
  BY DEF OneLeg
<1> DEFINE s == Seg(item, a, b)
<1>2. f.segments = <<s>>
  BY <1>1
<1>a. s.depart = Departs(item) /\ s.arrive = Lands(item)
  BY DEF Seg
<1> HIDE DEF s
<1>3. /\ Len(f.segments) = 1 /\ DOMAIN f.segments = {1} /\ f.segments[1] = s /\ f.segments # <<>>
      /\ Head(f.segments) = s /\ Last(f.segments) = s
  BY <1>2 DEF Last
<1>4. ~HasTimedLegs(f)
  BY <1>3 DEF HasTimedLegs
<1>5. Stops(f) = Len(Changes(j))
  BY <1>4 DEF Stops, OneLeg
<1>6. ASSUME item.fault \notin {"zero", "backwards"}
      PROVE  TotalMinutes(f) = Rounded(Duration(j))
  <2>1. Departs(item).at = Leaves(j) /\ Lands(item).at = Arrives(j)
    BY <1>6 DEF Departs, Lands, There
  <2>2. TotalMinutes(f) = Rounded(s.arrive.at - s.depart.at)
    BY <1>3, Zenon DEF TotalMinutes, DepartAt, ArriveAt, DurationMinutes
  <2>3. QED
    BY <1>a, <2>1, <2>2, Zenon DEF Duration
<1>7. LayoverMinutes(f) = Total(Waits(f))
  BY <1>4, Zenon DEF LayoverMinutes, Waits
<1>8. \E c, d : /\ f.segments[1] = Seg(item, c, d) /\ c = City(From(j))
                /\ item.fault # "nowhere" => d = City(To(j))
  BY <1>1, <1>3 DEF s
<1>9. QED
  BY <1>3, <1>4, <1>5, <1>6, <1>7, <1>8, Zenon DEF OneLegFigures

\* Validate accepts such a flight if and only if nothing speaks against it.
LEMMA ValidOneLeg ==
  ASSUME NEW item, IsItem(item), NEW f, OneLeg(f, item)
  PROVE  Valid(f) <=> Sellable(f, item)
<1> DEFINE j == item.journey
           s == f.segments[1]
<1>1. OneLegFigures(f, item) /\ CodesOf(item)
  BY FiguresOfOneLeg, CodesOfItems
<1>2. /\ s.from.airport = OriginCode(item) /\ s.to.airport = DestinationCode(item)
      /\ s.depart.at = Departs(item).at /\ s.arrive.at = Lands(item).at
  BY <1>1 DEF OneLegFigures, Seg
<1>3. Leaves(j) \in Nat \ {0} /\ Arrives(j) \in Nat /\ Leaves(j) < Arrives(j)
  BY EndsOfJourneys DEF IsItem
<1>4. SegmentIsCoherent(s) <=> item.fault \notin {"zero", "backwards", "nowhere"}
  <2>1. /\ Departs(item).at = IF item.fault = "zero" THEN 0 ELSE Leaves(j)
        /\ Lands(item).at = IF item.fault = "backwards" THEN Leaves(j) ELSE Arrives(j)
    BY DEF Departs, Lands, There
  <2>2. CASE item.fault = "zero"
    BY <1>2, <2>1, <2>2 DEF SegmentIsCoherent, ZeroTime
  <2>3. CASE item.fault = "backwards"
    BY <1>2, <1>3, <2>1, <2>3 DEF SegmentIsCoherent
  <2>4. CASE item.fault = "nowhere"
    BY <1>1, <1>2, <2>4 DEF SegmentIsCoherent, CodesOf
  <2>5. CASE item.fault \notin {"zero", "backwards", "nowhere"}
    <3>1. s.depart.at = Leaves(j) /\ s.arrive.at = Arrives(j)
      BY <1>2, <2>1, <2>5
    <3>2. s.from.airport # Blank /\ s.to.airport # Blank /\ s.from.airport # s.to.airport
      BY <1>1, <1>2, <2>5 DEF CodesOf
    <3>3. s.depart.at # 0 /\ s.arrive.at # 0 /\ s.arrive.at > s.depart.at
      BY <1>3, <3>1
    <3>4. QED
      BY <2>5, <3>2, <3>3 DEF SegmentIsCoherent, ZeroTime
  <2>6. QED
    BY <2>2, <2>3, <2>4, <2>5
<1>5. FareIsUsable(f) <=> item.fault \notin {"unpaid", "oversold"} /\ f.price.currency # Blank
  <2>1. f.price.amount = Amount(item) /\ f.seats = SeatsLeft(item)
    BY DEF OneLeg
  <2>2. j.fare \in Nat \ {0} /\ j.seats \in Nat
    BY DEF IsItem, Flies, JourneyRec
  <2>3. Amount(item) > 0 <=> item.fault # "unpaid"
    BY <2>2 DEF Amount
  <2>4. SeatsLeft(item) >= 0 <=> item.fault # "oversold"
    BY <2>2 DEF SeatsLeft
  <2>5. QED
    BY <2>1, <2>3, <2>4 DEF FareIsUsable
<1>6. ASSUME item.fault \notin {"zero", "backwards"}
      PROVE  StopsAreCoherent(f) <=> item.fault # "overlong" \/ ~Connecting(j)
  <2>1. WaitsComeTo(Waits(f), item)
    BY SumOfWaits DEF OneLeg
  <2>2. /\ TotalMinutes(f) = Rounded(Duration(j)) /\ LayoverMinutes(f) = Total(Waits(f))
        /\ ~HasTimedLegs(f)
    BY <1>1, <1>6 DEF OneLegFigures
  <2>3. ASSUME NEW i \in DOMAIN f.stopovers
        PROVE  f.stopovers[i].airport.airport # Blank /\ f.stopovers[i].wait >= 0
    <3>1. i \in 1 .. Len(Changes(j)) /\ f.stopovers[i].airport.airport = Changes(j)[i]
          /\ DOMAIN Changes(j) = 1 .. Len(Changes(j)) /\ Changes(j) \in Seq(DOMAIN Registry)
      <4>1. LegByLeg(j)
        BY LegsOfJourneys DEF IsItem
      <4>2. DOMAIN Changes(j) = 1 .. Len(Changes(j)) /\ Changes(j) \in Seq(DOMAIN Registry)
        BY <4>1, Zenon DEF LegByLeg
      <4>3. i \in DOMAIN Changes(j) /\ f.stopovers[i].airport.airport = Changes(j)[i]
        BY Zenon DEF OneLeg
      <4>4. QED
        BY <4>2, <4>3, Zenon
    <3>2. Changes(j)[i] \in DOMAIN Registry
      BY <3>1
    <3>a. Waits(f)[i] = f.stopovers[i].wait
      BY DEF Waits
    <3>b. Len(Waits(f)) = Len(Changes(j))
      BY DEF OneLeg, WaitsTold
    <3>3. Waits(f)[i] = f.stopovers[i].wait /\ Len(Waits(f)) = Len(Changes(j))
      BY <3>a, <3>b
    <3>4. Waits(f)[i] \in Nat
      BY <2>1, <3>1, <3>3 DEF WaitsComeTo
    <3>5. QED
      BY <3>1, <3>2, <3>3, <3>4, RegistryFacts
  <2>4. StopsAreCoherent(f) <=> Total(Waits(f)) < Rounded(Duration(j))
    BY <2>2, <2>3, Zenon DEF StopsAreCoherent
  <2>5. Rounded(Duration(j)) \in Nat /\ Total(Waits(f)) \in Nat
    BY <2>1, LengthOfJourneys, RoundedFacts DEF Lasts, IsItem, WaitsComeTo
  <2>6. QED
    BY <2>1, <2>4, <2>5 DEF WaitsComeTo
<1>7. Valid(f) <=> SegmentIsCoherent(s) /\ FareIsUsable(f) /\ StopsAreCoherent(f)
  <2>1. f.segments # <<>> /\ DOMAIN f.segments = {1}
    BY <1>1 DEF OneLegFigures
  <2>2. ~(1 > 1)
    OBVIOUS
  <2>3. QED
    BY <2>1, <2>2, Zenon DEF Valid
<1>8. QED
  BY <1>4, <1>5, <1>6, <1>7 DEF Sellable

-----------------------------------------------------------------------------
(* What it is for a client to read a record rightly.                       *)

\* A view of the flight that was told: TellingsAgree, one flight at a time.
Agrees(view, item) ==
    LET j == item.journey
    IN  /\ IsAt(view.departure, From(j), Leaves(j))
        /\ IsAt(view.arrival, To(j), Arrives(j))
        /\ Within(view.total, Duration(j), 1)
        /\ view.stopAirports = Changes(j) /\ view.stops = Len(Changes(j))
        /\ ProseIsRead(view.provider, item) => Within(view.layover, OnGround(j), Len(j.legs) + 1)
        /\ view.price = [amount |-> j.fare, currency |-> "IDR"]
        /\ view.cabin = j.cabin /\ view.seats = j.seats

\* What a flight has to be for its view to agree.
SaysSo(f, item) ==
    LET j == item.journey
    IN  /\ Origin(f).airport = OriginCode(item) /\ Origin(f).city = City(From(j))
        /\ Destination(f).airport = To(j) /\ Destination(f).city = City(To(j))
        /\ DepartAt(f) = There(From(j), Leaves(j)) /\ ArriveAt(f) = There(To(j), Arrives(j))
        /\ TotalMinutes(f) = Rounded(Duration(j))
        /\ Stops(f) = Len(Changes(j)) /\ (Connecting(j) => StopAirports(f) = Changes(j))
        /\ LayoverMinutes(f) \in Int /\ (~Connecting(j) => LayoverMinutes(f) = 0)
        /\ f.provider # "Batik Air" \/ item.fault # "prose" =>
              2 * LayoverMinutes(f) - OnGround(j) \in -Len(j.legs) .. Len(j.legs)
        /\ f.price = [amount |-> j.fare, currency |-> "IDR"]
        /\ f.cabin = j.cabin /\ f.seats = j.seats /\ f.segments # <<>>

\* What the response shows of a flight that says what its item says agrees with the journey.
LEMMA ViewsAgree ==
  ASSUME NEW item, IsItem(item), NEW f, SaysSo(f, item), OriginCode(item) = From(item.journey)
  PROVE  Agrees(FlightView(f), item)
<1> DEFINE j == item.journey
           v == FlightView(f)
           n == Len(j.legs)
<1>1. /\ v.departure = [airport |-> Origin(f).airport, city |-> Origin(f).city,
                       time |-> DepartAt(f)]
      /\ v.arrival = [airport |-> Destination(f).airport, city |-> Destination(f).city,
                      time |-> ArriveAt(f)]
      /\ v.total = TotalMinutes(f) /\ v.stops = Stops(f) /\ v.price = f.price /\ v.seats = f.seats
      /\ v.cabin = f.cabin /\ v.provider = f.provider
      /\ v.stopAirports = IF Stops(f) > 0 THEN StopAirports(f) ELSE <<>>
      /\ v.layover = IF Stops(f) > 0 THEN LayoverMinutes(f) ELSE 0
  BY DEF FlightView, EndpointView
<1> HIDE DEF v
<1>2. LegByLeg(j) /\ Lasts(j)
  BY LegsOfJourneys, LengthOfJourneys DEF IsItem
<1>3. /\ n \in Nat \ {0} /\ Len(Changes(j)) = n - 1 /\ Changes(j) \in Seq(DOMAIN Registry)
      /\ Connecting(j) <=> Stops(f) > 0
  <2>1. n \in Nat \ {0} /\ Len(Changes(j)) = n - 1 /\ Changes(j) \in Seq(DOMAIN Registry)
    BY <1>2, Zenon DEF LegByLeg
  <2>2. Stops(f) = Len(Changes(j)) /\ (Connecting(j) <=> n > 1)
    BY Zenon DEF SaysSo, Connecting
  <2>3. QED
    BY <2>1, <2>2
<1>4. Duration(j) \in Nat /\ OnGround(j) \in Nat
  BY <1>2 DEF Lasts
<1>5. IsAt(v.departure, From(j), Leaves(j)) /\ IsAt(v.arrival, To(j), Arrives(j))
  <2>1. /\ Origin(f).airport = From(j) /\ Origin(f).city = City(From(j))
        /\ Destination(f).airport = To(j) /\ Destination(f).city = City(To(j))
        /\ DepartAt(f) = There(From(j), Leaves(j)) /\ ArriveAt(f) = There(To(j), Arrives(j))
    BY Zenon DEF SaysSo
  <2>2. /\ v.departure.airport = From(j) /\ v.departure.city = City(From(j))
        /\ v.departure.time = There(From(j), Leaves(j))
        /\ v.arrival.airport = To(j) /\ v.arrival.city = City(To(j))
        /\ v.arrival.time = There(To(j), Arrives(j))
    BY <1>1, <2>1
  <2>3. QED
    BY <2>2, Zenon DEF IsAt, There
<1>6. Within(v.total, Duration(j), 1)
  <2>1. 2 * Rounded(Duration(j)) - Duration(j) \in 0 .. 1 /\ Rounded(Duration(j)) \in Nat
    BY <1>4, RoundedFacts
  <2>2. v.total = Rounded(Duration(j))
    BY <1>1 DEF SaysSo
  <2>3. QED
    BY <1>4, <2>1, <2>2 DEF Within, Minute
<1>7. v.stopAirports = Changes(j) /\ v.stops = Len(Changes(j))
  <2>1. ~(Stops(f) > 0) => Changes(j) = <<>>
    <3>1. Stops(f) = Len(Changes(j))
      BY DEF SaysSo
    <3>2. QED
      BY <1>3, <3>1
  <2>2. QED
    BY <1>1, <1>3, <2>1 DEF SaysSo
<1>8. ASSUME ProseIsRead(v.provider, item)
      PROVE  Within(v.layover, OnGround(j), n + 1)
  <2>1. f.provider # "Batik Air" \/ item.fault # "prose"
    BY <1>1, <1>8 DEF ProseIsRead
  <2>2. 2 * LayoverMinutes(f) - OnGround(j) \in -n .. n /\ LayoverMinutes(f) \in Int
    BY <2>1 DEF SaysSo
  <2>3. v.layover = LayoverMinutes(f)
    BY <1>1, <1>3 DEF SaysSo
  <2>4. QED
    BY <1>3, <1>4, <2>2, <2>3 DEF Within, Minute
<1>9. /\ v.price = [amount |-> j.fare, currency |-> "IDR"]
      /\ v.cabin = j.cabin /\ v.seats = j.seats
  BY <1>1 DEF SaysSo
<1>10. QED
  BY <1>5, <1>6, <1>7, <1>8, <1>9 DEF Agrees, v

\* A usable record with two ends says so.
LEMMA OneLegSaysSo ==
  ASSUME NEW item, IsItem(item), NEW f, OneLeg(f, item), Valid(f)
  PROVE  SaysSo(f, item)
<1> DEFINE j == item.journey
           s == f.segments[1]
           n == Len(j.legs)
<1>1. OneLegFigures(f, item) /\ CodesOf(item) /\ Sellable(f, item) /\ LegByLeg(j) /\ Lasts(j)
  BY FiguresOfOneLeg, CodesOfItems, ValidOneLeg, LegsOfJourneys, LengthOfJourneys DEF IsItem
<1>2. item.fault \notin {"zero", "backwards", "unpaid", "nowhere", "oversold"}
  BY <1>1 DEF Sellable
<1>3. PICK a, b : s = Seg(item, a, b) /\ a = City(From(j)) /\ b = City(To(j))
  BY <1>1, <1>2 DEF OneLegFigures
<1>4. /\ s.from.airport = OriginCode(item) /\ s.from.city = City(From(j))
      /\ s.to.airport = DestinationCode(item) /\ s.to.city = City(To(j))
      /\ s.depart = Departs(item) /\ s.arrive = Lands(item)
  BY <1>3 DEF Seg
<1>5. Departs(item) = There(From(j), Leaves(j)) /\ Lands(item) = There(To(j), Arrives(j))
      /\ DestinationCode(item) = To(j)
  BY <1>1, <1>2 DEF Departs, Lands, CodesOf
<1>6. Head(f.segments) = s /\ Last(f.segments) = s /\ f.segments # <<>>
  BY <1>1 DEF OneLegFigures
<1> HIDE DEF s
<1>7. /\ Origin(f).airport = OriginCode(item) /\ Origin(f).city = City(From(j))
      /\ Destination(f).airport = To(j) /\ Destination(f).city = City(To(j))
      /\ DepartAt(f) = There(From(j), Leaves(j)) /\ ArriveAt(f) = There(To(j), Arrives(j))
  BY <1>4, <1>5, <1>6 DEF Origin, Destination, DepartAt, ArriveAt
<1>8. /\ TotalMinutes(f) = Rounded(Duration(j)) /\ Stops(f) = Len(Changes(j))
      /\ LayoverMinutes(f) = Total(Waits(f)) /\ ~HasTimedLegs(f)
  BY <1>1, <1>2 DEF OneLegFigures
<1>9. /\ n \in Nat \ {0} /\ Len(Changes(j)) = n - 1 /\ DOMAIN Changes(j) = 1 .. n - 1
      /\ Changes(j) \in Seq(DOMAIN Registry)
  BY <1>1 DEF LegByLeg
<1>10. StopAirports(f) = Changes(j)
  <2>1. StopAirports(f) = [i \in DOMAIN f.stopovers |-> f.stopovers[i].airport.airport]
    BY <1>8 DEF StopAirports
  <2>2. /\ DOMAIN f.stopovers = DOMAIN Changes(j)
        /\ \A i \in DOMAIN Changes(j) : f.stopovers[i].airport.airport = Changes(j)[i]
    BY DEF OneLeg
  <2>3. Changes(j) = [i \in DOMAIN Changes(j) |-> Changes(j)[i]]
    BY <1>9
  <2>4. [i \in DOMAIN Changes(j) |-> f.stopovers[i].airport.airport]
           = [i \in DOMAIN Changes(j) |-> Changes(j)[i]]
    BY <2>2
  <2>5. QED
    BY <2>1, <2>2, <2>3, <2>4
<1>11. WaitsTold(Waits(f), item) /\ WaitsComeTo(Waits(f), item)
  BY SumOfWaits DEF OneLeg
<1>12. LayoverMinutes(f) \in Int /\ (~Connecting(j) => LayoverMinutes(f) = 0)
  BY <1>8, <1>11 DEF WaitsComeTo
<1>13. ASSUME f.provider # "Batik Air" \/ item.fault # "prose"
       PROVE  2 * LayoverMinutes(f) - OnGround(j) \in -n .. n
  <2>1. Len(Waits(f)) = n - 1
    BY <1>9, <1>11 DEF WaitsTold
  <2>2. \A i \in 1 .. Len(Waits(f)) : Waits(f)[i] = DeclaredWait(item, i)
    BY <1>9, <1>13, <2>1, Zenon DEF OneLeg
  <2>3. OnGround(j) \in Nat /\ Total(Waits(f)) \in Nat
    BY <1>1, <1>11 DEF Lasts, WaitsComeTo
  <2>4. CASE item.fault # "overlong"
    <3>1. 2 * Total(Waits(f)) - OnGround(j) \in 0 .. n - 1
      BY <1>11, <2>1, <2>2, <2>4 DEF WaitsComeTo
    <3>2. QED
      BY <1>8, <1>9, <2>3, <3>1
  <2>5. CASE ~Connecting(j)
    <3>1. n = 1 /\ Total(Waits(f)) = 0
      <4>1. ~(n > 1)
        BY <2>5, Zenon DEF Connecting
      <4>2. QED
        <5>0. n \in Nat \ {0}
          BY <1>9
        <5> HIDE DEF n
        <5>1. n = 1
          BY <4>1, <5>0
        <5>2. Total(Waits(f)) = 0
          BY <1>11, <2>5, Zenon DEF WaitsComeTo
        <5>3. QED
          BY <5>1, <5>2
    <3>2. OnGround(j) = 0
      <4>1. DOMAIN Changes(j) = {}
        BY <1>9, <3>1
      <4>2. Len([i \in DOMAIN Changes(j) |-> Wait(j, i)]) = 0
        BY <4>1
      <4>3. QED
        BY <4>1, <4>2, SumsOfNaturals DEF OnGround
    <3>3. QED
      BY <1>8, <3>1, <3>2
  <2>6. QED
    BY <1>1, <2>4, <2>5 DEF Sellable
<1>14. f.price = [amount |-> j.fare, currency |-> "IDR"]
  <2>1. /\ f.price.amount = Amount(item) /\ f.price.currency = "IDR"
        /\ f.price = [amount |-> f.price.amount, currency |-> f.price.currency]
    BY <1>1 DEF OneLeg, Sellable
  <2>2. Amount(item) = j.fare
    BY <1>2 DEF Amount
  <2>3. QED
    BY <2>1, <2>2
<1>15. f.cabin = j.cabin /\ f.seats = j.seats
  BY <1>2 DEF OneLeg, SeatsLeft
<1>16. QED
  BY <1>6, <1>7, <1>8, <1>10, <1>12, <1>13, <1>14, <1>15, Zenon DEF SaysSo

\* A flight that says what its record says, and warns of what the record says wrongly.
ToldRight(client, item, f) ==
    /\ f.provider = client /\ f.number = item.journey.number
    /\ Valid(f) /\ SaysSo(f, item)
    /\ f.warnings # {} <=> Misstated(client, item)

\* A record is a flight that says what it says, or nothing if the client cannot use it.
ReadRight(client, item, flights) ==
    \/ Fatal(client, item) /\ flights = {}
    \/ ~Fatal(client, item) /\ \E f : flights = {f} /\ ToldRight(client, item, f)

Rec(provider, number, segments, stopovers, price, seats, cabin, warnings) ==
    [provider |-> provider, number |-> number, segments |-> segments, stopovers |-> stopovers,
     price |-> price, seats |-> seats, cabin |-> cabin, warnings |-> warnings]

\* A warning is there if something is odd.
LEMMA WarningFacts ==
  ASSUME NEW kind, NEW odd
  PROVE  Warning(kind, odd) # {} <=> odd
BY DEF Warning

\* The figures a summary declares are those of the flight, unless they are misstated.
DeclaredRight(f, item) ==
    /\ DeclaredMinutes(item) \in Nat /\ DeclaredMinutes(item) > 0
    /\ DeclaredMinutes(item) # TotalMinutes(f) <=> item.fault = "duration"
    /\ Stops(f) \in Nat /\ (Stops(f) > 0 <=> Connecting(item.journey))
    /\ DeclaredStops(item) = IF item.fault = "stops" THEN Stops(f) + 1 ELSE Stops(f)

\* A flight of one leg can be compared with the figures its record declares.
LEMMA DeclaredFigures ==
  ASSUME NEW item, IsItem(item), NEW f, OneLeg(f, item),
         item.fault \notin {"zero", "backwards"}
  PROVE  DeclaredRight(f, item)
<1> DEFINE j == item.journey
           R == Rounded(Duration(j))
<1>1. OneLegFigures(f, item) /\ LegByLeg(j) /\ Lasts(j)
  BY FiguresOfOneLeg, LegsOfJourneys, LengthOfJourneys DEF IsItem
<1>2. TotalMinutes(f) = R /\ Stops(f) = Len(Changes(j))
  BY <1>1, Zenon DEF OneLegFigures
<1>3. R \in Nat /\ R >= 1
  <2>1. Duration(j) \in Nat /\ Duration(j) >= 1
    BY <1>1, Zenon DEF Lasts
  <2>2. QED
    BY <2>1, RoundedFacts
<1>4. Stops(f) = Len(j.legs) - 1 /\ Len(j.legs) \in Nat \ {0}
  BY <1>1, <1>2, Zenon DEF LegByLeg
<1>5. Connecting(j) <=> Len(j.legs) > 1
  BY Zenon DEF Connecting
<1>6. Stops(f) \in Nat /\ (Stops(f) > 0 <=> Connecting(j))
  BY <1>4, <1>5
<1>7. DeclaredMinutes(item) = IF item.fault = "duration" THEN R + 5 ELSE R
  BY <1>3 DEF DeclaredMinutes
<1>8. DeclaredStops(item) = IF item.fault = "stops" THEN Stops(f) + 1 ELSE Stops(f)
  BY <1>2, <1>6 DEF DeclaredStops
<1> HIDE DEF R
<1>9. /\ DeclaredMinutes(item) \in Nat /\ DeclaredMinutes(item) > 0
      /\ DeclaredMinutes(item) # R <=> item.fault = "duration"
  BY <1>3, <1>7
<1>10. QED
  BY <1>2, <1>6, <1>8, <1>9 DEF DeclaredRight

\* A flight that is made of a record's two ends and stops, of its fare, its seats and its cabin;
\* only Batik Air makes a wait of zero of prose it cannot read.
Made(provider, item, b, currency, ws, warnings) ==
    LET j == item.journey
    IN  Rec(provider, j.number, <<Seg(item, City(From(j)), b)>>,
            [i \in DOMAIN Changes(j) |->
                [airport |-> PlaceOf(Changes(j)[i], Blank), wait |-> ws[i]]],
            [amount |-> Amount(item), currency |-> currency], SeatsLeft(item), j.cabin, warnings)

\* The waits of a record: as declared, or none where prose could not be read.
Listed(provider, item, ws) ==
    \/ \A i \in DOMAIN Changes(item.journey) : ws[i] = DeclaredWait(item, i)
    \/ /\ provider = "Batik Air" /\ item.fault = "prose"
       /\ \A i \in DOMAIN Changes(item.journey) : ws[i] = 0

\* A record of one leg with its waits as declared tells the item.
LEMMA RecordsOfOneLeg ==
  ASSUME NEW item, IsItem(item), NEW provider, NEW b, NEW currency \in {Blank, "IDR"}, NEW ws,
         NEW warnings, Listed(provider, item, ws),
         item.fault # "nowhere" => b = City(To(item.journey))
  PROVE  OneLeg(Made(provider, item, b, currency, ws, warnings), item)
<1> DEFINE f == Made(provider, item, b, currency, ws, warnings)
           a == City(From(item.journey))
<1> DEFINE j == item.journey
           m == Len(Changes(j))
           stops == [i \in DOMAIN Changes(j) |->
                        [airport |-> PlaceOf(Changes(j)[i], Blank), wait |-> ws[i]]]
<1>1. LegByLeg(j)
  BY LegsOfJourneys DEF IsItem
<1>2. m \in Nat /\ DOMAIN Changes(j) = 1 .. m
  <2>1. /\ Len(j.legs) \in Nat \ {0} /\ m = Len(j.legs) - 1
        /\ DOMAIN Changes(j) = 1 .. Len(j.legs) - 1
    BY <1>1, Zenon DEF LegByLeg
  <2> HIDE DEF m
  <2>2. QED
    BY ONLY <2>1
<1>3. /\ f.provider = provider /\ f.segments = <<Seg(item, a, b)>> /\ f.stopovers = stops
      /\ f.price = [amount |-> Amount(item), currency |-> currency] /\ f.seats = SeatsLeft(item)
      /\ f.cabin = j.cabin
  BY DEF Rec, Made
<1> HIDE DEF f
<1>a. m = Len(Changes(j))
  OBVIOUS
<1> HIDE DEF m
<1>4. Len(stops) = m /\ DOMAIN stops = DOMAIN Changes(j)
  <2>1. stops = [i \in 1 .. m |-> [airport |-> PlaceOf(Changes(j)[i], Blank), wait |-> ws[i]]]
    BY <1>2
  <2>2. QED
    BY ONLY <1>2, <2>1
<1>5. ASSUME NEW i \in DOMAIN Changes(j)
      PROVE  stops[i].airport.airport = Changes(j)[i] /\ stops[i].wait = ws[i]
  <2>1. stops[i] = [airport |-> PlaceOf(Changes(j)[i], Blank), wait |-> ws[i]]
    OBVIOUS
  <2>2. PlaceOf(Changes(j)[i], Blank).airport = Changes(j)[i]
    BY DEF PlaceOf
  <2> HIDE DEF stops
  <2>3. QED
    BY ONLY <2>1, <2>2
<1> HIDE DEF stops
<1>6. Waits(f) = [i \in 1 .. m |-> ws[i]]
  BY <1>2, <1>3, <1>4, <1>5 DEF Waits
<1>7. Len(Waits(f)) = m /\ \A i \in 1 .. m : Waits(f)[i] = ws[i]
  <2>1. /\ Len([i \in 1 .. m |-> ws[i]]) = m
        /\ \A i \in 1 .. m : [k \in 1 .. m |-> ws[k]][i] = ws[i]
    BY ONLY <1>2
  <2>2. QED
    BY ONLY <1>6, <2>1, Zenon
<1>8. WaitsTold(Waits(f), item)
  <2>1. CASE \A i \in DOMAIN Changes(j) : ws[i] = DeclaredWait(item, i)
    BY <1>2, <1>7, <1>a, <2>1, Zenon DEF WaitsTold
  <2>2. CASE item.fault = "prose" /\ \A i \in DOMAIN Changes(j) : ws[i] = 0
    BY <1>2, <1>7, <1>a, <2>2, Zenon DEF WaitsTold
  <2>3. QED
    BY <2>1, <2>2 DEF Listed
<1>9. f.provider # "Batik Air" \/ item.fault # "prose" =>
         \A i \in 1 .. m : Waits(f)[i] = DeclaredWait(item, i)
  BY <1>2, <1>3, <1>7, Zenon DEF Listed
<1>10. /\ f.price.amount = Amount(item) /\ f.price.currency = currency
       /\ f.price = [amount |-> f.price.amount, currency |-> f.price.currency]
  <2>1. f.price = [amount |-> Amount(item), currency |-> currency]
    BY <1>3
  <2>2. QED
    BY ONLY <2>1
<1>11. OneLeg(f, item)
  BY <1>a, <1>3, <1>4, <1>5, <1>8, <1>9, <1>10, Zenon DEF OneLeg
<1>12. QED
  BY <1>11 DEF f

\* Such a flight is rightly read, if its warnings are right.
LEMMA OneLegReadRight ==
  ASSUME NEW client, NEW item, IsItem(item), NEW f, OneLeg(f, item),
         f.provider = client, f.number = item.journey.number,
         item.fault \notin {"zero", "backwards"} => (f.warnings # {} <=> Misstated(client, item)),
         Sellable(f, item) <=> ~Fatal(client, item),
         NEW flights, flights = {h \in {f} : Valid(h)}
  PROVE  ReadRight(client, item, flights)
<1>1. Valid(f) <=> Sellable(f, item)
  BY ValidOneLeg
<1>2. CASE Valid(f)
  <2>1. flights = {f} /\ ~Fatal(client, item)
    BY <1>1, <1>2
  <2>2. SaysSo(f, item)
    BY <1>2, OneLegSaysSo
  <2>3. item.fault \notin {"zero", "backwards"}
    BY <1>1, <1>2 DEF Sellable
  <2>4. ToldRight(client, item, f)
    BY <1>2, <2>2, <2>3, Zenon DEF ToldRight
  <2>5. QED
    BY <2>1, <2>4 DEF ReadRight
<1>3. CASE ~Valid(f)
  <2>1. flights = {} /\ Fatal(client, item)
    BY <1>1, <1>3
  <2>2. QED
    BY <2>1 DEF ReadRight
<1>4. QED
  BY <1>2, <1>3

-----------------------------------------------------------------------------
(* Lion Air.                                                               *)

\* A flight with other warnings.
Warned(f, w) == [f EXCEPT !.warnings = w]

\* The fields a client fills in, whatever it warns of.
HasFields(f, provider, item, currency, w) ==
    /\ f.provider = provider /\ f.number = item.journey.number /\ f.warnings = w
    /\ f.price.currency = currency

\* The same record with other warnings.
WarnsInstead(provider, item, b, currency, ws, v, w) ==
    LET f == Made(provider, item, b, currency, ws, w)
    IN  /\ Warned(Made(provider, item, b, currency, ws, v), w) = f
        /\ HasFields(f, provider, item, currency, w)

\* The warnings are the only field the comparison with the summary fills in.
LEMMA WarnedFlights ==
  ASSUME NEW provider, NEW item, NEW b, NEW currency, NEW ws, NEW v, NEW w
  PROVE  WarnsInstead(provider, item, b, currency, ws, v, w)
<1> DEFINE j == item.journey
           n == j.number
           l == <<Seg(item, City(From(j)), b)>>
           o == [i \in DOMAIN Changes(j) |->
                   [airport |-> PlaceOf(Changes(j)[i], Blank), wait |-> ws[i]]]
           r == [amount |-> Amount(item), currency |-> currency]
           s == SeatsLeft(item)
           c == j.cabin
<1>1. /\ Made(provider, item, b, currency, ws, v) = Rec(provider, n, l, o, r, s, c, v)
      /\ Made(provider, item, b, currency, ws, w) = Rec(provider, n, l, o, r, s, c, w)
  BY Zenon DEF Made
<1>2. r.currency = currency
  OBVIOUS
<1> HIDE DEF n, l, o, r, s, c
<1>3. Warned(Rec(provider, n, l, o, r, s, c, v), w) = Rec(provider, n, l, o, r, s, c, w)
  BY DEF Rec, Warned
<1>4. LET f == Rec(provider, n, l, o, r, s, c, w)
      IN  f.provider = provider /\ f.number = n /\ f.price = r /\ f.warnings = w
  BY DEF Rec
<1>5. QED
  BY <1>1, <1>2, <1>3, <1>4, Zenon DEF HasFields, WarnsInstead, n

\* Lion Air: a record is read as what it says, or not at all.
LEMMA LionReadsRight ==
  ASSUME NEW item, IsItem(item)
  PROVE  ReadRight("Lion Air", item, LionNormalize(LionTold(item)))
<1> DEFINE j == item.journey
           raw == LionTold(item)
           from == PlaceOf(raw.from.code, raw.from.city)
           to == PlaceOf(raw.to.code, raw.to.city)
           Candidate(d, a) == Rec(LionName, raw.number,
                                  <<[from |-> from, to |-> to, depart |-> d, arrive |-> a]>>,
                                  LionStopovers(raw),
                                  [amount |-> raw.total, currency |-> raw.currency],
                                  raw.seatsLeft, Lowered(raw.fareType), {})
           Checked(S) == {h \in {Warned(e, LionDiscrepancies(e, raw)) : e \in S} : Valid(h)}
           X == ParseInZone(raw.departure, raw.departureZone)
           Y == ParseInZone(raw.arrival, raw.arrivalZone)
           g == Candidate(Departs(item), Lands(item))
           W == LionDiscrepancies(g, raw)
           f == Warned(g, W)
<1>1. ReadsEnds(item) /\ CodesOf(item)
  BY EndsAreRead, CodesOfItems
<1>3. /\ raw.number = j.number /\ raw.from.code = OriginCode(item) /\ raw.from.city = City(From(j))
      /\ raw.to.code = DestinationCode(item) /\ raw.to.city = City(To(j))
      /\ raw.departure = DepartureStamp(item, "naive") /\ raw.departureZone = Registry[From(j)].zone
      /\ raw.arrival = ArrivalStamp(item, "naive")
      /\ raw.arrivalZone = IF item.fault = "nozone" THEN Blank ELSE Registry[To(j)].zone
      /\ raw.flightTime = DeclaredMinutes(item)
      /\ raw.stopCount = DeclaredStops(item)
      /\ raw.total = Amount(item) /\ raw.currency = Currency(item)
      /\ raw.seatsLeft = SeatsLeft(item)
      /\ raw.fareType = IF j.cabin = "economy" THEN "ECONOMY" ELSE "BUSINESS"
  BY DEF LionTold
<1>4. raw.layovers = [i \in DOMAIN Changes(j) |->
                         [airport |-> Changes(j)[i], duration |-> DeclaredWait(item, i)]]
  BY DEF LionTold
<1>5. raw.isDirect = (DeclaredStops(item) = 0)
  BY Zenon DEF LionTold
<1> HIDE DEF raw
<1>2. LionNormalize(raw)
        = Checked({Candidate(d, a) : d \in X, a \in Y})
  BY DEF LionNormalize, Rec, Warned
<1> DEFINE All == {Candidate(d, a) : d \in X, a \in Y}
<1>a. LionNormalize(raw) = Checked(All) /\ Checked({}) = {}
  BY <1>2
<1> HIDE DEF Candidate, Checked, All
<1>6. CASE item.fault \in {"unreadable", "nozone"}
  <2>1. X = {} \/ Y = {}
    BY <1>1, <1>3, <1>6 DEF ReadsEnds
  <2>2. All = {}
    BY <2>1 DEF All
  <2>3. LionNormalize(raw) = {}
    BY <1>a, <2>2, Zenon
  <2>4. Fatal("Lion Air", item)
    BY <1>6 DEF Fatal, Defects
  <2>5. QED
    BY <2>3, <2>4 DEF ReadRight, raw
<1>7. CASE item.fault \notin {"unreadable", "nozone"}
  <2>1. X = {Departs(item)} /\ Y = {Lands(item)}
    BY <1>1, <1>3, <1>7 DEF ReadsEnds
  <2>2. All = {g}
    BY <2>1 DEF All
  <2> HIDE DEF g
  <2>3. LionNormalize(raw) = Checked({g})
    BY <1>a, <2>2, Zenon
  <2>4. LionNormalize(raw) = {h \in {f} : Valid(h)}
    BY <2>3 DEF Checked
  <2>5. /\ from = [airport |-> OriginCode(item), city |-> City(From(j))]
        /\ to = [airport |-> DestinationCode(item), city |-> City(To(j))]
    BY <1>1, <1>3 DEF PlaceOf, CodesOf
  <2>6. Lowered(raw.fareType) = j.cabin
    <3>1. j.cabin \in {"economy", "business"}
      BY DEF IsItem, Flies, JourneyRec
    <3>2. Lowered("ECONOMY") = "economy" /\ Lowered("BUSINESS") = "business"
      BY DEF Lowered, Lower
    <3>3. QED
      BY <1>3, <3>1, <3>2
  <2> DEFINE ws == [i \in DOMAIN Changes(j) |-> DeclaredWait(item, i)]
  <2>7. LionStopovers(raw) = [i \in DOMAIN Changes(j) |->
                                [airport |-> PlaceOf(Changes(j)[i], Blank), wait |-> ws[i]]]
    BY <1>4 DEF LionStopovers
  <2>8. g = Made("Lion Air", item, City(To(j)), Currency(item), ws, {})
    BY <1>3, <2>5, <2>6, <2>7, Zenon DEF Made, Seg, LionName, g, Candidate
  <2> HIDE DEF W
  <2>a. WarnsInstead("Lion Air", item, City(To(j)), Currency(item), ws, {}, W)
    BY WarnedFlights
  <2> HIDE DEF ws
  <2>9. /\ f = Made("Lion Air", item, City(To(j)), Currency(item), ws, W)
        /\ HasFields(f, "Lion Air", item, Currency(item), W)
    BY <2>8, <2>a, Zenon DEF WarnsInstead
  <2>10. Currency(item) = (IF item.fault = "nocurrency" THEN Blank ELSE "IDR")
    BY DEF Currency
  <2>11. Listed("Lion Air", item, ws) /\ Currency(item) \in {Blank, "IDR"}
    BY <2>10 DEF Listed, ws
  <2> HIDE DEF f
  <2>12. OneLeg(g, item) /\ OneLeg(f, item)
    BY <2>8, <2>9, <2>11, RecordsOfOneLeg
  <2>13. /\ f.provider = "Lion Air" /\ f.number = j.number /\ f.warnings = W
         /\ f.price.currency = Currency(item)
    BY <2>9, Zenon DEF HasFields
  <2>14. ASSUME item.fault \notin {"zero", "backwards"}
         PROVE  W # {} <=> Misstated("Lion Air", item)
    <3>1. DeclaredRight(g, item)
      BY <2>12, <2>14, DeclaredFigures
    <3> HIDE DEF g
    <3>2. (raw.flightTime > 0 /\ raw.flightTime # TotalMinutes(g)) <=> item.fault = "duration"
      BY <1>3, <3>1 DEF DeclaredRight
    <3>3. ((raw.isDirect # (Stops(g) = 0)) \/ (raw.stopCount # 0 /\ raw.stopCount # Stops(g)))
             <=> item.fault = "stops"
      BY <1>3, <1>5, <3>1 DEF DeclaredRight
    <3>4. W # {} <=> item.fault \in {"duration", "stops"}
      BY <3>2, <3>3, WarningFacts, Zenon DEF LionDiscrepancies, W
    <3>5. Misstated("Lion Air", item) <=> item.fault \in {"duration", "stops"}
      BY DEF Misstated
    <3>6. QED
      BY <3>4, <3>5
  <2>15. Sellable(f, item) <=> ~Fatal("Lion Air", item)
    BY <1>7, <2>10, <2>13 DEF Sellable, Fatal, Defects, Blank
  <2>17. ReadRight("Lion Air", item, LionNormalize(raw))
    BY <2>4, <2>12, <2>13, <2>14, <2>15, OneLegReadRight
  <2>18. QED
    BY <2>17 DEF raw
<1>8. QED
  BY <1>6, <1>7

-----------------------------------------------------------------------------
(* Batik Air and AirAsia.                                                  *)

\* Prose says its minutes, or nothing.
LEMMA ProseFacts ==
  ASSUME NEW item, NEW m
  PROVE  ParseProseDuration(Prose(item, m)) = IF item.fault = "prose" THEN 0 ELSE m
<1>1. CASE item.fault = "prose"
  BY <1>1, Zenon DEF ParseProseDuration, Prose
<1>2. CASE item.fault # "prose"
  BY <1>2, Zenon DEF ParseProseDuration, Prose
<1>3. QED
  BY <1>1, <1>2

\* Batik Air: a record is read as what it says, or not at all.
LEMMA BatikReadsRight ==
  ASSUME NEW item, IsItem(item)
  PROVE  ReadRight("Batik Air", item, BatikNormalize(BatikTold(item)))
<1> DEFINE j == item.journey
           raw == BatikTold(item)
           from == PlaceOf(raw.origin, Blank)
           to == PlaceOf(raw.destination, Blank)
           b == City(DestinationCode(item))
           cur == Currency(item)
           Candidate(d, a) == Rec(BatikName, raw.number,
                                  <<[from |-> from, to |-> to, depart |-> d, arrive |-> a]>>,
                                  BatikStopovers(raw), Price(raw),
                                  raw.seats, CabinFromBookingClass(raw.class), {})
           Checked(S) == {h \in {Warned(e, BatikDiscrepancies(e, raw)) : e \in S} : Valid(h)}
           X == ParseCompactOffset(raw.departure)
           Y == ParseCompactOffset(raw.arrival)
           All == {Candidate(d, a) : d \in X, a \in Y}
           g == Candidate(Departs(item), Lands(item))
           W == BatikDiscrepancies(g, raw)
           f == Warned(g, W)
<1>1. ReadsEnds(item) /\ CodesOf(item)
  BY EndsAreRead, CodesOfItems
<1>2. /\ raw.number = j.number /\ raw.origin = OriginCode(item)
      /\ raw.destination = DestinationCode(item)
      /\ raw.departure = DepartureStamp(item, "compact")
      /\ raw.arrival = ArrivalStamp(item, "compact")
      /\ raw.travelTime = Prose(item, DeclaredMinutes(item))
      /\ raw.numberOfStops = DeclaredStops(item)
      /\ raw.basePrice = Amount(item) - 1 /\ raw.taxes = (IF item.fault = "fare" THEN 2 ELSE 1)
      /\ raw.totalPrice = Amount(item) /\ raw.currency = Currency(item)
      /\ raw.class = IF j.cabin = "economy" THEN "Y" ELSE "J"
      /\ raw.seats = SeatsLeft(item)
  BY DEF BatikTold
<1>3. raw.connections = [i \in DOMAIN Changes(j) |->
          [stopAirport |-> Changes(j)[i], stopDuration |-> Prose(item, DeclaredWait(item, i))]]
  BY DEF BatikTold
<1> HIDE DEF raw
<1>4. BatikNormalize(raw) = Checked(All)
  BY DEF BatikNormalize, Rec, Warned
<1>5. Checked({}) = {}
  OBVIOUS
<1> HIDE DEF Candidate, Checked, All
<1>6. CASE item.fault = "unreadable"
  <2>1. X = {}
    BY <1>1, <1>2, <1>6 DEF ReadsEnds
  <2>2. All = {}
    BY <2>1 DEF All
  <2>3. BatikNormalize(raw) = {}
    BY <1>4, <1>5, <2>2, Zenon
  <2>4. Fatal("Batik Air", item)
    BY <1>6 DEF Fatal, Defects
  <2>5. QED
    BY <2>3, <2>4 DEF ReadRight, raw
<1>7. CASE item.fault # "unreadable"
  <2>1. X = {Departs(item)} /\ Y = {Lands(item)}
    BY <1>1, <1>2, <1>7 DEF ReadsEnds
  <2>2. All = {g}
    BY <2>1 DEF All
  <2> HIDE DEF g
  <2>3. BatikNormalize(raw) = Checked({g})
    BY <1>4, <2>2, Zenon
  <2>4. BatikNormalize(raw) = {h \in {f} : Valid(h)}
    BY <2>3 DEF Checked
  <2>5. /\ from = [airport |-> OriginCode(item), city |-> City(From(j))]
        /\ to = [airport |-> DestinationCode(item), city |-> b]
    BY <1>1, <1>2 DEF PlaceOf, CodesOf
  <2>6. CabinFromBookingClass(raw.class) = j.cabin
    <3>1. j.cabin \in {"economy", "business"}
      BY DEF IsItem, Flies, JourneyRec
    <3>2. CabinFromBookingClass("Y") = "economy" /\ CabinFromBookingClass("J") = "business"
      BY DEF CabinFromBookingClass, BookingClasses
    <3>3. QED
      BY <1>2, <3>1, <3>2
  <2> DEFINE ws == [i \in DOMAIN Changes(j) |-> IF item.fault = "prose" THEN 0
                                            ELSE DeclaredWait(item, i)]
  <2>7. BatikStopovers(raw) = [i \in DOMAIN Changes(j) |->
                                [airport |-> PlaceOf(Changes(j)[i], Blank), wait |-> ws[i]]]
    <3>1. DOMAIN raw.connections = DOMAIN Changes(j)
      BY <1>3
    <3>2. ASSUME NEW i \in DOMAIN Changes(j)
          PROVE  /\ raw.connections[i].stopAirport = Changes(j)[i]
                 /\ ParseProseDuration(raw.connections[i].stopDuration) = ws[i]
      <4>1. /\ raw.connections[i].stopAirport = Changes(j)[i]
            /\ raw.connections[i].stopDuration = Prose(item, DeclaredWait(item, i))
        BY <1>3
      <4>2. ParseProseDuration(Prose(item, DeclaredWait(item, i))) = ws[i]
        BY ProseFacts
      <4>3. QED
        BY <4>1, <4>2, Zenon
    <3> HIDE DEF ws
    <3>3. QED
      BY <3>1, <3>2, Zenon DEF BatikStopovers
  <2>8. g = Made("Batik Air", item, b, cur, ws, {})
    BY <1>2, <2>5, <2>6, <2>7, Zenon DEF Made, Seg, BatikName, g, Candidate, Price
  <2> HIDE DEF W
  <2>9. WarnsInstead("Batik Air", item, b, cur, ws, {}, W)
    BY WarnedFlights
  <2>10. cur \in {Blank, "IDR"} /\ (cur = Blank <=> item.fault = "nocurrency")
    BY DEF Currency, Blank
  <2>11. Listed("Batik Air", item, ws) /\ (item.fault # "nowhere" => b = City(To(j)))
    BY <1>1 DEF Listed, CodesOf
  <2> HIDE DEF ws, cur, b
  <2>12. /\ f = Made("Batik Air", item, b, cur, ws, W)
         /\ HasFields(f, "Batik Air", item, cur, W)
    BY <2>8, <2>9, Zenon DEF WarnsInstead
  <2> HIDE DEF f
  <2>13. OneLeg(g, item) /\ OneLeg(f, item)
    BY <2>8, <2>10, <2>11, <2>12, RecordsOfOneLeg
  <2>14. /\ f.provider = "Batik Air" /\ f.number = j.number /\ f.warnings = W
         /\ f.price.currency = cur
    BY <2>12, Zenon DEF HasFields
  <2>15. ASSUME item.fault \notin {"zero", "backwards"}
         PROVE  W # {} <=> Misstated("Batik Air", item)
    <3>1. DeclaredRight(g, item)
      BY <2>13, <2>15, DeclaredFigures
    <3> HIDE DEF g
    <3>2. ParseProseDuration(raw.travelTime) =
          (IF item.fault = "prose" THEN 0 ELSE DeclaredMinutes(item))
      <4>1. raw.travelTime = Prose(item, DeclaredMinutes(item))
        BY <1>2
      <4>2. QED
        BY <4>1, ProseFacts, Zenon
    <3>3. (ParseProseDuration(raw.travelTime) > 0
          /\ ParseProseDuration(raw.travelTime) # TotalMinutes(g))
             <=> item.fault = "duration"
      BY <3>1, <3>2 DEF DeclaredRight
    <3>4. raw.numberOfStops # Stops(g) <=> item.fault = "stops"
      BY <1>2, <3>1 DEF DeclaredRight
    <3>5. raw.basePrice + raw.taxes # raw.totalPrice <=> item.fault = "fare"
      <4>1. Amount(item) \in Int
        BY DEF Amount, IsItem, Flies, JourneyRec
      <4>2. QED
        BY <1>2, <4>1
    <3>6. W # {} <=> item.fault \in {"duration", "stops", "fare"}
      BY <3>3, <3>4, <3>5, WarningFacts, Zenon DEF BatikDiscrepancies, W
    <3>7. Misstated("Batik Air", item) <=> item.fault \in {"duration", "stops", "fare"}
      BY DEF Misstated
    <3>8. QED
      BY <3>6, <3>7
  <2>16. Sellable(f, item) <=> ~Fatal("Batik Air", item)
    BY <1>7, <2>10, <2>14 DEF Sellable, Fatal, Defects, Blank
  <2>17. ReadRight("Batik Air", item, BatikNormalize(raw))
    BY <2>4, <2>13, <2>14, <2>15, <2>16, OneLegReadRight
  <2>18. QED
    BY <2>17 DEF raw
<1>8. QED
  BY <1>6, <1>7

\* Hours with two decimals say what the minutes are.
LEMMA HoursFacts ==
  ASSUME NEW m \in Nat, m > 0
  PROVE  InHundredths(m) > 0 /\ InMinutes(InHundredths(m)) = m
<1>1. PICK q \in Nat, r \in 0 .. 2 : m = 3 * q + r
  <2>1. m = 3 * (m \div 3) + (m % 3) /\ m \div 3 \in Nat /\ m % 3 \in 0 .. 2
    OBVIOUS
  <2>2. QED
    BY <2>1
<1>2. InHundredths(m) = 5 * q + (IF r = 0 THEN 0 ELSE IF r = 1 THEN 2 ELSE 3)
  BY <1>1 DEF InHundredths
<1>3. QED
  BY <1>1, <1>2 DEF InMinutes

\* AirAsia: a record is read as what it says, or not at all.
LEMMA AsiaReadsRight ==
  ASSUME NEW item, IsItem(item)
  PROVE  ReadRight("AirAsia", item, AsiaNormalize(AsiaTold(item)))
<1> DEFINE j == item.journey
           raw == AsiaTold(item)
           from == PlaceOf(raw.fromAirport, Blank)
           to == PlaceOf(raw.toAirport, Blank)
           b == City(DestinationCode(item))
           cur == "IDR"
           Candidate(d, a) == Rec(AsiaName, raw.number,
                                  <<[from |-> from, to |-> to, depart |-> d, arrive |-> a]>>,
                                  AsiaStopovers(raw), [amount |-> raw.priceIDR, currency |-> "IDR"],
                                  raw.seats, Lowered(raw.cabinClass), {})
           Checked(S) == {h \in {Warned(e, AsiaDiscrepancies(e, raw)) : e \in S} : Valid(h)}
           X == ParseOffset(raw.departTime)
           Y == ParseOffset(raw.arriveTime)
           All == {Candidate(d, a) : d \in X, a \in Y}
           g == Candidate(Departs(item), Lands(item))
           W == AsiaDiscrepancies(g, raw)
           f == Warned(g, W)
<1>1. ReadsEnds(item) /\ CodesOf(item)
  BY EndsAreRead, CodesOfItems
<1>2. /\ raw.number = j.number /\ raw.fromAirport = OriginCode(item)
      /\ raw.toAirport = DestinationCode(item)
      /\ raw.departTime = DepartureStamp(item, "colon")
      /\ raw.arriveTime = ArrivalStamp(item, "colon")
      /\ raw.durationHours = InHundredths(DeclaredMinutes(item))
      /\ raw.priceIDR = Amount(item)
      /\ raw.cabinClass = IF j.cabin = "economy" THEN "Economy" ELSE "Business"
      /\ raw.seats = SeatsLeft(item)
  BY DEF AsiaTold
<1>3. raw.stops = [i \in DOMAIN Changes(j) |->
                      [airport |-> Changes(j)[i], waitTime |-> DeclaredWait(item, i)]]
  BY DEF AsiaTold
<1>a. raw.directFlight = ((item.fault = "stops") = Connecting(j))
  BY Zenon DEF AsiaTold
<1> HIDE DEF raw
<1>4. AsiaNormalize(raw) = Checked(All)
  BY DEF AsiaNormalize, Rec, Warned
<1>5. Checked({}) = {}
  OBVIOUS
<1> HIDE DEF Candidate, Checked, All
<1>6. CASE item.fault = "unreadable"
  <2>1. X = {}
    BY <1>1, <1>2, <1>6 DEF ReadsEnds
  <2>2. All = {}
    BY <2>1 DEF All
  <2>3. AsiaNormalize(raw) = {}
    BY <1>4, <1>5, <2>2, Zenon
  <2>4. Fatal("AirAsia", item)
    BY <1>6 DEF Fatal, Defects
  <2>5. QED
    BY <2>3, <2>4 DEF ReadRight, raw
<1>7. CASE item.fault # "unreadable"
  <2>1. X = {Departs(item)} /\ Y = {Lands(item)}
    BY <1>1, <1>2, <1>7 DEF ReadsEnds
  <2>2. All = {g}
    BY <2>1 DEF All
  <2> HIDE DEF g
  <2>3. AsiaNormalize(raw) = Checked({g})
    BY <1>4, <2>2, Zenon
  <2>4. AsiaNormalize(raw) = {h \in {f} : Valid(h)}
    BY <2>3 DEF Checked
  <2>5. /\ from = [airport |-> OriginCode(item), city |-> City(From(j))]
        /\ to = [airport |-> DestinationCode(item), city |-> b]
    BY <1>1, <1>2 DEF PlaceOf, CodesOf
  <2>6. Lowered(raw.cabinClass) = j.cabin
    <3>1. j.cabin \in {"economy", "business"}
      BY DEF IsItem, Flies, JourneyRec
    <3>2. Lowered("Economy") = "economy" /\ Lowered("Business") = "business"
      BY DEF Lowered, Lower
    <3>3. QED
      BY <1>2, <3>1, <3>2
  <2> DEFINE ws == [i \in DOMAIN Changes(j) |-> DeclaredWait(item, i)]
  <2>7. AsiaStopovers(raw) = [i \in DOMAIN Changes(j) |->
                                [airport |-> PlaceOf(Changes(j)[i], Blank), wait |-> ws[i]]]
    BY <1>3 DEF AsiaStopovers
  <2>8. g = Made("AirAsia", item, b, cur, ws, {})
    BY <1>2, <2>5, <2>6, <2>7, Zenon DEF Made, Seg, AsiaName, g, Candidate
  <2> HIDE DEF W
  <2>9. WarnsInstead("AirAsia", item, b, cur, ws, {}, W)
    BY WarnedFlights
  <2>10. cur \in {Blank, "IDR"} /\ cur # Blank
    BY DEF Blank
  <2>11. Listed("AirAsia", item, ws) /\ (item.fault # "nowhere" => b = City(To(j)))
    BY <1>1 DEF Listed, CodesOf
  <2> HIDE DEF ws, cur, b
  <2>12. /\ f = Made("AirAsia", item, b, cur, ws, W)
         /\ HasFields(f, "AirAsia", item, cur, W)
    BY <2>8, <2>9, Zenon DEF WarnsInstead
  <2> HIDE DEF f
  <2>13. OneLeg(g, item) /\ OneLeg(f, item)
    BY <2>8, <2>10, <2>11, <2>12, RecordsOfOneLeg
  <2>14. /\ f.provider = "AirAsia" /\ f.number = j.number /\ f.warnings = W
         /\ f.price.currency = cur
    BY <2>12, Zenon DEF HasFields
  <2>15. ASSUME item.fault \notin {"zero", "backwards"}
         PROVE  W # {} <=> Misstated("AirAsia", item)
    <3>1. DeclaredRight(g, item)
      BY <2>13, <2>15, DeclaredFigures
    <3> HIDE DEF g
    <3>2. LET h == raw.durationHours IN h > 0 /\ InMinutes(h) = DeclaredMinutes(item)
      BY <1>2, <3>1, HoursFacts DEF DeclaredRight
    <3>3. (raw.durationHours > 0 /\ InMinutes(raw.durationHours) # TotalMinutes(g))
             <=> item.fault = "duration"
      BY <3>1, <3>2 DEF DeclaredRight
    <3>4. raw.directFlight # (Stops(g) = 0) <=> item.fault = "stops"
      <4>1. (Stops(g) = 0) <=> ~Connecting(j)
        BY <3>1 DEF DeclaredRight
      <4>2. CASE item.fault = "stops"
        <5>1. raw.directFlight <=> Connecting(j)
          BY <1>a, <4>2, Zenon DEF Connecting
        <5>2. raw.directFlight \in BOOLEAN
          BY <1>a, Zenon
        <5>3. raw.directFlight # (Stops(g) = 0)
          BY <4>1, <5>1, <5>2, Zenon
        <5>4. QED
          BY <4>2, <5>3
      <4>3. CASE item.fault # "stops"
        <5>0. Connecting(j) \in BOOLEAN
          BY DEF Connecting
        <5>b. (item.fault = "stops") = FALSE
          BY <4>3
        <5>a. raw.directFlight = (FALSE = Connecting(j))
          BY <1>a, <5>b, Zenon
        <5>1. raw.directFlight <=> ~Connecting(j)
          <6>1. CASE Connecting(j) = TRUE
            BY <5>a, <6>1, Zenon
          <6>2. CASE Connecting(j) = FALSE
            BY <5>a, <6>2, Zenon
          <6>3. QED
            BY <5>0, <6>1, <6>2, Zenon
        <5>2. raw.directFlight \in BOOLEAN
          BY <1>a, Zenon
        <5>3. raw.directFlight = (Stops(g) = 0)
          BY <4>1, <5>1, <5>2, Zenon
        <5>4. QED
          BY <4>3, <5>3
      <4>4. QED
        BY <4>2, <4>3
    <3>5. W # {} <=> item.fault \in {"duration", "stops"}
      BY <3>3, <3>4, WarningFacts, Zenon DEF AsiaDiscrepancies, W
    <3>6. Misstated("AirAsia", item) <=> item.fault \in {"duration", "stops"}
      BY DEF Misstated
    <3>7. QED
      BY <3>5, <3>6
  <2>16. Sellable(f, item) <=> ~Fatal("AirAsia", item)
    BY <1>7, <2>10, <2>14 DEF Sellable, Fatal, Defects, Blank
  <2>17. ReadRight("AirAsia", item, AsiaNormalize(raw))
    BY <2>4, <2>13, <2>14, <2>15, <2>16, OneLegReadRight
  <2>18. QED
    BY <2>17 DEF raw
<1>8. QED
  BY <1>6, <1>7

-----------------------------------------------------------------------------
(* Garuda Indonesia, direct and by legs.                                   *)

GarudaCandidate(raw, s) ==
    Rec(GarudaName, raw.number, s, <<>>, [amount |-> raw.amount, currency |-> raw.currency],
        raw.seats, Lowered(raw.fareClass), {})

\* Garuda checks what it has made of a record's segments, if it could read them all.
LEMMA GarudaMakes ==
  ASSUME NEW raw
  PROVE  /\ Segments(raw) = {} => GarudaNormalize(raw) = {}
         /\ \A s : Segments(raw) = {s} =>
               LET g == GarudaCandidate(raw, s)
               IN  GarudaNormalize(raw) =
                      {h \in {Warned(g, GarudaDiscrepancies(g, raw))} : Valid(h)}
<1> DEFINE All == {GarudaCandidate(raw, s) : s \in Segments(raw)}
           Checked == {Warned(g, GarudaDiscrepancies(g, raw)) : g \in All}
<1>1. GarudaNormalize(raw) = {h \in Checked : Valid(h)}
  BY DEF GarudaNormalize, GarudaCandidate, Rec, Warned
<1> HIDE DEF All, Checked
<1>2. ASSUME Segments(raw) = {} PROVE GarudaNormalize(raw) = {}
  <2>1. All = {}
    BY <1>2 DEF All
  <2>2. Checked = {}
    BY <2>1 DEF Checked
  <2>3. QED
    BY <1>1, <2>2
<1>3. ASSUME NEW s, Segments(raw) = {s}
      PROVE  LET g == GarudaCandidate(raw, s)
             IN  GarudaNormalize(raw) = {h \in {Warned(g, GarudaDiscrepancies(g, raw))} : Valid(h)}
  <2> DEFINE g == GarudaCandidate(raw, s)
  <2>1. All = {g}
    BY <1>3 DEF All
  <2> HIDE DEF g
  <2>2. Checked = {Warned(g, GarudaDiscrepancies(g, raw))}
    BY <2>1 DEF Checked
  <2>3. GarudaNormalize(raw) = {h \in {Warned(g, GarudaDiscrepancies(g, raw))} : Valid(h)}
    BY <1>1, <2>2, Zenon
  <2>4. QED
    BY <2>3, Zenon DEF g
<1>4. QED
  BY <1>2, <1>3

\* What is left of segments that were read one by one.
AllRead(read) ==
    IF \E i \in DOMAIN read : read[i] = {} THEN {}
    ELSE {[i \in DOMAIN read |-> CHOOSE s \in read[i] : TRUE]}

EndsOf(raw) ==
    Segment(raw, raw.departure.airport, raw.arrival.airport, raw.departure.time, raw.arrival.time)

SegmentOf(raw, i) ==
    Segment(raw, raw.segments[i].from, raw.segments[i].to,
            raw.segments[i].depart, raw.segments[i].arrive)

\* The segments are read one by one, or else the two ends are.
LEMMA SegmentsRead ==
  ASSUME NEW raw
  PROVE  Segments(raw) = AllRead(IF raw.segments = <<>> THEN <<EndsOf(raw)>>
                                 ELSE [i \in DOMAIN raw.segments |-> SegmentOf(raw, i)])
BY DEF Segments, AllRead, EndsOf, SegmentOf

\* The cabins an airline sells are spelt as the service spells them.
LEMMA CabinsOfJourneys ==
  ASSUME NEW item, IsItem(item)
  PROVE  Lowered(item.journey.cabin) = item.journey.cabin
<1>1. item.journey.cabin \in {"economy", "business"}
  BY DEF IsItem, Flies, JourneyRec
<1>2. Lowered("economy") = "economy" /\ Lowered("business") = "business"
  BY DEF Lowered, Lower
<1>3. QED
  BY <1>1, <1>2

\* Garuda: a direct flight is read as what it says, or not at all.
LEMMA GarudaReadsDirect ==
  ASSUME NEW item, IsItem(item), ~Connecting(item.journey)
  PROVE  ReadRight("Garuda Indonesia", item, GarudaNormalize(GarudaTold(item)))
<1> DEFINE j == item.journey
           raw == GarudaTold(item)
           a == City(From(j))
           b == City(To(j))
           X == ParseOffset(raw.departure.time)
           Y == ParseOffset(raw.arrival.time)
           S == Segment(raw, raw.departure.airport, raw.arrival.airport,
                        raw.departure.time, raw.arrival.time)
           cur == Currency(item)
           ws == <<>>
<1>1. ReadsEnds(item) /\ CodesOf(item)
  BY EndsAreRead, CodesOfItems
<1>2. LegByLeg(j) /\ Lasts(j)
  BY LegsOfJourneys, LengthOfJourneys DEF IsItem
<1>3. /\ Head(j.legs) = j.legs[1] /\ From(j) = j.legs[1].from /\ To(j) = j.legs[1].to
      /\ DOMAIN Changes(j) = {} /\ Len(j.legs) = 1
  <2>1. /\ Len(j.legs) \in Nat \ {0} /\ ~(Len(j.legs) > 1)
    BY <1>2, Zenon DEF LegByLeg, Connecting
  <2>2. Len(j.legs) = 1
    <3> DEFINE n == Len(j.legs)
    <3>1. n \in Nat \ {0} /\ ~(n > 1)
      BY <2>1
    <3> HIDE DEF n
    <3>2. n = 1
      BY <3>1
    <3>3. QED
      BY <3>2 DEF n
  <2>3. /\ From(j) = j.legs[1].from /\ To(j) = j.legs[Len(j.legs)].to /\ Head(j.legs) = j.legs[1]
        /\ DOMAIN Changes(j) = 1 .. Len(j.legs) - 1
    BY <1>2, Zenon DEF LegByLeg
  <2>4. QED
    BY <2>2, <2>3
<1>4. /\ raw.number = j.number /\ raw.segments = <<>>
      /\ raw.departure = [airport |-> OriginCode(item), city |-> a,
                        time |-> DepartureStamp(item, "colon")]
      /\ raw.arrival = [airport |-> DestinationCode(item), city |-> b,
                      time |-> ArrivalStamp(item, "colon")]
      /\ raw.duration = DeclaredMinutes(item)
      /\ raw.amount = Amount(item) /\ raw.currency = Currency(item)
      /\ raw.seats = SeatsLeft(item) /\ raw.fareClass = j.cabin
  BY <1>3 DEF GarudaTold
<1> HIDE DEF raw
<1>5. /\ Place(raw, raw.departure.airport) = [airport |-> OriginCode(item), city |-> a]
      /\ Place(raw, raw.arrival.airport) = [airport |-> DestinationCode(item), city |-> b]
  BY <1>1, <1>4 DEF Place, PlaceOf, CodesOf
<1>6. X = ParseOffset(DepartureStamp(item, "colon")) /\ Y = ParseOffset(ArrivalStamp(item, "colon"))
  BY <1>4
<1>7. S = {[from |-> Place(raw, raw.departure.airport), to |-> Place(raw, raw.arrival.airport),
            depart |-> d, arrive |-> e] : d \in X, e \in Y}
  BY DEF Segment
<1> HIDE DEF S, X, Y
<1>8. Segments(raw) = IF S = {} THEN {} ELSE {<<CHOOSE s \in S : TRUE>>}
  <2> DEFINE read == <<S>>
  <2>1. DOMAIN read = {1} /\ read[1] = S
    OBVIOUS
  <2>2. Segments(raw) = IF \E i \in DOMAIN read : read[i] = {} THEN {}
                        ELSE {[i \in DOMAIN read |-> CHOOSE s \in read[i] : TRUE]}
    <3>1. Segments(raw) = AllRead(read)
      BY <1>4, SegmentsRead, Zenon DEF EndsOf, S
    <3> HIDE DEF read
    <3>2. QED
      BY <3>1, Zenon DEF AllRead
  <2> HIDE DEF read
  <2>3. [i \in DOMAIN read |-> CHOOSE s \in read[i] : TRUE] = [i \in {1} |-> CHOOSE s \in S : TRUE]
    BY <2>1
  <2>4. \A x : [i \in {1} |-> x] = <<x>>
    OBVIOUS
  <2>5. (\E i \in DOMAIN read : read[i] = {}) <=> S = {}
    BY <2>1
  <2>6. QED
    BY <2>2, <2>3, <2>4, <2>5, Zenon
<1>9. CASE item.fault = "unreadable"
  <2>1. X = {}
    BY <1>1, <1>6, <1>9 DEF ReadsEnds
  <2>2. S = {}
    BY <1>7, <2>1
  <2>3. GarudaNormalize(raw) = {}
    BY <1>8, <2>2, GarudaMakes
  <2>4. Fatal("Garuda Indonesia", item)
    BY <1>9 DEF Fatal, Defects
  <2>5. QED
    BY <2>3, <2>4 DEF ReadRight, raw
<1>10. CASE item.fault # "unreadable"
  <2> DEFINE s == Seg(item, a, b)
             g == GarudaCandidate(raw, <<s>>)
             W == GarudaDiscrepancies(g, raw)
             f == Warned(g, W)
  <2>1. X = {Departs(item)} /\ Y = {Lands(item)}
    BY <1>1, <1>6, <1>10 DEF ReadsEnds
  <2>2. S = {s}
    BY <1>5, <1>7, <2>1 DEF Seg
  <2> HIDE DEF s
  <2>3. (CHOOSE x \in {s} : TRUE) = s
    OBVIOUS
  <2>4. Segments(raw) = {<<s>>}
    BY <1>8, <2>2, <2>3
  <2>5. GarudaNormalize(raw) = {h \in {f} : Valid(h)}
    BY <2>4, GarudaMakes
  <2>6. \A w : [i \in DOMAIN Changes(j) |-> [airport |-> PlaceOf(Changes(j)[i], Blank),
                                               wait |-> w[i]]]
                  = <<>>
    BY <1>3
  <2>7. g = Made("Garuda Indonesia", item, b, cur, ws, {})
    BY <1>4, <2>6, CabinsOfJourneys, Zenon DEF Made, GarudaName, GarudaCandidate, s
  <2> HIDE DEF g, W
  <2>9. WarnsInstead("Garuda Indonesia", item, b, cur, ws, {}, W)
    BY WarnedFlights
  <2>10. cur \in {Blank, "IDR"} /\ (cur = Blank <=> item.fault = "nocurrency")
    BY DEF Currency, Blank
  <2>11. Listed("Garuda Indonesia", item, ws)
    BY <1>3 DEF Listed
  <2> HIDE DEF ws, cur
  <2>12. /\ f = Made("Garuda Indonesia", item, b, cur, ws, W)
         /\ HasFields(f, "Garuda Indonesia", item, cur, W)
    BY <2>7, <2>9, Zenon DEF WarnsInstead
  <2> HIDE DEF f
  <2>13. OneLeg(g, item) /\ OneLeg(f, item)
    BY <2>7, <2>10, <2>11, <2>12, RecordsOfOneLeg
  <2>14. /\ f.provider = "Garuda Indonesia" /\ f.number = j.number /\ f.warnings = W
         /\ f.price.currency = cur
    BY <2>12, Zenon DEF HasFields
  <2>15. ASSUME item.fault \notin {"zero", "backwards"}
         PROVE  W # {} <=> Misstated("Garuda Indonesia", item)
    <3>1. DeclaredRight(g, item)
      BY <2>13, <2>15, DeclaredFigures
    <3>2. (raw.duration > 0 /\ raw.duration # TotalMinutes(g)) <=> item.fault = "duration"
      BY <1>4, <3>1 DEF DeclaredRight
    <3>3. W # {} <=> item.fault = "duration"
      BY <1>4, <3>2, WarningFacts, Zenon DEF GarudaDiscrepancies, W
    <3>4. Misstated("Garuda Indonesia", item) <=> item.fault = "duration"
      BY DEF Misstated
    <3>5. QED
      BY <3>3, <3>4
  <2>16. Sellable(f, item) <=> ~Fatal("Garuda Indonesia", item)
    BY <1>10, <2>10, <2>14 DEF Sellable, Fatal, Defects, Blank
  <2>17. ReadRight("Garuda Indonesia", item, GarudaNormalize(raw))
    BY <2>5, <2>13, <2>14, <2>15, <2>16, OneLegReadRight
  <2>18. QED
    BY <2>17 DEF raw
<1>11. QED
  BY <1>9, <1>10

\* The ends of the i-th leg of a connection, as Garuda tells them.
LegFrom(item, i) ==
    IF i = 1 THEN OriginCode(item)
    ELSE IF item.fault = "broken" THEN From(item.journey) ELSE item.journey.legs[i].from
LegTo(item, i) ==
    IF i = Len(item.journey.legs) THEN DestinationCode(item) ELSE item.journey.legs[i].to
LegDeparts(item, i) ==
    IF i = 1 THEN Departs(item)
    ELSE There(item.journey.legs[i].from,
               IF item.fault = "overlong" THEN item.journey.legs[i - 1].arrive - 1
               ELSE item.journey.legs[i].depart)
LegArrives(item, i) ==
    IF i = Len(item.journey.legs) THEN Lands(item)
    ELSE There(item.journey.legs[i].to, item.journey.legs[i].arrive)

LegRead(item, i) ==
    [from   |-> [airport |-> LegFrom(item, i), city |-> City(LegFrom(item, i))],
     to     |-> [airport |-> LegTo(item, i), city |-> City(LegTo(item, i))],
     depart |-> LegDeparts(item, i), arrive |-> LegArrives(item, i)]

LegsRead(item) == [i \in 1 .. Len(item.journey.legs) |-> LegRead(item, i)]

\* A connection as Garuda tells it.
ToldAsLegs(raw, item) ==
    LET j == item.journey
    IN  /\ raw.number = j.number /\ raw.amount = Amount(item) /\ raw.currency = Currency(item)
        /\ raw.seats = SeatsLeft(item) /\ raw.fareClass = j.cabin
        /\ raw.departure.airport = OriginCode(item) /\ raw.departure.city = City(j.legs[1].from)
        /\ raw.arrival.airport = j.legs[1].to /\ raw.arrival.city = City(j.legs[1].to)
        /\ raw.stops = (IF item.fault = "stops" THEN DeclaredStops(item) ELSE 0)
        /\ raw.segments # <<>> /\ DOMAIN raw.segments = 1 .. Len(j.legs)
        /\ \A i \in 1 .. Len(j.legs) : raw.segments[i] = ToldSegment(item, i)

\* Garuda's record of every connecting journey has a segment for each leg.
LEMMA ConnectionsAreToldAsLegs ==
  ASSUME NEW item, IsItem(item), Connecting(item.journey)
  PROVE  ToldAsLegs(GarudaTold(item), item)
<1> DEFINE j == item.journey
           raw == GarudaTold(item)
           n == Len(j.legs)
<1>1. LegByLeg(j)
  BY LegsOfJourneys DEF IsItem
<1>2. DOMAIN j.legs = 1 .. n /\ Head(j.legs) = j.legs[1] /\ n \in Nat \ {0} /\ n > 1
  BY <1>1, Zenon DEF LegByLeg, Connecting
<1>3. /\ raw.number = j.number /\ raw.amount = Amount(item) /\ raw.currency = Currency(item)
      /\ raw.seats = SeatsLeft(item) /\ raw.fareClass = j.cabin
      /\ raw.departure.airport = OriginCode(item) /\ raw.departure.city = City(Head(j.legs).from)
      /\ raw.arrival.airport = Head(j.legs).to /\ raw.arrival.city = City(Head(j.legs).to)
      /\ raw.stops = (IF item.fault = "stops" THEN DeclaredStops(item) ELSE 0)
  BY DEF GarudaTold
<1>4. raw.segments = [i \in DOMAIN j.legs |-> ToldSegment(item, i)]
  BY DEF GarudaTold
<1> HIDE DEF raw
<1>5. DOMAIN raw.segments = 1 .. n /\ \A i \in 1 .. n : raw.segments[i] = ToldSegment(item, i)
  BY <1>2, <1>4
<1> HIDE DEF n
<1>6. raw.segments # <<>>
  <2>1. 1 \in DOMAIN raw.segments /\ 1 \notin DOMAIN <<>>
    BY <1>2, <1>5
  <2>2. QED
    BY <2>1
<1>7. ToldAsLegs(raw, item)
  BY <1>2, <1>3, <1>5, <1>6, Zenon DEF ToldAsLegs, n
<1>8. QED
  BY <1>7 DEF raw

\* The top of a connection names the same city for an airport as the registry does.
LEMMA PlacesOfConnections ==
  ASSUME NEW item, IsItem(item), NEW raw, ToldAsLegs(raw, item), NEW code
  PROVE  Place(raw, code) = [airport |-> code, city |-> City(code)]
<1> DEFINE j == item.journey
<1>1. CodesOf(item) /\ LegByLeg(j)
  BY CodesOfItems, LegsOfJourneys DEF IsItem
<1>2. j.legs[1].to \in DOMAIN Registry /\ j.legs[1].from = From(j)
  <2>1. Len(j.legs) \in Nat \ {0} /\ From(j) = j.legs[1].from
        /\ \A i \in 1 .. Len(j.legs) : j.legs[i].to \in DOMAIN Registry
    BY <1>1, Zenon DEF LegByLeg
  <2>2. 1 \in 1 .. Len(j.legs)
    BY <2>1
  <2>3. QED
    BY <2>1, <2>2, Zenon
<1>3. City(j.legs[1].to) # Blank
  BY <1>2, RegistryFacts
<1>4. /\ raw.departure.airport = OriginCode(item) /\ raw.departure.city = City(From(j))
      /\ raw.arrival.airport = j.legs[1].to /\ raw.arrival.city = City(j.legs[1].to)
  BY <1>2, Zenon DEF ToldAsLegs
<1>5. City(From(j)) # Blank /\ City(From(j)) = City(OriginCode(item))
  BY <1>1 DEF CodesOf
<1>6. CASE code = j.legs[1].to
  BY <1>3, <1>4, <1>6 DEF Place, PlaceOf
<1>7. CASE code # j.legs[1].to /\ code = OriginCode(item)
  BY <1>4, <1>5, <1>7 DEF Place, PlaceOf
<1>8. CASE code # j.legs[1].to /\ code # OriginCode(item)
  BY <1>4, <1>8 DEF Place, PlaceOf, Blank
<1>9. QED
  BY <1>6, <1>7, <1>8

\* What is read of the i-th leg.
LegFound(item, i) == IF item.fault = "unreadable" /\ i = 1 THEN {} ELSE {LegRead(item, i)}

\* One leg is read as it was told.
LEMMA LegsAreRead ==
  ASSUME NEW item, IsItem(item), Connecting(item.journey), NEW raw, ToldAsLegs(raw, item),
         NEW i \in 1 .. Len(item.journey.legs)
  PROVE  SegmentOf(raw, i) = LegFound(item, i)
<1> DEFINE j == item.journey
           n == Len(j.legs)
           l == j.legs[i]
           s == ToldSegment(item, i)
           X == ParseOffset(s.depart)
           Y == ParseOffset(s.arrive)
<1>1. LegByLeg(j) /\ ReadsEnds(item)
  BY LegsOfJourneys, EndsAreRead DEF IsItem
<1>2. /\ s.from = LegFrom(item, i) /\ s.to = LegTo(item, i)
      /\ s.depart = IF i = 1 THEN DepartureStamp(item, "colon")
                    ELSE Stamp(l.from, IF item.fault = "overlong" /\ i > 1
                                            THEN j.legs[i - 1].arrive - 1
                                       ELSE l.depart, "colon")
      /\ s.arrive = IF i = n THEN ArrivalStamp(item, "colon") ELSE Stamp(l.to, l.arrive, "colon")
  BY DEF ToldSegment, LegFrom, LegTo
<1>3. SegmentOf(raw, i) = Segment(raw, s.from, s.to, s.depart, s.arrive)
  BY Zenon DEF SegmentOf, ToldAsLegs
<1> HIDE DEF s
<1>4. SegmentOf(raw, i)
        = {[from |-> Place(raw, s.from), to |-> Place(raw, s.to), depart |-> d, arrive |-> a] :
              d \in X, a \in Y}
  BY <1>3 DEF Segment
<1>5. Y = {LegArrives(item, i)}
  <2>1. CASE i = n
    BY <1>1, <1>2, <2>1 DEF ReadsEnds, LegArrives
  <2>2. CASE i # n
    <3>1. l.to \in DOMAIN Registry /\ l.arrive \in Int
      BY <1>1 DEF LegByLeg
    <3>2. ReadsStamps(l.to, l.arrive)
      BY <3>1, StampsAreRead
    <3>3. ParseOffset(Stamp(l.to, l.arrive, "colon")) = {There(l.to, l.arrive)}
      BY <3>2, Zenon DEF ReadsStamps
    <3>4. QED
      BY <1>2, <2>2, <3>3, Zenon DEF LegArrives
  <2>3. QED
    BY <2>1, <2>2
<1>6. X = IF item.fault = "unreadable" /\ i = 1 THEN {} ELSE {LegDeparts(item, i)}
  <2>1. CASE i = 1
    BY <1>1, <1>2, <2>1 DEF ReadsEnds, LegDeparts
  <2>2. CASE i # 1
    <3> DEFINE at == IF item.fault = "overlong" THEN j.legs[i - 1].arrive - 1 ELSE l.depart
    <3>1. i > 1 /\ i - 1 \in 1 .. n /\ n \in Nat
      BY <1>1, <2>2 DEF LegByLeg
    <3>2. l.from \in DOMAIN Registry /\ l.depart \in Int /\ j.legs[i - 1].arrive \in Int
      BY <1>1, <3>1 DEF LegByLeg
    <3>3. at \in Int
      BY <3>2
    <3>4. s.depart = Stamp(l.from, at, "colon") /\ LegDeparts(item, i) = There(l.from, at)
      BY <1>2, <2>2, <3>1, Zenon DEF LegDeparts
    <3> HIDE DEF at
    <3>5. ReadsStamps(l.from, at)
      BY <3>2, <3>3, StampsAreRead
    <3>6. ParseOffset(Stamp(l.from, at, "colon")) = {There(l.from, at)}
      BY <3>5, Zenon DEF ReadsStamps
    <3>7. QED
      BY <2>2, <3>4, <3>6, Zenon
  <2>3. QED
    BY <2>1, <2>2
<1> HIDE DEF X, Y
<1>7. CASE item.fault = "unreadable" /\ i = 1
  <2>1. X = {}
    BY <1>6, <1>7
  <2>2. QED
    BY <1>4, <1>7, <2>1 DEF LegFound
<1>8. CASE ~(item.fault = "unreadable" /\ i = 1)
  <2>1. X = {LegDeparts(item, i)}
    BY <1>6, <1>8
  <2>2. SegmentOf(raw, i) = {[from |-> Place(raw, s.from), to |-> Place(raw, s.to),
                              depart |-> LegDeparts(item, i), arrive |-> LegArrives(item, i)]}
    BY <1>4, <1>5, <2>1
  <2>3. /\ Place(raw, s.from) = [airport |-> LegFrom(item, i), city |-> City(LegFrom(item, i))]
        /\ Place(raw, s.to) = [airport |-> LegTo(item, i), city |-> City(LegTo(item, i))]
    BY <1>2, PlacesOfConnections, Zenon
  <2>4. QED
    BY <1>8, <2>2, <2>3, Zenon DEF LegRead, LegFound
<1>9. QED
  BY <1>7, <1>8

\* One bad timestamp is the end of the whole; without it, every leg is read.
LEMMA ConnectionsAreRead ==
  ASSUME NEW item, IsItem(item), Connecting(item.journey), NEW raw, ToldAsLegs(raw, item)
  PROVE  Segments(raw) = IF item.fault = "unreadable" THEN {} ELSE {LegsRead(item)}
<1> DEFINE n == Len(item.journey.legs)
           read == [i \in DOMAIN raw.segments |-> SegmentOf(raw, i)]
<1>1. n \in Nat \ {0}
  BY LegsOfJourneys, Zenon DEF IsItem, LegByLeg
<1>2. raw.segments # <<>> /\ DOMAIN raw.segments = 1 .. n
  BY Zenon DEF ToldAsLegs
<1>3. Segments(raw) = AllRead(read)
  BY <1>2, SegmentsRead, Zenon
<1>4. DOMAIN read = 1 .. n /\ \A i \in 1 .. n : read[i] = SegmentOf(raw, i)
  BY <1>2
<1> HIDE DEF read
<1>5. ASSUME NEW i \in 1 .. n PROVE read[i] = LegFound(item, i)
  BY <1>4, LegsAreRead, Zenon
<1> HIDE DEF n
<1>6. CASE item.fault = "unreadable"
  <2>1. 1 \in 1 .. n
    BY <1>1
  <2>2. \E i \in DOMAIN read : read[i] = {}
    BY <1>4, <1>5, <1>6, <2>1, Zenon DEF LegFound
  <2>3. QED
    BY <1>3, <1>6, <2>2, Zenon DEF AllRead
<1>7. CASE item.fault # "unreadable"
  <2>1. \A i \in 1 .. n : read[i] = {LegRead(item, i)}
    BY <1>5, <1>7, Zenon DEF LegFound
  <2>2. ~(\E i \in DOMAIN read : read[i] = {})
    BY <1>4, <2>1
  <2>3. ASSUME NEW i \in 1 .. n PROVE (CHOOSE s \in read[i] : TRUE) = LegRead(item, i)
    <3> DEFINE x == LegRead(item, i)
    <3>1. read[i] = {x}
      BY <2>1
    <3> HIDE DEF x
    <3>2. (CHOOSE s \in {x} : TRUE) = x
      OBVIOUS
    <3>3. (CHOOSE s \in read[i] : TRUE) = x
      BY <3>1, <3>2
    <3>4. QED
      BY <3>3 DEF x
  <2>4. [i \in DOMAIN read |-> CHOOSE s \in read[i] : TRUE] = [i \in 1 .. n |-> LegRead(item, i)]
    BY <1>4, <2>3, Zenon
  <2>5. QED
    BY <1>3, <1>7, <2>2, <2>4, Zenon DEF AllRead, LegsRead, n
<1>8. QED
  BY <1>6, <1>7

\* A flight made of the legs of a connection.
ByLegs(f, item) ==
    /\ f.segments = LegsRead(item) /\ f.stopovers = <<>>
    /\ f.price = [amount |-> Amount(item), currency |-> Currency(item)]
    /\ f.seats = SeatsLeft(item) /\ f.cabin = item.journey.cabin

\* The segments of such a flight.
LegsOf(f, item) ==
    /\ Len(f.segments) = Len(item.journey.legs) /\ DOMAIN f.segments = 1 .. Len(item.journey.legs)
    /\ Len(item.journey.legs) \in Nat \ {0} /\ Len(item.journey.legs) > 1
    /\ f.segments # <<>> /\ HasTimedLegs(f) /\ Stops(f) = Len(item.journey.legs) - 1
    /\ Head(f.segments) = LegRead(item, 1)
    /\ Last(f.segments) = LegRead(item, Len(item.journey.legs))
    /\ \A i \in 1 .. Len(item.journey.legs) : f.segments[i] = LegRead(item, i)

\* A flight read from all the legs of a connecting journey has these segments.
LEMMA LegsOfFlights ==
  ASSUME NEW item, IsItem(item), Connecting(item.journey), NEW f, ByLegs(f, item)
  PROVE  LegsOf(f, item)
<1> DEFINE n == Len(item.journey.legs)
<1>1. n \in Nat \ {0} /\ n > 1
  BY LegsOfJourneys, Zenon DEF IsItem, LegByLeg, Connecting
<1>2. f.segments = [i \in 1 .. n |-> LegRead(item, i)]
  BY Zenon DEF ByLegs, LegsRead
<1> HIDE DEF n
<1>3. /\ Len(f.segments) = n /\ DOMAIN f.segments = 1 .. n
      /\ \A i \in 1 .. n : f.segments[i] = LegRead(item, i)
  BY ONLY <1>1, <1>2
<1>4. 1 \in 1 .. n /\ n \in 1 .. n
  BY <1>1
<1>5. f.segments # <<>>
  <2>1. 1 \in DOMAIN f.segments /\ 1 \notin DOMAIN <<>>
    BY <1>3, <1>4
  <2>2. QED
    BY <2>1
<1>6. Head(f.segments) = f.segments[1] /\ Last(f.segments) = f.segments[n]
  BY <1>1, <1>3 DEF Last
<1>7. HasTimedLegs(f) /\ Stops(f) = n - 1
  BY <1>1, <1>3 DEF HasTimedLegs, Stops
<1>8. QED
  BY <1>1, <1>3, <1>4, <1>5, <1>6, <1>7, Zenon DEF LegsOf, n

\* A leg with nothing wrong is read as it is flown.
AsFlown(s, item, i) ==
    LET l == item.journey.legs[i]
    IN  /\ s.depart = There(l.from, l.depart) /\ s.arrive = There(l.to, l.arrive)
        /\ s.to = [airport |-> l.to, city |-> City(l.to)]
        /\ s.from.airport = (IF i = 1 THEN OriginCode(item) ELSE l.from)
        /\ s.from.city = City(l.from)

\* Every leg is so read, unless the fault of the item is in its times or its places.
LEMMA LegsAreReadAsFlown ==
  ASSUME NEW item, IsItem(item), NEW i \in 1 .. Len(item.journey.legs),
         item.fault \notin {"unreadable", "zero", "backwards", "nowhere", "overlong", "broken"}
  PROVE  AsFlown(LegRead(item, i), item, i)
<1> DEFINE j == item.journey
           l == j.legs[i]
           n == Len(j.legs)
           s == LegRead(item, i)
<1>1. CodesOf(item) /\ LegByLeg(j)
  BY CodesOfItems, LegsOfJourneys DEF IsItem
<1>2. /\ From(j) = j.legs[1].from /\ Leaves(j) = j.legs[1].depart
      /\ To(j) = j.legs[n].to /\ Arrives(j) = j.legs[n].arrive
  BY <1>1, Zenon DEF LegByLeg
<1>3. Departs(item) = There(From(j), Leaves(j)) /\ Lands(item) = There(To(j), Arrives(j))
  BY DEF Departs, Lands
<1>4. DestinationCode(item) = To(j) /\ City(OriginCode(item)) = City(From(j))
  BY <1>1 DEF CodesOf
<1>5. LegDeparts(item, i) = There(l.from, l.depart)
  BY <1>2, <1>3 DEF LegDeparts
<1>6. LegArrives(item, i) = There(l.to, l.arrive)
  BY <1>2, <1>3 DEF LegArrives
<1>7. LegTo(item, i) = l.to
  BY <1>2, <1>4 DEF LegTo
<1>8. /\ LegFrom(item, i) = (IF i = 1 THEN OriginCode(item) ELSE l.from)
      /\ City(LegFrom(item, i)) = City(l.from)
  BY <1>2, <1>4 DEF LegFrom
<1>9. /\ s.from.airport = LegFrom(item, i) /\ s.from.city = City(LegFrom(item, i))
      /\ s.to = [airport |-> LegTo(item, i), city |-> City(LegTo(item, i))]
      /\ s.depart = LegDeparts(item, i) /\ s.arrive = LegArrives(item, i)
  BY DEF LegRead
<1> HIDE DEF s
<1>10. AsFlown(s, item, i)
  BY <1>5, <1>6, <1>7, <1>8, <1>9, Zenon DEF AsFlown
<1>11. QED
  BY <1>10 DEF s

\* The legs of a journey, well told, pass for a flight.
LEMMA FlownLegsAreCoherent ==
  ASSUME NEW item, IsItem(item), Connecting(item.journey), NEW f, ByLegs(f, item),
         item.fault \notin {"unreadable", "zero", "backwards", "nowhere", "overlong", "broken"},
         NEW i \in 1 .. Len(item.journey.legs)
  PROVE  SegmentIsCoherent(f.segments[i]) /\ (i > 1 => Connects(f.segments[i - 1], f.segments[i]))
<1> DEFINE j == item.journey
           l == j.legs[i]
           n == Len(j.legs)
           s == f.segments[i]
<1>1. LegByLeg(j) /\ LegsOf(f, item) /\ CodesOf(item)
  BY LegsOfJourneys, LegsOfFlights, CodesOfItems DEF IsItem
<1>2. s = LegRead(item, i)
  BY <1>1, Zenon DEF LegsOf
<1>3. AsFlown(s, item, i)
  BY <1>2, LegsAreReadAsFlown, Zenon
<1>4. /\ s.depart.at = l.depart /\ s.arrive.at = l.arrive /\ s.to.airport = l.to
      /\ s.from.airport = (IF i = 1 THEN OriginCode(item) ELSE l.from)
  BY <1>3 DEF AsFlown, There
<1>5. /\ l.from \in DOMAIN Registry /\ l.to \in DOMAIN Registry /\ l.from # l.to
      /\ l.depart \in Nat \ {0} /\ l.arrive \in Nat /\ l.depart < l.arrive
  BY <1>1, Zenon DEF LegByLeg
<1>6. l.from # Blank /\ l.to # Blank /\ l.to # "cgk"
  BY <1>5, RegistryFacts
<1>7. s.from.airport # Blank /\ s.from.airport # l.to
  <2>1. CASE i # 1
    BY <1>4, <1>5, <1>6, <2>1
  <2>2. CASE i = 1
    <3>1. From(j) = l.from
      BY <1>1, <2>2, Zenon DEF LegByLeg
    <3>2. OriginCode(item) \in {"cgk", From(j)}
      BY DEF OriginCode
    <3>3. QED
      BY <1>4, <1>5, <1>6, <2>2, <3>1, <3>2 DEF Blank
  <2>3. QED
    BY <2>1, <2>2
<1> HIDE DEF s, l
<1>8. SegmentIsCoherent(s)
  <2>1. s.depart.at # 0 /\ s.arrive.at # 0 /\ s.arrive.at > s.depart.at
    BY <1>4, <1>5
  <2>2. QED
    BY <1>4, <1>6, <1>7, <2>1 DEF SegmentIsCoherent, ZeroTime
<1>9. ASSUME i > 1 PROVE Connects(f.segments[i - 1], s)
  <2> DEFINE p == f.segments[i - 1]
             m == j.legs[i - 1]
  <2>1. n \in Nat \ {0}
    BY <1>1, Zenon DEF LegByLeg
  <2> HIDE DEF n
  <2>a. i \in 1 .. n
    BY DEF n
  <2>2. i - 1 \in 1 .. n - 1 /\ i - 1 \in 1 .. n /\ i - 1 + 1 = i /\ i # 1
    BY <1>9, <2>1, <2>a
  <2>3. AsFlown(p, item, i - 1)
    <3>1. p = LegRead(item, i - 1)
      BY <1>1, <2>2, Zenon DEF LegsOf, n
    <3>2. QED
      BY <2>2, <3>1, LegsAreReadAsFlown, Zenon DEF n
  <2>4. p.arrive.at = m.arrive /\ p.to.airport = m.to
    BY <2>3 DEF AsFlown, There
  <2>5. /\ j.legs[i - 1 + 1].from = j.legs[i - 1].to
        /\ Wait(j, i - 1) = j.legs[i - 1 + 1].depart - j.legs[i - 1].arrive
        /\ Wait(j, i - 1) \in Nat
    BY <1>1, <2>2, Zenon DEF LegByLeg, n
  <2>6. l.from = m.to /\ l.depart - m.arrive \in Nat
    BY <2>2, <2>5 DEF l
  <2>7. m.arrive \in Nat
    BY <1>1, <2>2, Zenon DEF LegByLeg, n
  <2> HIDE DEF p, m
  <2>8. s.depart.at >= p.arrive.at
    BY <1>4, <1>5, <2>4, <2>6, <2>7
  <2>9. s.from.airport = p.to.airport
    BY <1>4, <2>2, <2>4, <2>6
  <2>10. Connects(p, s)
    BY <2>8, <2>9, Zenon DEF Connects
  <2>11. QED
    BY <2>10 DEF p
<1>10. QED
  BY <1>8, <1>9 DEF s

\* Validate accepts the legs exactly if nothing of the record is unusable.
LEMMA ValidByLegs ==
  ASSUME NEW item, IsItem(item), Connecting(item.journey), NEW f, ByLegs(f, item),
         item.fault # "unreadable"
  PROVE  Valid(f) <=> ~Fatal("Garuda Indonesia", item)
<1> DEFINE j == item.journey
           n == Len(j.legs)
           bad == {"zero", "backwards", "nowhere", "overlong", "broken"}
<1>1. LegByLeg(j) /\ LegsOf(f, item) /\ CodesOf(item) /\ Lasts(j)
  BY LegsOfJourneys, LegsOfFlights, CodesOfItems, LengthOfJourneys DEF IsItem
<1>2. /\ DOMAIN f.segments = 1 .. n /\ n \in Nat \ {0} /\ n > 1 /\ f.segments # <<>>
      /\ HasTimedLegs(f)
      /\ \A i \in 1 .. n : f.segments[i] = LegRead(item, i)
  BY <1>1, Zenon DEF LegsOf
<1>3. /\ From(j) = j.legs[1].from /\ j.legs[1].from # j.legs[1].to
      /\ Leaves(j) <= j.legs[n].depart /\ Leaves(j) \in Nat /\ j.legs[n].depart \in Nat
      /\ j.legs[1].arrive \in Nat
  <2>1. 1 \in 1 .. n /\ n \in 1 .. n
    BY <1>2
  <2>2. From(j) = j.legs[1].from /\ j.legs[1].from # j.legs[1].to /\ j.legs[1].arrive \in Nat
        /\ j.legs[n].depart \in Nat \ {0}
    BY <1>1, <2>1, Zenon DEF LegByLeg
  <2>3. Leaves(j) <= j.legs[n].depart /\ Leaves(j) \in Nat \ {0}
    BY <1>1, Zenon DEF Lasts
  <2>4. QED
    BY <2>2, <2>3
<1>a. ASSUME NEW i \in 1 .. n
      PROVE  /\ f.segments[i].from.airport = LegFrom(item, i)
             /\ f.segments[i].to.airport = LegTo(item, i)
             /\ f.segments[i].depart = LegDeparts(item, i)
             /\ f.segments[i].arrive = LegArrives(item, i)
  <2>1. f.segments[i] = LegRead(item, i)
    BY <1>2
  <2>2. /\ LegRead(item, i).from.airport = LegFrom(item, i)
        /\ LegRead(item, i).to.airport = LegTo(item, i)
        /\ LegRead(item, i).depart = LegDeparts(item, i)
        /\ LegRead(item, i).arrive = LegArrives(item, i)
    BY DEF LegRead
  <2>3. QED
    BY <2>1, <2>2, Zenon
<1> HIDE DEF n
<1>b. 1 \in 1 .. n /\ 2 \in 1 .. n /\ n \in 1 .. n /\ 1 # n /\ n # 1 /\ 2 > 1 /\ 2 - 1 = 1
  BY <1>2
<1>4. FareIsUsable(f) <=> item.fault \notin {"unpaid", "oversold", "nocurrency"}
  <2>1. /\ f.price.amount = Amount(item) /\ f.price.currency = Currency(item)
        /\ f.seats = SeatsLeft(item)
    BY DEF ByLegs
  <2>2. j.fare \in Nat \ {0} /\ j.seats \in Nat
    BY DEF IsItem, Flies, JourneyRec
  <2>3. Amount(item) > 0 <=> item.fault # "unpaid"
    BY <2>2 DEF Amount
  <2>4. SeatsLeft(item) >= 0 <=> item.fault # "oversold"
    BY <2>2 DEF SeatsLeft
  <2>5. Currency(item) # Blank <=> item.fault # "nocurrency"
    BY DEF Currency, Blank
  <2>6. QED
    BY <2>1, <2>3, <2>4, <2>5 DEF FareIsUsable
<1>5. StopsAreCoherent(f)
  <2>1. DOMAIN f.stopovers = {}
    BY DEF ByLegs
  <2>2. QED
    BY <1>2, <2>1 DEF StopsAreCoherent
<1>6. CASE item.fault \notin bad
  <2>1. \A i \in DOMAIN f.segments :
           /\ SegmentIsCoherent(f.segments[i])
           /\ i > 1 => Connects(f.segments[i - 1], f.segments[i])
    <3>1. \A i \in 1 .. n : /\ SegmentIsCoherent(f.segments[i])
                            /\ i > 1 => Connects(f.segments[i - 1], f.segments[i])
      BY <1>6, FlownLegsAreCoherent DEF n
    <3>2. QED
      BY <1>2, <3>1, Zenon DEF n
  <2>2. Valid(f) <=> FareIsUsable(f)
    BY <1>2, <1>5, <2>1, Zenon DEF Valid
  <2>3. Fatal("Garuda Indonesia", item) <=> item.fault \in {"unpaid", "oversold", "nocurrency"}
    BY <1>6 DEF Fatal, Defects
  <2>4. QED
    BY <1>4, <2>2, <2>3
<1>7. CASE item.fault \in bad
  <2>1. Fatal("Garuda Indonesia", item)
    BY <1>7 DEF Fatal, Defects
  <2>2. \E i \in 1 .. n : ~SegmentIsCoherent(f.segments[i])
                          \/ (i > 1 /\ ~Connects(f.segments[i - 1], f.segments[i]))
    <3>1. CASE item.fault = "zero"
      <4>1. f.segments[1].depart = Departs(item) /\ Departs(item).at = 0
        BY <1>a, <1>b, <3>1 DEF LegDeparts, Departs, There
      <4>2. ~SegmentIsCoherent(f.segments[1])
        BY <4>1 DEF SegmentIsCoherent, ZeroTime
      <4>3. QED
        BY <1>b, <4>2
    <3>2. CASE item.fault = "backwards"
      <4>1. f.segments[n].arrive = Lands(item) /\ Lands(item).at = Leaves(j)
        BY <1>a, <1>b, <3>2 DEF LegArrives, Lands, There, n
      <4>2. f.segments[n].depart.at = j.legs[n].depart
        <5>1. LegDeparts(item, n) = There(j.legs[n].from, j.legs[n].depart)
          BY <1>b, <3>2 DEF LegDeparts
        <5>2. f.segments[n].depart = LegDeparts(item, n)
          BY <1>a, <1>b
        <5>3. QED
          BY ONLY <5>1, <5>2 DEF There
      <4>3. ~SegmentIsCoherent(f.segments[n])
        BY <1>3, <4>1, <4>2 DEF SegmentIsCoherent
      <4>4. QED
        BY <1>b, <4>3
    <3>3. CASE item.fault = "nowhere"
      <4>1. f.segments[n].to.airport = Blank
        BY <1>a, <1>b, <3>3 DEF LegTo, DestinationCode, n
      <4>2. ~SegmentIsCoherent(f.segments[n])
        BY <4>1, Zenon DEF SegmentIsCoherent
      <4>3. QED
        BY <1>b, <4>2
    <3>4. CASE item.fault = "overlong"
      <4>1. f.segments[1].arrive.at = j.legs[1].arrive
        <5>1. LegArrives(item, 1) = There(j.legs[1].to, j.legs[1].arrive)
          BY <1>b DEF LegArrives, n
        <5>2. f.segments[1].arrive = LegArrives(item, 1)
          BY <1>a, <1>b
        <5>3. QED
          BY ONLY <5>1, <5>2 DEF There
      <4>2. f.segments[2].depart.at = j.legs[1].arrive - 1
        <5>1. LegDeparts(item, 2) = There(j.legs[2].from, j.legs[1].arrive - 1)
          BY <3>4 DEF LegDeparts
        <5>2. f.segments[2].depart = LegDeparts(item, 2)
          BY <1>a, <1>b
        <5>3. QED
          BY ONLY <5>1, <5>2 DEF There
      <4>3. ~Connects(f.segments[1], f.segments[2])
        BY <1>3, <4>1, <4>2 DEF Connects
      <4>4. QED
        BY <1>b, <4>3
    <3>5. CASE item.fault = "broken"
      <4>1. f.segments[1].to.airport = j.legs[1].to
        BY <1>a, <1>b DEF LegTo, n
      <4>2. f.segments[2].from.airport = j.legs[1].from
        BY <1>3, <1>a, <1>b, <3>5 DEF LegFrom
      <4>3. ~Connects(f.segments[1], f.segments[2])
        BY <1>3, <4>1, <4>2 DEF Connects
      <4>4. QED
        BY <1>b, <4>3
    <3>6. QED
      BY <1>7, <3>1, <3>2, <3>3, <3>4, <3>5
  <2>3. ~Valid(f)
    BY <1>2, <2>2, Zenon DEF Valid, n
  <2>4. QED
    BY <2>1, <2>3
<1>8. QED
  BY <1>6, <1>7

FlownEnds(s, item, i) ==
    LET l == item.journey.legs[i]
    IN  /\ s.depart.at = l.depart /\ s.arrive.at = l.arrive
        /\ s.to.airport = l.to /\ s.to.city = City(l.to)

\* The ends of a leg that is read as it is flown.
LEMMA EndsOfFlownLegs ==
  ASSUME NEW s, NEW item, NEW i, AsFlown(s, item, i)
  PROVE  FlownEnds(s, item, i)
<1> DEFINE l == item.journey.legs[i]
<1>1. /\ s.depart = There(l.from, l.depart) /\ s.arrive = There(l.to, l.arrive)
      /\ s.to = [airport |-> l.to, city |-> City(l.to)]
  BY Zenon DEF AsFlown
<1>2. /\ s.depart.at = l.depart /\ s.arrive.at = l.arrive
      /\ s.to.airport = l.to /\ s.to.city = City(l.to)
  BY <1>1 DEF There
<1>3. QED
  BY <1>2, Zenon DEF FlownEnds

\* The time between the legs comes out as the time on the ground, but for the rounding of the legs
\* and of the whole.
LEMMA LayoverOfLegs ==
  ASSUME NEW item, IsItem(item), Connecting(item.journey), NEW f, ByLegs(f, item),
         ~Fatal("Garuda Indonesia", item)
  PROVE  /\ LayoverMinutes(f) \in Int /\ TotalMinutes(f) = Rounded(Duration(item.journey))
         /\ 2 * LayoverMinutes(f) - OnGround(item.journey)
               \in -Len(item.journey.legs) .. Len(item.journey.legs)
<1> DEFINE j == item.journey
           n == Len(j.legs)
           ms == [i \in DOMAIN f.segments |-> SegmentMinutes(f.segments[i])]
           hs == Flown(j)
<1>1. LegsOf(f, item) /\ LegByLeg(j) /\ Lasts(j)
  BY LegsOfFlights, LegsOfJourneys, LengthOfJourneys DEF IsItem
<1>2. item.fault \notin {"unreadable", "zero", "backwards", "nowhere", "overlong", "broken"}
  BY DEF Fatal, Defects
<1>3. n \in Nat \ {0} /\ DOMAIN f.segments = 1 .. n /\ DOMAIN j.legs = 1 .. n
  BY <1>1, Zenon DEF LegsOf, LegByLeg
<1>4. Len(hs) = n /\ \A i \in 1 .. n : hs[i] = j.legs[i].arrive - j.legs[i].depart
  <2>1. hs = [i \in 1 .. n |-> j.legs[i].arrive - j.legs[i].depart]
    BY <1>3, Zenon DEF Flown
  <2> HIDE DEF n, hs
  <2>2. QED
    BY ONLY <1>3, <2>1
<1>5. Len(ms) = n /\ \A i \in 1 .. n : ms[i] = SegmentMinutes(f.segments[i])
  <2>1. ms = [i \in 1 .. n |-> SegmentMinutes(f.segments[i])]
    BY <1>3, Zenon
  <2> HIDE DEF n, ms
  <2>2. QED
    BY ONLY <1>3, <2>1
<1> HIDE DEF ms, hs
<1>6. ASSUME NEW i \in 1 .. n
      PROVE  ms[i] \in Nat /\ hs[i] \in Nat /\ 2 * ms[i] - hs[i] \in 0 .. 1
  <2>1. f.segments[i] = LegRead(item, i)
    BY <1>1, Zenon DEF LegsOf
  <2>2. AsFlown(f.segments[i], item, i)
    BY <1>2, <2>1, LegsAreReadAsFlown, Zenon
  <2>3. f.segments[i].depart.at = j.legs[i].depart /\ f.segments[i].arrive.at = j.legs[i].arrive
    <3>1. FlownEnds(f.segments[i], item, i)
      BY <2>2, EndsOfFlownLegs
    <3>2. QED
      BY <3>1, Zenon DEF FlownEnds
  <2>4. ms[i] = Rounded(hs[i])
    BY <1>4, <1>5, <2>3 DEF SegmentMinutes, DurationMinutes
  <2>5. /\ j.legs[i].depart \in Nat \ {0} /\ j.legs[i].arrive \in Nat
        /\ j.legs[i].depart < j.legs[i].arrive
    BY <1>1, Zenon DEF LegByLeg
  <2>6. hs[i] \in Nat
    <3> DEFINE x == j.legs[i].depart
               y == j.legs[i].arrive
               z == hs[i]
    <3>1. x \in Nat \ {0} /\ y \in Nat /\ x < y /\ z = y - x
      BY <1>4, <2>5, Zenon
    <3> HIDE DEF x, y, z
    <3>2. z \in Nat
      BY ONLY <3>1
    <3>3. QED
      BY <3>2 DEF z
  <2>7. QED
    BY <2>4, <2>6, RoundedFacts
<1>7. Total(ms) \in Nat /\ Total(hs) \in Nat /\ 2 * Total(ms) - Total(hs) \in 0 .. n
  <2> HIDE DEF n
  <2>1. n \in Nat
    BY <1>3
  <2>2. QED
    BY <1>4, <1>5, <1>6, <2>1, SumsOfMinutes
<1>8. TotalMinutes(f) = Rounded(Duration(j))
  <2>1. Head(f.segments) = LegRead(item, 1) /\ Last(f.segments) = LegRead(item, n)
    BY <1>1, Zenon DEF LegsOf
  <2>2. 1 \in 1 .. n /\ n \in 1 .. n
    <3> HIDE DEF n
    <3>1. QED
      BY ONLY <1>3
  <2>3. AsFlown(LegRead(item, 1), item, 1) /\ AsFlown(LegRead(item, n), item, n)
    BY <1>2, <2>2, LegsAreReadAsFlown
  <2>4. /\ LegRead(item, 1).depart.at = j.legs[1].depart
        /\ LegRead(item, n).arrive.at = j.legs[n].arrive
    <3>1. FlownEnds(LegRead(item, 1), item, 1) /\ FlownEnds(LegRead(item, n), item, n)
      BY <2>3, EndsOfFlownLegs
    <3>2. QED
      BY <3>1, Zenon DEF FlownEnds
  <2>5. Leaves(j) = j.legs[1].depart /\ Arrives(j) = j.legs[n].arrive
    BY <1>1, Zenon DEF LegByLeg
  <2>6. TotalMinutes(f) = Rounded(LegRead(item, n).arrive.at - LegRead(item, 1).depart.at)
    BY <2>1, Zenon DEF TotalMinutes, DurationMinutes, DepartAt, ArriveAt
  <2>7. QED
    BY <2>4, <2>5, <2>6, Zenon DEF Duration
<1>9. LayoverMinutes(f) = Rounded(Duration(j)) - Total(ms)
  BY <1>1, <1>8, Zenon DEF LayoverMinutes, LegMinutes, LegsOf, ms
<1>10. Duration(j) \in Nat /\ OnGround(j) \in Nat /\ Duration(j) = Total(hs) + OnGround(j)
  BY <1>1, Zenon DEF Lasts, hs
<1>11. Rounded(Duration(j)) \in Nat /\ 2 * Rounded(Duration(j)) - Duration(j) \in 0 .. 1
  BY <1>10, RoundedFacts
<1> DEFINE r == Rounded(Duration(j))
           d == Duration(j)
           g == OnGround(j)
           m == Total(ms)
           h == Total(hs)
           y == LayoverMinutes(f)
<1>12. /\ n \in Nat \ {0} /\ r \in Nat /\ d \in Nat /\ g \in Nat /\ m \in Nat /\ h \in Nat
       /\ y = r - m /\ d = h + g /\ 2 * r - d \in 0 .. 1 /\ 2 * m - h \in 0 .. n
  BY <1>3, <1>7, <1>9, <1>10, <1>11
<1> HIDE DEF n, r, d, g, m, h, y
<1>13. y \in Int /\ 2 * y - g \in -n .. n
  BY ONLY <1>12
<1>14. QED
  BY <1>8, <1>13 DEF y, g, n

\* A flight of legs says what its record says.
LEMMA LegsSaySo ==
  ASSUME NEW item, IsItem(item), Connecting(item.journey), NEW f, ByLegs(f, item),
         ~Fatal("Garuda Indonesia", item)
  PROVE  SaysSo(f, item)
<1> DEFINE j == item.journey
           n == Len(j.legs)
<1>1. LegsOf(f, item) /\ LegByLeg(j) /\ CodesOf(item)
  BY LegsOfFlights, LegsOfJourneys, CodesOfItems DEF IsItem
<1>2. item.fault \notin {"unreadable", "zero", "backwards", "nowhere", "overlong", "broken",
                         "unpaid", "oversold", "nocurrency"}
  BY DEF Fatal, Defects
<1>3. n \in Nat \ {0} /\ n > 1 /\ DOMAIN f.segments = 1 .. n /\ Len(f.segments) = n
  BY <1>1, Zenon DEF LegsOf
<1>4. 1 \in 1 .. n /\ n \in 1 .. n
  <2> HIDE DEF n
  <2>1. QED
    BY ONLY <1>3
<1>5. /\ Head(f.segments) = LegRead(item, 1) /\ Last(f.segments) = LegRead(item, n)
      /\ AsFlown(LegRead(item, 1), item, 1) /\ AsFlown(LegRead(item, n), item, n)
  <2>1. AsFlown(LegRead(item, 1), item, 1) /\ AsFlown(LegRead(item, n), item, n)
    BY <1>2, <1>4, LegsAreReadAsFlown
  <2>2. QED
    BY <1>1, <2>1, Zenon DEF LegsOf
<1>6. /\ From(j) = j.legs[1].from /\ Leaves(j) = j.legs[1].depart
      /\ To(j) = j.legs[n].to /\ Arrives(j) = j.legs[n].arrive
  BY <1>1, Zenon DEF LegByLeg
<1>7. /\ Origin(f).airport = OriginCode(item) /\ Origin(f).city = City(From(j))
      /\ Destination(f).airport = To(j) /\ Destination(f).city = City(To(j))
      /\ DepartAt(f) = There(From(j), Leaves(j)) /\ ArriveAt(f) = There(To(j), Arrives(j))
  <2> DEFINE s == LegRead(item, 1)
             t == LegRead(item, n)
  <2>1. /\ Origin(f) = s.from /\ Destination(f) = t.to /\ DepartAt(f) = s.depart
        /\ ArriveAt(f) = t.arrive
    BY <1>5, Zenon DEF Origin, Destination, DepartAt, ArriveAt
  <2> HIDE DEF s, t
  <2>2. /\ s.from.airport = OriginCode(item) /\ s.from.city = City(j.legs[1].from)
        /\ s.depart = There(j.legs[1].from, j.legs[1].depart)
    BY <1>5 DEF AsFlown, s
  <2>3. /\ t.to = [airport |-> j.legs[n].to, city |-> City(j.legs[n].to)]
        /\ t.arrive = There(j.legs[n].to, j.legs[n].arrive)
    BY <1>5 DEF AsFlown, t
  <2>4. t.to.airport = To(j) /\ t.to.city = City(To(j))
    <3>1. FlownEnds(t, item, n)
      BY <1>5, EndsOfFlownLegs DEF t
    <3> HIDE DEF t
    <3>2. QED
      BY <1>6, <3>1, Zenon DEF FlownEnds
  <2> HIDE DEF n
  <2>5. QED
    BY <1>6, <2>1, <2>2, <2>3, <2>4, Zenon
<1>8. Stops(f) = Len(Changes(j)) /\ HasTimedLegs(f)
  BY <1>1 DEF LegsOf, LegByLeg
<1>9. StopAirports(f) = Changes(j)
  <2>1. StopAirports(f) = [i \in 1 .. n - 1 |-> f.segments[i].to.airport]
    BY <1>3, <1>8, Zenon DEF StopAirports
  <2>2. Changes(j) = [i \in 1 .. n - 1 |-> j.legs[i].to]
    BY Zenon DEF Changes
  <2>3. ASSUME NEW i \in 1 .. n - 1 PROVE f.segments[i].to.airport = j.legs[i].to
    <3>1. i \in 1 .. n
      <4> HIDE DEF n
      <4>1. i \in 1 .. n - 1
        BY DEF n
      <4>2. QED
        BY ONLY <1>3, <4>1
    <3>2. f.segments[i] = LegRead(item, i)
      BY <1>1, <3>1, Zenon DEF LegsOf
    <3>3. AsFlown(f.segments[i], item, i)
      BY <1>2, <3>1, <3>2, LegsAreReadAsFlown, Zenon
    <3>4. QED
      <4>1. FlownEnds(f.segments[i], item, i)
        BY <3>3, EndsOfFlownLegs
      <4>2. QED
        BY <4>1, Zenon DEF FlownEnds
  <2> HIDE DEF n
  <2>4. QED
    BY <2>1, <2>2, <2>3, Zenon
<1>10. /\ LayoverMinutes(f) \in Int /\ TotalMinutes(f) = Rounded(Duration(j))
       /\ 2 * LayoverMinutes(f) - OnGround(j) \in -n .. n
  BY LayoverOfLegs
<1>11. /\ f.price = [amount |-> j.fare, currency |-> "IDR"] /\ f.cabin = j.cabin
       /\ f.seats = j.seats
       /\ f.segments # <<>>
  <2>1. Amount(item) = j.fare /\ Currency(item) = "IDR" /\ SeatsLeft(item) = j.seats
    BY <1>2 DEF Amount, Currency, SeatsLeft
  <2>2. QED
    BY <1>1, <2>1, Zenon DEF ByLegs, LegsOf
<1>12. QED
  BY <1>7, <1>8, <1>9, <1>10, <1>11, Zenon DEF SaysSo

\* Garuda: a connection is read as its legs say, or not at all, and never without a warning, for
\* the stops it states are those of its first leg.
LEMMA GarudaReadsConnections ==
  ASSUME NEW item, IsItem(item), Connecting(item.journey)
  PROVE  ReadRight("Garuda Indonesia", item, GarudaNormalize(GarudaTold(item)))
<1> DEFINE j == item.journey
           raw == GarudaTold(item)
           s == LegsRead(item)
           g == GarudaCandidate(raw, s)
           W == GarudaDiscrepancies(g, raw)
           f == Warned(g, W)
<1>1. ToldAsLegs(raw, item)
  BY ConnectionsAreToldAsLegs
<1> HIDE DEF raw
<1>2. Segments(raw) = IF item.fault = "unreadable" THEN {} ELSE {s}
  BY <1>1, ConnectionsAreRead
<1>3. CASE item.fault = "unreadable"
  <2>1. GarudaNormalize(raw) = {}
    BY <1>2, <1>3, GarudaMakes
  <2>2. Fatal("Garuda Indonesia", item)
    BY <1>3 DEF Fatal, Defects
  <2>3. QED
    BY <2>1, <2>2 DEF ReadRight, raw
<1>4. CASE item.fault # "unreadable"
  <2> HIDE DEF s
  <2>1. GarudaNormalize(raw) = {h \in {f} : Valid(h)}
    BY <1>2, <1>4, GarudaMakes
  <2>2. g = Rec("Garuda Indonesia", j.number, s, <<>>,
                [amount |-> Amount(item), currency |-> Currency(item)],
                SeatsLeft(item), j.cabin, {})
    BY <1>1, CabinsOfJourneys, Zenon DEF GarudaCandidate, GarudaName, ToldAsLegs
  <2> HIDE DEF W, g
  <2>3. /\ g.segments = s /\ g.stopovers = <<>> /\ g.cabin = j.cabin /\ g.seats = SeatsLeft(item)
        /\ g.price = [amount |-> Amount(item), currency |-> Currency(item)]
        /\ f.segments = s /\ f.stopovers = <<>> /\ f.cabin = j.cabin /\ f.seats = SeatsLeft(item)
        /\ f.price = [amount |-> Amount(item), currency |-> Currency(item)]
        /\ f.provider = "Garuda Indonesia" /\ f.number = j.number /\ f.warnings = W
    BY <2>2 DEF Rec, Warned
  <2> HIDE DEF f
  <2>4. ByLegs(g, item) /\ ByLegs(f, item)
    BY <2>3, Zenon DEF ByLegs, s
  <2>5. Valid(f) <=> ~Fatal("Garuda Indonesia", item)
    BY <1>4, <2>4, ValidByLegs
  <2>6. raw.stops # Stops(g)
    <3>1. LegsOf(g, item) /\ LegByLeg(j)
      BY <2>4, LegsOfFlights, LegsOfJourneys DEF IsItem
    <3>2. /\ Len(j.legs) \in Nat \ {0} /\ Len(j.legs) > 1 /\ Stops(g) = Len(j.legs) - 1
          /\ Len(Changes(j)) = Len(j.legs) - 1
      BY <3>1, Zenon DEF LegsOf, LegByLeg
    <3>3. raw.stops = (IF item.fault = "stops" THEN DeclaredStops(item) ELSE 0)
      BY <1>1, Zenon DEF ToldAsLegs
    <3>4. item.fault = "stops" => DeclaredStops(item) = Len(Changes(j)) + 1
      BY DEF DeclaredStops
    <3> DEFINE n == Len(j.legs)
               x == Stops(g)
               c == Len(Changes(j))
    <3>5. n \in Nat /\ n > 1 /\ x = n - 1 /\ c = n - 1 /\ raw.stops \in {c + 1, 0}
      BY <3>2, <3>3, <3>4
    <3> HIDE DEF n, x, c
    <3>6. raw.stops # x
      BY <3>5
    <3>7. QED
      BY <3>6 DEF x
  <2>7. W # {}
    <3>1. raw.segments # <<>>
      BY <1>1, Zenon DEF ToldAsLegs
    <3>2. "stops" \in Warning("stops", raw.stops # Stops(g))
      BY <2>6 DEF Warning
    <3>3. "stops" \in W
      BY <3>1, <3>2, Zenon DEF W, GarudaDiscrepancies
    <3>4. QED
      BY <3>3
  <2>8. Misstated("Garuda Indonesia", item)
    BY DEF Misstated
  <2>9. ReadRight("Garuda Indonesia", item, GarudaNormalize(raw))
    <3>1. CASE Fatal("Garuda Indonesia", item)
      <4>1. GarudaNormalize(raw) = {}
        BY <2>1, <2>5, <3>1
      <4>2. QED
        BY <3>1, <4>1, Zenon DEF ReadRight
    <3>2. CASE ~Fatal("Garuda Indonesia", item)
      <4>1. GarudaNormalize(raw) = {f} /\ Valid(f)
        BY <2>1, <2>5, <3>2
      <4>2. SaysSo(f, item)
        BY <2>4, <3>2, LegsSaySo
      <4>3. ToldRight("Garuda Indonesia", item, f)
        BY <2>3, <2>7, <2>8, <4>1, <4>2, Zenon DEF ToldRight
      <4>4. QED
        BY <3>2, <4>1, <4>3, Zenon DEF ReadRight
    <3>3. QED
      BY <3>1, <3>2
  <2>10. QED
    BY <2>9 DEF raw
<1>5. QED
  BY <1>3, <1>4

\* Every client reads a record as what it says, or not at all.
LEMMA ClientsReadRight ==
  ASSUME NEW client \in Names, NEW item, IsItem(item)
  PROVE  ReadRight(client, item, Normalized(client, item))
<1>1. CASE client = "Garuda Indonesia"
  <2>1. Normalized("Garuda Indonesia", item) = GarudaNormalize(GarudaTold(item))
    BY DEF Normalized
  <2>2. QED
    BY <1>1, <2>1, GarudaReadsDirect, GarudaReadsConnections, Zenon
<1>2. CASE client = "Lion Air"
  <2>1. Normalized("Lion Air", item) = LionNormalize(LionTold(item))
    BY DEF Normalized
  <2>2. QED
    BY <1>2, <2>1, LionReadsRight, Zenon
<1>3. CASE client = "Batik Air"
  <2>1. Normalized("Batik Air", item) = BatikNormalize(BatikTold(item))
    BY DEF Normalized
  <2>2. QED
    BY <1>3, <2>1, BatikReadsRight, Zenon
<1>4. CASE client = "AirAsia"
  <2>1. Normalized("AirAsia", item) = AsiaNormalize(AsiaTold(item))
    BY DEF Normalized
  <2>2. QED
    BY <1>4, <2>1, AsiaReadsRight, Zenon
<1>5. QED
  BY <1>1, <1>2, <1>3, <1>4 DEF Names

-----------------------------------------------------------------------------
(* A whole timetable.                                                      *)

\* What a client makes of the records of a timetable, list by list and in one list.
ReadOf(client, t) == [n \in DOMAIN t |-> SetToSeq(Normalized(client, t[n]))]
FetchedFrom(client, t) == FlattenSeq(ReadOf(client, t))
MadeOf(client, t) == UNION {Normalized(client, t[n]) : n \in DOMAIN t}

\* The numbers of the journeys whose records it can use.
UsableNumbers(client, t) ==
    [n \in DOMAIN t |-> IF Fatal(client, t[n]) THEN <<>> ELSE <<t[n].journey.number>>]

\* A record is a list of one flight, or of none.
OneAtMost(client, item, read) ==
    \/ Fatal(client, item) /\ read = <<>>
    \/ ~Fatal(client, item) /\ \E f \in Normalized(client, item) :
                                  read = <<f>> /\ ToldRight(client, item, f)

\* The list a client makes of a single record.
LEMMA RecordsAreLists ==
  ASSUME NEW client \in Names, NEW item, IsItem(item)
  PROVE  OneAtMost(client, item, SetToSeq(Normalized(client, item)))
<1> DEFINE flights == Normalized(client, item)
<1>1. ReadRight(client, item, flights)
  BY ClientsReadRight
<1> HIDE DEF flights
<1>2. CASE Fatal(client, item) /\ flights = {}
  <2>1. SetToSeq(flights) = <<>>
    BY <1>2, SmallSets, Zenon
  <2>2. OneAtMost(client, item, SetToSeq(flights))
    BY <1>2, <2>1, Zenon DEF OneAtMost
  <2>3. QED
    BY <2>2, Zenon DEF flights
<1>3. CASE ~Fatal(client, item) /\ \E f : flights = {f} /\ ToldRight(client, item, f)
  <2>1. PICK f : flights = {f} /\ ToldRight(client, item, f)
    BY <1>3
  <2>2. SetToSeq(flights) = <<f>> /\ f \in flights
    BY <2>1, SmallSets
  <2>3. OneAtMost(client, item, SetToSeq(flights))
    BY <1>3, <2>1, <2>2, Zenon DEF OneAtMost, flights
  <2>4. QED
    BY <2>3, Zenon DEF flights
<1>4. QED
  BY <1>1, <1>2, <1>3, Zenon DEF ReadRight

\* The records of a timetable are items.
LEMMA ItemsOfTimetables ==
  ASSUME NEW t, IsTimetable(t)
  PROVE  /\ Len(t) \in Nat /\ DOMAIN t = 1 .. Len(t)
         /\ \A n \in DOMAIN t : IsItem(t[n]) /\ t[n].journey.number \in Nat
<1> DEFINE Item == [journey : JourneyRec, fault : Faults]
<1>1. t \in Seq(Item)
  BY DEF IsTimetable
<1> HIDE DEF Item
<1>2. Len(t) \in Nat /\ DOMAIN t = 1 .. Len(t)
  BY <1>1
<1>3. ASSUME NEW n \in DOMAIN t PROVE IsItem(t[n]) /\ t[n].journey.number \in Nat
  <2>1. t[n] \in Item
    BY <1>1, <1>2
  <2>2. Flies(t[n].journey)
    BY DEF IsTimetable
  <2>3. t[n].journey.number \in Nat
    BY <2>1 DEF JourneyRec, Item
  <2>4. QED
    BY <2>1, <2>2, <2>3 DEF IsItem, Item
<1>4. QED
  BY <1>2, <1>3

\* The flights a client returns are those of exactly the records it can use.
ReadsTimetable(client, t) ==
    LET fs == FetchedFrom(client, t)
    IN  /\ fs \in Seq(MadeOf(client, t))
        /\ \A k \in 1 .. Len(fs) :
              \E n \in DOMAIN t : ~Fatal(client, t[n]) /\ ToldRight(client, t[n], fs[k])
        /\ \A n \in DOMAIN t :
              ~Fatal(client, t[n]) => \E k \in 1 .. Len(fs) : ToldRight(client, t[n], fs[k])

\* Every timetable is so read by every client.
LEMMA TimetablesAreRead ==
  ASSUME NEW client \in Names, NEW t, IsTimetable(t)
  PROVE  ReadsTimetable(client, t)
<1> DEFINE S == MadeOf(client, t)
           ss == ReadOf(client, t)
           fs == FlattenSeq(ss)
           m == Len(t)
<1>1. m \in Nat /\ DOMAIN t = 1 .. m /\ \A n \in DOMAIN t : IsItem(t[n])
  BY ItemsOfTimetables
<1>2. ASSUME NEW n \in DOMAIN t PROVE OneAtMost(client, t[n], SetToSeq(Normalized(client, t[n])))
  BY <1>1, RecordsAreLists
<1>3. DOMAIN ss = DOMAIN t /\ \A n \in DOMAIN t : ss[n] = SetToSeq(Normalized(client, t[n]))
  BY DEF ReadOf
<1>a. ss = [n \in DOMAIN t |-> ss[n]]
  BY DEF ReadOf
<1> HIDE DEF ss
<1>4. ASSUME NEW n \in DOMAIN t PROVE OneAtMost(client, t[n], ss[n])
  BY <1>2, <1>3, Zenon
<1>5. ASSUME NEW n \in DOMAIN t
      PROVE  /\ ss[n] \in Seq(S)
             /\ \A k \in 1 .. Len(ss[n]) : ~Fatal(client, t[n]) /\ ToldRight(client, t[n], ss[n][k])
             /\ ~Fatal(client, t[n]) => 1 \in 1 .. Len(ss[n])
  <2> DEFINE read == ss[n]
  <2>1. OneAtMost(client, t[n], read)
    BY <1>4
  <2>a. \A f \in Normalized(client, t[n]) : f \in S
    BY DEF MadeOf
  <2> HIDE DEF read, S
  <2>2. CASE Fatal(client, t[n]) /\ read = <<>>
    <3>1. read \in Seq(S) /\ Len(read) = 0
      BY <2>2
    <3>2. QED
      BY <2>2, <3>1 DEF read
  <2>3. CASE ~Fatal(client, t[n])
             /\ \E f \in Normalized(client, t[n]) : read = <<f>> /\ ToldRight(client, t[n], f)
    <3>1. PICK f \in Normalized(client, t[n]) : read = <<f>> /\ ToldRight(client, t[n], f)
      BY <2>3
    <3>2. f \in S
      BY <2>a
    <3>3. read \in Seq(S) /\ Len(read) = 1 /\ read[1] = f
      BY <3>1, <3>2
    <3>4. 1 .. Len(read) = {1}
      BY <3>3
    <3>5. QED
      BY <2>3, <3>1, <3>3, <3>4 DEF read
  <2>4. QED
    BY <2>1, <2>2, <2>3, Zenon DEF OneAtMost
<1> HIDE DEF S, m
<1>6. ss \in Seq(Seq(S)) /\ Len(ss) = m
  BY <1>1, <1>5, <1>a
<1>7. fs \in Seq(S) /\ Gathers(fs, ss, m)
  BY <1>6, FlattenFacts
<1> HIDE DEF fs
<1>8. ASSUME NEW k \in 1 .. Len(fs)
      PROVE  \E n \in DOMAIN t : ~Fatal(client, t[n]) /\ ToldRight(client, t[n], fs[k])
  <2>1. PICK n \in 1 .. m : \E i \in 1 .. Len(ss[n]) : fs[k] = ss[n][i]
    BY <1>7 DEF Gathers
  <2>2. PICK i \in 1 .. Len(ss[n]) : fs[k] = ss[n][i]
    BY <2>1
  <2>3. n \in DOMAIN t
    BY <1>1
  <2>4. ~Fatal(client, t[n]) /\ ToldRight(client, t[n], ss[n][i])
    BY <1>5, <2>2, <2>3
  <2>5. QED
    BY <2>2, <2>3, <2>4, Zenon
<1>9. ASSUME NEW n \in DOMAIN t, ~Fatal(client, t[n])
      PROVE  \E k \in 1 .. Len(fs) : ToldRight(client, t[n], fs[k])
  <2>1. 1 \in 1 .. Len(ss[n]) /\ ToldRight(client, t[n], ss[n][1]) /\ n \in 1 .. m
    BY <1>1, <1>5, <1>9
  <2>2. PICK k \in 1 .. Len(fs) : fs[k] = ss[n][1]
    BY <1>7, <2>1 DEF Gathers
  <2>3. QED
    BY <2>1, <2>2, Zenon
<1>10. QED
  BY <1>7, <1>8, <1>9, Zenon DEF ReadsTimetable, FetchedFrom, S, fs, ss

\* Their numbers are those of the usable records, in the order of the records.
LEMMA NumbersInOrder ==
  ASSUME NEW client \in Names, NEW t, IsTimetable(t)
  PROVE  LET fs == FetchedFrom(client, t)
         IN  [k \in DOMAIN fs |-> fs[k].number] = FlattenSeq(UsableNumbers(client, t))
<1> DEFINE S == MadeOf(client, t)
           T == Nat
           R == {<<f, f.number>> : f \in S}
           ss == ReadOf(client, t)
           tt == UsableNumbers(client, t)
           fs == FlattenSeq(ss)
           ns == FlattenSeq(tt)
           m == Len(t)
<1>1. /\ m \in Nat /\ DOMAIN t = 1 .. m
      /\ \A n \in DOMAIN t : IsItem(t[n]) /\ t[n].journey.number \in Nat
  BY ItemsOfTimetables
<1>2. ASSUME NEW n \in DOMAIN t PROVE OneAtMost(client, t[n], SetToSeq(Normalized(client, t[n])))
  BY <1>1, RecordsAreLists
<1>3. /\ DOMAIN ss = DOMAIN t /\ \A n \in DOMAIN t : ss[n] = SetToSeq(Normalized(client, t[n]))
      /\ ss = [n \in DOMAIN t |-> ss[n]]
  BY DEF ReadOf
<1>4. /\ DOMAIN tt = DOMAIN t /\ tt = [n \in DOMAIN t |-> tt[n]]
      /\ \A n \in DOMAIN t : tt[n] = IF Fatal(client, t[n]) THEN <<>> ELSE <<t[n].journey.number>>
  BY DEF UsableNumbers
<1> HIDE DEF ss, tt
<1>5. ASSUME NEW n \in DOMAIN t
      PROVE  ss[n] \in Seq(S) /\ tt[n] \in Seq(T) /\ Alike(ss[n], tt[n], R)
  <2> DEFINE read == ss[n]
             told == tt[n]
             number == t[n].journey.number
  <2>1. OneAtMost(client, t[n], read)
    BY <1>2, <1>3, Zenon
  <2>2. told = (IF Fatal(client, t[n]) THEN <<>> ELSE <<number>>) /\ number \in Nat
    BY <1>1, <1>4
  <2>a. \A f \in Normalized(client, t[n]) : f \in S
    BY DEF MadeOf
  <2>b. \A f \in S : <<f, f.number>> \in R
    OBVIOUS
  <2> HIDE DEF read, told, S, R, number
  <2>3. CASE Fatal(client, t[n]) /\ read = <<>>
    <3>1. told = <<>>
      BY <2>2, <2>3
    <3>2. read \in Seq(S) /\ told \in Seq(T) /\ Len(read) = 0 /\ Len(told) = 0
      BY <2>3, <3>1
    <3>3. QED
      BY <3>2 DEF Alike, read, told
  <2>4. CASE ~Fatal(client, t[n])
             /\ \E f \in Normalized(client, t[n]) : read = <<f>> /\ ToldRight(client, t[n], f)
    <3>1. PICK f \in Normalized(client, t[n]) : read = <<f>> /\ ToldRight(client, t[n], f)
      BY <2>4
    <3>2. f \in S /\ f.number = number
      BY <2>a, <3>1, Zenon DEF ToldRight, number
    <3>3. told = <<number>>
      BY <2>2, <2>4
    <3>4. read \in Seq(S) /\ told \in Seq(T)
      BY <2>2, <3>1, <3>2, <3>3
    <3>5. Len(read) = 1 /\ Len(told) = 1 /\ read[1] = f /\ told[1] = number /\ 1 .. 1 = {1}
      BY <3>1, <3>3
    <3>6. <<f, number>> \in R
      BY <2>b, <3>2, Zenon
    <3>7. Alike(read, told, R)
      BY <3>5, <3>6, Zenon DEF Alike
    <3>8. QED
      BY <3>4, <3>7, Zenon DEF read, told
  <2>5. QED
    BY <2>1, <2>3, <2>4, Zenon DEF OneAtMost
<1> HIDE DEF S, T, R, m
<1>6. ss \in Seq(Seq(S)) /\ tt \in Seq(Seq(T)) /\ Len(ss) = m /\ Len(tt) = m
  <2>1. ss \in Seq(Seq(S)) /\ Len(ss) = m
    <3>1. \A n \in 1 .. m : ss[n] \in Seq(S)
      BY <1>1, <1>5
    <3>2. ss = [n \in 1 .. m |-> ss[n]]
      BY <1>1, <1>3, Zenon
    <3>3. m \in Nat
      BY <1>1
    <3>4. QED
      BY ONLY <3>1, <3>2, <3>3
  <2>2. tt \in Seq(Seq(T)) /\ Len(tt) = m
    <3>1. \A n \in 1 .. m : tt[n] \in Seq(T)
      BY <1>1, <1>5
    <3>2. tt = [n \in 1 .. m |-> tt[n]]
      BY <1>1, <1>4, Zenon
    <3>3. m \in Nat
      BY <1>1
    <3>4. QED
      BY ONLY <3>1, <3>2, <3>3
  <2>3. QED
    BY <2>1, <2>2
<1>7. Alike(fs, ns, R)
  <2>1. \A i \in 1 .. Len(ss) : Alike(ss[i], tt[i], R)
    BY <1>1, <1>5, <1>6
  <2>2. QED
    BY <1>6, <2>1, FlattenAlike
<1>8. fs \in Seq(S) /\ ns \in Seq(T)
  BY <1>6, FlattenFacts
<1> HIDE DEF fs, ns
<1>9. /\ Len(fs) = Len(ns) /\ Len(fs) \in Nat /\ DOMAIN fs = 1 .. Len(fs)
      /\ ns = [k \in 1 .. Len(fs) |-> ns[k]]
  <2>1. Len(fs) = Len(ns)
    BY <1>7, Zenon DEF Alike
  <2>2. QED
    BY <1>8, <2>1
<1>10. ASSUME NEW k \in 1 .. Len(fs) PROVE ns[k] = fs[k].number
  <2>1. <<fs[k], ns[k]>> \in R
    BY <1>7, Zenon DEF Alike
  <2>2. QED
    BY <2>1 DEF R
<1>11. [k \in DOMAIN fs |-> fs[k].number] = ns
  BY <1>9, <1>10
<1>12. QED
  BY <1>11, Zenon DEF FetchedFrom, fs, ns, ss, tt

-----------------------------------------------------------------------------
(* The replies: what every step of the service keeps.                      *)

\* What the search makes of the replies, as Gather has it.
Sent == FlattenSeq([i \in DOMAIN Clients |-> FlightsOf(i)])
Kept == FlattenSeq([k \in DOMAIN Sent |-> IF Accepted(Sent[k]) THEN <<Sent[k]>> ELSE <<>>])
Gathered ==
    IF Succeeded = {} THEN Failed
    ELSE [at |-> "ok", dropped |-> Len(Sent) - Len(Kept),
          flights |-> [k \in DOMAIN Kept |-> FlightView(Kept[k])]]

ReplyOf(client) == [at |-> "ok", flights |-> Fetched(client)]

\* The inductive invariant: a client that has returned has returned all it can make of the
\* timetable, and an answer is made of what every client has returned.
RepliesAreRead ==
    /\ items \in Timetables /\ request \in Requests
    /\ DOMAIN reply = DOMAIN Clients
    /\ \A i \in DOMAIN Clients : reply[i] \in {Pending, Failed, ReplyOf(Clients[i])}
    /\ answer # Pending => answer = Gathered /\ \A i \in DOMAIN Clients : reply[i] # Pending

\* RepliesAreRead is an invariant of the specification.
LEMMA RepliesStayRead == AdaptersSpec => []RepliesAreRead
<1>1. AdaptersInit => RepliesAreRead
  BY DEF AdaptersInit, RepliesAreRead
<1>2. RepliesAreRead /\ [AdaptersNext]_adapterVars => RepliesAreRead'
  <2> SUFFICES ASSUME RepliesAreRead, [AdaptersNext]_adapterVars
               PROVE  RepliesAreRead'
    OBVIOUS
  <2>1. ASSUME NEW i \in DOMAIN Clients, Fetch(i)
        PROVE  RepliesAreRead'
    <3>1. answer = Pending
      BY <2>1 DEF RepliesAreRead, Fetch
    <3>2. UNCHANGED <<items, request, answer>> /\ reply' = [reply EXCEPT ![i] = ReplyOf(Clients[i])]
      BY <2>1 DEF Fetch, ReplyOf
    <3>3. \A c : ReplyOf(c)' = ReplyOf(c)
      BY <3>2 DEF ReplyOf, Fetched
    <3>4. ASSUME NEW k \in DOMAIN Clients
          PROVE  reply'[k] \in {Pending, Failed, ReplyOf(Clients[k])}
      <4> HIDE DEF ReplyOf
      <4>1. CASE k = i
        BY <3>2, <4>1 DEF RepliesAreRead
      <4>2. CASE k # i
        BY <3>2, <4>2 DEF RepliesAreRead
      <4>3. QED
        BY <4>1, <4>2
    <3>5. DOMAIN reply' = DOMAIN Clients
      BY <3>2 DEF RepliesAreRead
    <3>6. QED
      BY <3>1, <3>2, <3>3, <3>4, <3>5 DEF RepliesAreRead
  <2>2. ASSUME NEW i \in DOMAIN Clients, FetchFails(i)
        PROVE  RepliesAreRead'
    <3>1. answer = Pending
      BY <2>2 DEF RepliesAreRead, FetchFails
    <3>2. UNCHANGED <<items, request, answer>> /\ reply' = [reply EXCEPT ![i] = Failed]
      BY <2>2 DEF FetchFails
    <3>3. \A c : ReplyOf(c)' = ReplyOf(c)
      BY <3>2 DEF ReplyOf, Fetched
    <3>4. ASSUME NEW k \in DOMAIN Clients
          PROVE  reply'[k] \in {Pending, Failed, ReplyOf(Clients[k])}
      <4>1. CASE k = i
        BY <3>2, <4>1 DEF RepliesAreRead
      <4>2. CASE k # i
        BY <3>2, <4>2 DEF RepliesAreRead
      <4>3. QED
        BY <4>1, <4>2
    <3>5. DOMAIN reply' = DOMAIN Clients
      BY <3>2 DEF RepliesAreRead
    <3>6. QED
      BY <3>1, <3>2, <3>3, <3>4, <3>5 DEF RepliesAreRead
  <2>3. CASE Gather
    <3>1. UNCHANGED <<items, request, reply>>
      BY <2>3 DEF Gather
    <3>2. answer' = Gathered /\ \A i \in DOMAIN Clients : reply[i] # Pending
      BY <2>3, Zenon DEF Gather, Gathered, Sent, Kept
    <3>3. Gathered' = Gathered
      BY <3>1 DEF Gathered, Sent, Kept, Succeeded, FlightsOf, Accepted
    <3>4. \A c : ReplyOf(c)' = ReplyOf(c)
      BY <3>1 DEF ReplyOf, Fetched
    <3>5. QED
      BY <3>1, <3>2, <3>3, <3>4 DEF RepliesAreRead
  <2>4. CASE UNCHANGED adapterVars
    <3>1. UNCHANGED <<items, request, reply, answer>>
      BY <2>4 DEF adapterVars
    <3>3. Gathered' = Gathered
      BY <3>1 DEF Gathered, Sent, Kept, Succeeded, FlightsOf, Accepted
    <3>4. \A c : ReplyOf(c)' = ReplyOf(c)
      BY <3>1 DEF ReplyOf, Fetched
    <3>5. QED
      BY <3>1, <3>3, <3>4 DEF RepliesAreRead
  <2>5. QED
    BY <2>1, <2>2, <2>3, <2>4 DEF AdaptersNext, Done
<1>3. QED
  BY <1>1, <1>2, PTL DEF AdaptersSpec

\* The item of a flight is the one it was made of: no two journeys have one number.
LEMMA ItemsAreFound ==
  ASSUME RepliesAreRead, NEW n \in DOMAIN items, NEW view, view.number = items[n].journey.number
  PROVE  ItemOf(view) = items[n]
<1>1. IsTimetable(items)
  BY AdaptersAssumption DEF RepliesAreRead
<1>2. items[n] \in ToSet(items)
  BY DEF ToSet
<1>3. \A item \in ToSet(items) : item.journey.number = view.number => item = items[n]
  BY <1>1, Zenon DEF ToSet, IsTimetable
<1>4. QED
  BY <1>2, <1>3, Zenon DEF ItemOf

\* The flights of a client that has answered.
LEMMA SuccessesAreRead ==
  ASSUME RepliesAreRead, NEW i \in Succeeded
  PROVE  /\ i \in DOMAIN Clients /\ Clients[i] \in Names
         /\ reply[i].flights = FetchedFrom(Clients[i], items)
         /\ IsTimetable(items) /\ ReadsTimetable(Clients[i], items)
<1>1. i \in DOMAIN Clients /\ reply[i].at = "ok"
  BY DEF Succeeded
<1>2. reply[i] = ReplyOf(Clients[i])
  BY <1>1 DEF RepliesAreRead, Pending, Failed
<1>3. reply[i].flights = FetchedFrom(Clients[i], items)
  BY <1>2 DEF ReplyOf, Fetched, FetchedFrom, ReadOf
<1>4. Clients[i] \in Names /\ IsTimetable(items)
  BY <1>1, AdaptersAssumption DEF RepliesAreRead
<1>5. QED
  BY <1>1, <1>3, <1>4, TimetablesAreRead

\* BadRecordCostsOnlyItself, for every timetable, whatever is wrong in it.
THEOREM BadRecordsCostOnlyThemselves == AdaptersSpec => []BadRecordCostsOnlyItself
<1>1. RepliesAreRead => BadRecordCostsOnlyItself
  <2> SUFFICES ASSUME RepliesAreRead, NEW i \in Succeeded
               PROVE  [k \in DOMAIN reply[i].flights |-> reply[i].flights[k].number]
                         = FlattenSeq(UsableNumbers(Clients[i], items))
    BY DEF BadRecordCostsOnlyItself, UsableNumbers
  <2>1. /\ Clients[i] \in Names /\ IsTimetable(items)
        /\ reply[i].flights = FetchedFrom(Clients[i], items)
    BY SuccessesAreRead
  <2>2. QED
    BY <2>1, NumbersInOrder
<1>2. QED
  BY <1>1, RepliesStayRead, PTL

\* ContradictionsAreReported, for every timetable.
THEOREM EveryContradictionIsReported == AdaptersSpec => []ContradictionsAreReported
<1>1. RepliesAreRead => ContradictionsAreReported
  <2> SUFFICES ASSUME RepliesAreRead, NEW i \in Succeeded, NEW k \in DOMAIN reply[i].flights,
                      ProseIsRead(Clients[i], ItemOf(reply[i].flights[k]))
               PROVE  reply[i].flights[k].warnings # {}
                         <=> Misstated(Clients[i], ItemOf(reply[i].flights[k]))
    BY DEF ContradictionsAreReported
  <2> DEFINE fs == reply[i].flights
             f == fs[k]
  <2>1. /\ Clients[i] \in Names /\ fs = FetchedFrom(Clients[i], items)
        /\ ReadsTimetable(Clients[i], items)
    BY SuccessesAreRead
  <2>2. /\ fs \in Seq(MadeOf(Clients[i], items))
        /\ \A m \in 1 .. Len(fs) :
              \E n \in DOMAIN items :
                 ~Fatal(Clients[i], items[n]) /\ ToldRight(Clients[i], items[n], fs[m])
    BY <2>1, Zenon DEF ReadsTimetable
  <2>3. k \in 1 .. Len(fs)
    BY <2>2
  <2>4. PICK n \in DOMAIN items : ToldRight(Clients[i], items[n], f)
    BY <2>2, <2>3, Zenon
  <2> HIDE DEF fs, f
  <2>5. f.number = items[n].journey.number /\ (f.warnings # {} <=> Misstated(Clients[i], items[n]))
    BY <2>4, Zenon DEF ToldRight
  <2>6. ItemOf(f) = items[n]
    BY <2>5, ItemsAreFound
  <2>7. f.warnings # {} <=> Misstated(Clients[i], ItemOf(f))
    BY <2>5, <2>6, Zenon
  <2>8. QED
    BY <2>7, Zenon DEF f, fs
<1>2. QED
  BY <1>1, RepliesStayRead, PTL

-----------------------------------------------------------------------------
(* The answer: what the service accepts, and shows.                        *)

\* A flight that says what its record says is accepted exactly if its journey fits the request and
\* its codes are tidy.
LEMMA AcceptedIfFits ==
  ASSUME request \in Requests, NEW client, NEW item, IsItem(item), NEW f, ToldRight(client, item, f)
  PROVE  Accepted(f) <=> Fits(item.journey) /\ OriginCode(item) = From(item.journey)
<1> DEFINE j == item.journey
<1>1. /\ request.origin \in DOMAIN Registry /\ request.cabin # Blank
  <2> DEFINE Cabins == {"economy", "premium_economy", "business", "first"}
  <2>1. request \in [origin : DOMAIN Registry, destination : DOMAIN Registry, date : Nat,
                     cabin : Cabins, passengers : Nat \ {0}]
    BY AdaptersAssumption
  <2> HIDE DEF Cabins
  <2>2. request.origin \in DOMAIN Registry /\ request.cabin \in Cabins
    BY <2>1
  <2>3. Blank \notin Cabins
    BY DEF Blank, Cabins
  <2>4. QED
    BY <2>2, <2>3, Zenon
<1>2. /\ Valid(f) /\ SaysSo(f, item)
  BY Zenon DEF ToldRight
<1>3. /\ Origin(f).airport = OriginCode(item) /\ Destination(f).airport = To(j)
      /\ DepartAt(f) = There(From(j), Leaves(j)) /\ f.segments # <<>>
      /\ f.cabin = j.cabin /\ f.seats = j.seats
  BY <1>2, Zenon DEF SaysSo
<1>4. LocalDate(DepartAt(f)) = (Leaves(j) + OffsetAt(From(j))) \div Day
  <2>1. DepartAt(f).at = Leaves(j) /\ DepartAt(f).offset = OffsetAt(From(j))
    BY <1>3 DEF There
  <2>2. QED
    BY <2>1, Zenon DEF LocalDate
<1>5. request.origin = OriginCode(item) => OriginCode(item) = From(j)
  <2>1. OriginCode(item) \in {"cgk", From(j)}
    BY DEF OriginCode
  <2>2. request.origin # "cgk"
    BY <1>1, RegistryFacts
  <2>3. QED
    BY <2>1, <2>2
<1>6. Accepted(f) <=> /\ OriginCode(item) = request.origin /\ To(j) = request.destination
                      /\ (Leaves(j) + OffsetAt(From(j))) \div Day = request.date
                      /\ j.cabin = request.cabin /\ j.seats >= request.passengers
  BY <1>1, <1>2, <1>3, <1>4, Zenon DEF Accepted, MatchesRoute, DepartsOn
<1>7. QED
  BY <1>5, <1>6, Zenon DEF Fits

\* Everything the replies may hold.
AllMade == UNION {MadeOf(client, items) : client \in Names}

\* What is kept are the accepted flights of the clients that answered.
KeepsAccepted ==
    /\ Len(Sent) \in Nat /\ Len(Kept) \in Nat /\ DOMAIN Kept = 1 .. Len(Kept)
    /\ Len(Sent) = Total([i \in DOMAIN Clients |-> Len(FlightsOf(i))])
    /\ \A k \in 1 .. Len(Kept) :
          \E i \in Succeeded : \E n \in DOMAIN items :
             /\ Accepted(Kept[k]) /\ ~Fatal(Clients[i], items[n])
             /\ ToldRight(Clients[i], items[n], Kept[k])
    /\ \A i \in Succeeded : \A n \in DOMAIN items :
          ~Fatal(Clients[i], items[n]) =>
             \E f : /\ ToldRight(Clients[i], items[n], f)
                    /\ Accepted(f) => \E k \in 1 .. Len(Kept) : Kept[k] = f

\* What the service keeps of replies that were read.
LEMMA AcceptedAreKept ==
  ASSUME RepliesAreRead
  PROVE  KeepsAccepted
<1> DEFINE S == AllMade
           ss == [i \in DOMAIN Clients |-> FlightsOf(i)]
           kk == [k \in DOMAIN Sent |-> IF Accepted(Sent[k]) THEN <<Sent[k]>> ELSE <<>>]
           c == Len(Clients)
           m == Len(Sent)
<1>1. c \in Nat /\ DOMAIN Clients = 1 .. c
  BY AdaptersAssumption
<1>2. ASSUME NEW i \in Succeeded
      PROVE  /\ i \in DOMAIN Clients /\ Clients[i] \in Names /\ FlightsOf(i) \in Seq(S)
             /\ FlightsOf(i) = FetchedFrom(Clients[i], items) /\ ReadsTimetable(Clients[i], items)
  <2>1. /\ i \in DOMAIN Clients /\ Clients[i] \in Names
        /\ reply[i].flights = FetchedFrom(Clients[i], items)
        /\ ReadsTimetable(Clients[i], items)
    BY SuccessesAreRead
  <2>2. FlightsOf(i) = FetchedFrom(Clients[i], items)
    BY <2>1 DEF FlightsOf
  <2>3. FlightsOf(i) \in Seq(MadeOf(Clients[i], items))
    BY <2>1, <2>2, Zenon DEF ReadsTimetable
  <2> DEFINE M == MadeOf(Clients[i], items)
  <2>4. M \subseteq S
    BY <2>1 DEF AllMade
  <2> HIDE DEF M, S
  <2>5. FlightsOf(i) \in Seq(S)
    <3> DEFINE fs == FlightsOf(i)
    <3>1. fs \in Seq(M)
      BY <2>3 DEF M
    <3> HIDE DEF fs
    <3>2. fs \in Seq(S)
      BY ONLY <2>4, <3>1
    <3>3. QED
      BY <3>2 DEF fs
  <2>6. QED
    BY <2>1, <2>2, <2>5
<1>3. ASSUME NEW i \in DOMAIN Clients PROVE FlightsOf(i) \in Seq(S)
  <2>1. CASE i \in Succeeded
    BY <1>2, <2>1
  <2>2. CASE i \notin Succeeded
    <3>1. FlightsOf(i) = <<>>
      BY <2>2 DEF FlightsOf
    <3> HIDE DEF S
    <3>2. QED
      BY <3>1
  <2>3. QED
    BY <2>1, <2>2
<1> HIDE DEF S, c
<1>4. /\ ss \in Seq(Seq(S)) /\ Len(ss) = c /\ DOMAIN ss = 1 .. c
      /\ \A i \in 1 .. c : ss[i] = FlightsOf(i)
  <2>1. /\ DOMAIN ss = 1 .. c /\ ss = [i \in 1 .. c |-> ss[i]]
        /\ \A i \in 1 .. c : ss[i] = FlightsOf(i)
    BY <1>1
  <2>2. \A i \in 1 .. c : ss[i] \in Seq(S)
    BY <1>1, <1>3, <2>1
  <2> HIDE DEF ss
  <2>3. ss \in Seq(Seq(S)) /\ Len(ss) = c
    BY ONLY <1>1, <2>1, <2>2
  <2>4. QED
    BY <2>1, <2>3
<1>5. Sent = FlattenSeq(ss)
  BY DEF Sent
<1>6. /\ Sent \in Seq(S) /\ Gathers(Sent, ss, c)
      /\ Len(Sent) = Total([i \in DOMAIN Clients |-> Len(FlightsOf(i))])
  <2>1. /\ Sent \in Seq(S) /\ Gathers(Sent, ss, c)
        /\ Len(Sent) = Total([i \in DOMAIN ss |-> Len(ss[i])])
    <3> HIDE DEF ss
    <3>1. QED
      BY <1>4, <1>5, FlattenFacts
  <2>2. [i \in DOMAIN ss |-> Len(ss[i])] = [i \in DOMAIN Clients |-> Len(FlightsOf(i))]
    <3> HIDE DEF ss
    <3>1. QED
      BY <1>1, <1>4
  <2>3. QED
    BY <2>1, <2>2
<1> HIDE DEF ss
<1>7. m \in Nat /\ DOMAIN Sent = 1 .. m
  BY <1>6
<1>8. /\ DOMAIN kk = 1 .. m /\ kk = [k \in 1 .. m |-> kk[k]]
      /\ \A k \in 1 .. m : kk[k] = IF Accepted(Sent[k]) THEN <<Sent[k]>> ELSE <<>>
  BY <1>7
<1> HIDE DEF kk
<1>9. ASSUME NEW k \in 1 .. m
      PROVE  /\ Sent[k] \in S /\ kk[k] \in Seq(S)
             /\ \A i \in 1 .. Len(kk[k]) : kk[k][i] = Sent[k] /\ Accepted(Sent[k])
             /\ Accepted(Sent[k]) => 1 \in 1 .. Len(kk[k])
  <2> DEFINE x == Sent[k]
             y == kk[k]
  <2>1. x \in S
    BY <1>6, <1>7
  <2>2. y = IF Accepted(x) THEN <<x>> ELSE <<>>
    BY <1>8
  <2> HIDE DEF x, y
  <2>3. CASE Accepted(x)
    <3>1. y = <<x>>
      BY <2>2, <2>3
    <3>2. y \in Seq(S) /\ Len(y) = 1 /\ y[1] = x /\ 1 .. Len(y) = {1}
      BY ONLY <2>1, <3>1
    <3>3. QED
      BY <2>1, <2>3, <3>2 DEF x, y
  <2>4. CASE ~Accepted(x)
    <3>1. y = <<>>
      BY <2>2, <2>4
    <3>2. y \in Seq(S) /\ 1 .. Len(y) = {}
      BY ONLY <3>1
    <3>3. QED
      BY <2>1, <2>4, <3>2 DEF x, y
  <2>5. QED
    BY <2>3, <2>4
<1> HIDE DEF m
<1>10. kk \in Seq(Seq(S)) /\ Len(kk) = m
  <2>1. \A k \in 1 .. m : kk[k] \in Seq(S)
    BY <1>9
  <2>2. QED
    BY ONLY <1>7, <1>8, <2>1
<1>11. Kept = FlattenSeq(kk)
  BY DEF Kept, kk
<1>12. Kept \in Seq(S) /\ Gathers(Kept, kk, m)
  BY <1>10, <1>11, FlattenFacts
<1>13. Len(Kept) \in Nat /\ DOMAIN Kept = 1 .. Len(Kept)
  BY <1>12
<1>14. ASSUME NEW k \in 1 .. Len(Kept)
       PROVE  \E i \in Succeeded : \E n \in DOMAIN items :
                /\ Accepted(Kept[k]) /\ ~Fatal(Clients[i], items[n])
                /\ ToldRight(Clients[i], items[n], Kept[k])
  <2>1. PICK p \in 1 .. m : \E q \in 1 .. Len(kk[p]) : Kept[k] = kk[p][q]
    BY <1>12, Zenon DEF Gathers
  <2>2. Kept[k] = Sent[p] /\ Accepted(Sent[p])
    BY <1>9, <2>1
  <2>3. PICK i \in 1 .. c : \E q \in 1 .. Len(ss[i]) : Sent[p] = ss[i][q]
    BY <1>6, Zenon DEF Gathers, m
  <2>4. PICK q \in 1 .. Len(ss[i]) : Sent[p] = ss[i][q]
    BY <2>3
  <2>5. ss[i] = FlightsOf(i) /\ i \in DOMAIN Clients
    BY <1>1, <1>4
  <2>6. i \in Succeeded
    <3>1. CASE i \notin Succeeded
      <4>1. ss[i] = <<>>
        BY <2>5, <3>1 DEF FlightsOf
      <4>2. 1 .. Len(ss[i]) = {}
        BY <4>1
      <4>3. QED
        BY <2>4, <4>2
    <3>2. QED
      BY <3>1
  <2>7. ss[i] = FetchedFrom(Clients[i], items) /\ ReadsTimetable(Clients[i], items)
    BY <1>2, <2>5, <2>6
  <2>8. PICK n \in DOMAIN items : /\ ~Fatal(Clients[i], items[n])
                                  /\ ToldRight(Clients[i], items[n], ss[i][q])
    BY <2>7, Zenon DEF ReadsTimetable
  <2>9. QED
    BY <2>2, <2>4, <2>6, <2>8, Zenon
<1>15. ASSUME NEW i \in Succeeded, NEW n \in DOMAIN items, ~Fatal(Clients[i], items[n])
       PROVE  \E f : /\ ToldRight(Clients[i], items[n], f)
                     /\ Accepted(f) => \E k \in 1 .. Len(Kept) : Kept[k] = f
  <2>1. /\ i \in DOMAIN Clients /\ FlightsOf(i) = FetchedFrom(Clients[i], items)
        /\ ReadsTimetable(Clients[i], items)
    BY <1>2
  <2>2. ss[i] = FetchedFrom(Clients[i], items) /\ i \in 1 .. c
    BY <1>1, <1>4, <2>1
  <2>3. PICK q \in 1 .. Len(ss[i]) : ToldRight(Clients[i], items[n], ss[i][q])
    BY <1>15, <2>1, <2>2, Zenon DEF ReadsTimetable
  <2>4. PICK p \in 1 .. Len(Sent) : Sent[p] = ss[i][q]
    BY <1>6, <2>2, Zenon DEF Gathers
  <2>5. ASSUME Accepted(Sent[p]) PROVE \E k \in 1 .. Len(Kept) : Kept[k] = Sent[p]
    <3>1. p \in 1 .. m
      BY DEF m
    <3>2. 1 \in 1 .. Len(kk[p]) /\ kk[p][1] = Sent[p]
      BY <1>9, <2>5, <3>1
    <3>3. PICK k \in 1 .. Len(Kept) : Kept[k] = kk[p][1]
      BY <1>12, <3>1, <3>2, Zenon DEF Gathers
    <3>4. QED
      BY <3>2, <3>3, Zenon
  <2>6. QED
    BY <2>3, <2>4, <2>5, Zenon
<1>16. QED
  BY <1>6, <1>7, <1>13, <1>14, <1>15, Zenon DEF KeepsAccepted, m

\* What an answer shows, flight by flight: the views of what was kept.
LEMMA AnswersAreViews ==
  ASSUME RepliesAreRead, Answered
  PROVE  /\ KeepsAccepted /\ request \in Requests /\ IsTimetable(items)
         /\ Len(answer.flights) = Len(Kept) /\ DOMAIN answer.flights = 1 .. Len(Kept)
         /\ \A k \in 1 .. Len(Kept) : answer.flights[k] = FlightView(Kept[k])
         /\ answer.dropped = Len(Sent) - Len(Kept)
<1>1. KeepsAccepted
  BY AcceptedAreKept
<1>2. request \in Requests /\ IsTimetable(items)
  BY AdaptersAssumption DEF RepliesAreRead
<1>3. answer = Gathered /\ answer # Failed
  BY DEF RepliesAreRead, Answered
<1>4. answer = [at |-> "ok", dropped |-> Len(Sent) - Len(Kept),
                flights |-> [k \in DOMAIN Kept |-> FlightView(Kept[k])]]
  BY <1>3, Zenon DEF Gathered
<1>5. /\ answer.dropped = Len(Sent) - Len(Kept)
      /\ answer.flights = [k \in DOMAIN Kept |-> FlightView(Kept[k])]
  BY <1>4
<1>6. DOMAIN Kept = 1 .. Len(Kept) /\ Len(Kept) \in Nat
  BY <1>1, Zenon DEF KeepsAccepted
<1> DEFINE fs == answer.flights
           m == Len(Kept)
           v == [k \in DOMAIN Kept |-> FlightView(Kept[k])]
<1>7. fs = [k \in 1 .. m |-> FlightView(Kept[k])] /\ m \in Nat
  BY <1>5, <1>6, Zenon
<1> HIDE DEF fs, m
<1>8. Len(fs) = m /\ DOMAIN fs = 1 .. m /\ \A k \in 1 .. m : fs[k] = FlightView(Kept[k])
  BY ONLY <1>7
<1>9. QED
  BY <1>1, <1>2, <1>5, <1>8 DEF fs, m

\* What one shown flight is: a client's right reading of a record, whose journey fits.
LEMMA ShownFlightsAreRead ==
  ASSUME RepliesAreRead, Answered, NEW k \in DOMAIN answer.flights
  PROVE  \E i \in Succeeded : \E n \in DOMAIN items :
            /\ i \in DOMAIN Clients /\ IsItem(items[n]) /\ ~Fatal(Clients[i], items[n])
            /\ Fits(items[n].journey) /\ OriginCode(items[n]) = From(items[n].journey)
            /\ answer.flights[k].provider = Clients[i]
            /\ answer.flights[k].number = items[n].journey.number
            /\ Agrees(answer.flights[k], items[n])
<1>1. /\ KeepsAccepted /\ request \in Requests /\ IsTimetable(items)
      /\ k \in 1 .. Len(Kept) /\ answer.flights[k] = FlightView(Kept[k])
  BY AnswersAreViews
<1> DEFINE f == Kept[k]
<1>2. PICK i \in Succeeded : \E n \in DOMAIN items :
         Accepted(f) /\ ~Fatal(Clients[i], items[n]) /\ ToldRight(Clients[i], items[n], f)
  BY <1>1, Zenon DEF KeepsAccepted
<1>3. PICK n \in DOMAIN items :
         Accepted(f) /\ ~Fatal(Clients[i], items[n]) /\ ToldRight(Clients[i], items[n], f)
  BY <1>2
<1> HIDE DEF f
<1>4. IsItem(items[n]) /\ i \in DOMAIN Clients
  BY <1>1, ItemsOfTimetables DEF Succeeded
<1>5. Fits(items[n].journey) /\ OriginCode(items[n]) = From(items[n].journey)
  BY <1>1, <1>3, <1>4, AcceptedIfFits
<1>6. Agrees(FlightView(f), items[n])
  BY <1>3, <1>4, <1>5, ViewsAgree DEF ToldRight
<1>7. FlightView(f).provider = Clients[i] /\ FlightView(f).number = items[n].journey.number
  <2>1. f.provider = Clients[i] /\ f.number = items[n].journey.number
    BY <1>3, Zenon DEF ToldRight
  <2>2. FlightView(f).provider = f.provider /\ FlightView(f).number = f.number
    BY DEF FlightView
  <2>3. QED
    BY <2>1, <2>2
<1>8. QED
  BY <1>1, <1>3, <1>4, <1>5, <1>6, <1>7, Zenon DEF f

\* TellingsAgree, for every timetable, list of clients and request.
THEOREM AllTellingsAgree == AdaptersSpec => []TellingsAgree
<1>1. RepliesAreRead => TellingsAgree
  <2> SUFFICES ASSUME RepliesAreRead, Answered, NEW k \in DOMAIN answer.flights
               PROVE  Agrees(answer.flights[k], ItemOf(answer.flights[k]))
    BY Zenon DEF TellingsAgree, Agrees
  <2>1. PICK i \in Succeeded : \E n \in DOMAIN items :
           /\ answer.flights[k].number = items[n].journey.number
           /\ Agrees(answer.flights[k], items[n])
    BY ShownFlightsAreRead, Zenon
  <2>2. PICK n \in DOMAIN items :
           /\ answer.flights[k].number = items[n].journey.number
           /\ Agrees(answer.flights[k], items[n])
    BY <2>1
  <2>3. ItemOf(answer.flights[k]) = items[n]
    BY <2>2, ItemsAreFound
  <2>4. QED
    BY <2>2, <2>3, Zenon
<1>2. QED
  BY <1>1, RepliesStayRead, PTL

\* AnswerFitsRequest, for every timetable, list of clients and request.
THEOREM AnswersFitRequests == AdaptersSpec => []AnswerFitsRequest
<1>1. RepliesAreRead => AnswerFitsRequest
  <2> SUFFICES ASSUME RepliesAreRead, Answered
               PROVE  AnswerFitsRequest
    BY DEF AnswerFitsRequest
  <2> DEFINE fs == answer.flights
             shown(i) == {k \in DOMAIN fs : fs[k].provider = Clients[i]}
             wanted(i) == {item \in ToSet(items) :
                             /\ i \in Succeeded /\ ~Fatal(Clients[i], item) /\ Fits(item.journey)
                             /\ OriginCode(item) = From(item.journey)}
             numbers(i) == {fs[k].number : k \in shown(i)}
             journeys(i) == {item.journey.number : item \in wanted(i)}
  <2>1. /\ KeepsAccepted /\ request \in Requests /\ IsTimetable(items)
        /\ Len(fs) = Len(Kept) /\ DOMAIN fs = 1 .. Len(Kept)
        /\ \A k \in 1 .. Len(Kept) : fs[k] = FlightView(Kept[k])
        /\ answer.dropped = Len(Sent) - Len(Kept)
    BY AnswersAreViews
  <2>2. ASSUME NEW i \in DOMAIN Clients, NEW k \in DOMAIN fs, fs[k].provider = Clients[i]
        PROVE  fs[k].number \in journeys(i)
    <3>1. PICK h \in Succeeded : \E n \in DOMAIN items :
             /\ h \in DOMAIN Clients /\ ~Fatal(Clients[h], items[n])
             /\ Fits(items[n].journey) /\ OriginCode(items[n]) = From(items[n].journey)
             /\ fs[k].provider = Clients[h] /\ fs[k].number = items[n].journey.number
      BY ShownFlightsAreRead, Zenon
    <3>2. PICK n \in DOMAIN items :
             /\ h \in DOMAIN Clients /\ ~Fatal(Clients[h], items[n])
             /\ Fits(items[n].journey) /\ OriginCode(items[n]) = From(items[n].journey)
             /\ fs[k].provider = Clients[h] /\ fs[k].number = items[n].journey.number
      BY <3>1
    <3>3. h = i
      BY <2>2, <3>2, AdaptersAssumption
    <3>4. items[n] \in wanted(i)
      BY <3>2, <3>3, Zenon DEF ToSet
    <3>5. QED
      BY <3>2, <3>4, Zenon
  <2>3. ASSUME NEW i \in DOMAIN Clients, NEW item \in wanted(i)
        PROVE  item.journey.number \in numbers(i)
    <3>1. /\ i \in Succeeded /\ ~Fatal(Clients[i], item) /\ Fits(item.journey)
          /\ OriginCode(item) = From(item.journey) /\ item \in ToSet(items)
      BY Zenon
    <3>2. PICK n \in DOMAIN items : item = items[n]
      BY <3>1 DEF ToSet
    <3>3. PICK f : /\ ToldRight(Clients[i], items[n], f)
                   /\ Accepted(f) => \E k \in 1 .. Len(Kept) : Kept[k] = f
      BY <2>1, <3>1, <3>2, Zenon DEF KeepsAccepted
    <3>4. IsItem(items[n])
      BY <2>1, ItemsOfTimetables
    <3>5. Accepted(f)
      BY <2>1, <3>1, <3>2, <3>3, <3>4, AcceptedIfFits
    <3>6. PICK k \in 1 .. Len(Kept) : Kept[k] = f
      BY <3>3, <3>5
    <3>7. f.provider = Clients[i] /\ f.number = items[n].journey.number
      BY <3>3, Zenon DEF ToldRight
    <3>8. FlightView(f).provider = f.provider /\ FlightView(f).number = f.number
      BY DEF FlightView
    <3>9. k \in shown(i) /\ fs[k].number = item.journey.number
      <4>1. fs[k] = FlightView(f) /\ k \in DOMAIN fs
        BY <2>1, <3>6
      <4> HIDE DEF fs
      <4>2. fs[k].provider = Clients[i] /\ fs[k].number = item.journey.number
        BY <3>2, <3>7, <3>8, <4>1, Zenon
      <4>3. QED
        BY <4>1, <4>2
    <3>10. QED
      BY <3>9
  <2>4. ASSUME NEW i \in DOMAIN Clients PROVE numbers(i) = journeys(i)
    <3>1. \A x \in numbers(i) : x \in journeys(i)
      <4> SUFFICES ASSUME NEW k \in shown(i) PROVE fs[k].number \in journeys(i)
        OBVIOUS
      <4>1. k \in DOMAIN fs /\ fs[k].provider = Clients[i]
        OBVIOUS
      <4>2. QED
        BY <2>2, <4>1
    <3>2. \A x \in journeys(i) : x \in numbers(i)
      <4> SUFFICES ASSUME NEW item \in wanted(i) PROVE item.journey.number \in numbers(i)
        OBVIOUS
      <4>1. QED
        BY <2>3
    <3> HIDE DEF numbers, journeys
    <3>3. QED
      BY <3>1, <3>2
  <2>5. Len(fs) + answer.dropped = Total([i \in DOMAIN Clients |-> Len(FlightsOf(i))])
    <3>1. /\ Len(Sent) \in Nat /\ Len(Kept) \in Nat
          /\ Len(Sent) = Total([i \in DOMAIN Clients |-> Len(FlightsOf(i))])
      BY <2>1, Zenon DEF KeepsAccepted
    <3> DEFINE x == Len(Sent)
               y == Len(Kept)
               z == Len(fs)
               d == answer.dropped
    <3>2. x \in Nat /\ y \in Nat /\ z = y /\ d = x - y
      BY <2>1, <3>1
    <3> HIDE DEF x, y, z, d
    <3>3. z + d = x
      BY ONLY <3>2
    <3>4. QED
      BY <3>1, <3>3, Zenon DEF x, z, d
  <2>6. QED
    BY <2>4, <2>5, Zenon DEF AnswerFitsRequest
<1>2. QED
  BY <1>1, RepliesStayRead, PTL
=============================================================================
