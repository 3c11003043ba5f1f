--------------------------- MODULE Lifecycle_proofs ---------------------------
(* The server's shutdown, for any number of clients and all timeouts that  *)
(* leave room for each other.                                              *)
EXTENDS Lifecycle, TLAPS

\* How long after its connection a request may be on its way to its answer.
Busy == ReadTimeout + SearchTime

-----------------------------------------------------------------------------
(* The inductive invariant.                                                *)

\* No deadline of request r is later than that of a connection made at time t can be, and no answer
\* came later.
AtMostBusySince(r, t) ==
    /\ r.at \in {"connected", "reading"} => r.readBy <= t + ReadTimeout
    /\ r.at = "searching" => r.searchBy <= t + Busy
    /\ r.at = "writing" => r.since <= t + Busy

\* Deadlines are enforced when they come, and the answer's is counted from no earlier than the
\* connection.
RequestInv(r) ==
    /\ r.at \in {"none", "connected", "reading", "searching", "writing", "over", "cut"}
    /\ r.at \in {"connected", "reading"} => r.readBy \in Nat /\ now <= r.readBy
    /\ r.at = "reading" => r.writeBy \in Nat /\ r.readBy + WriteTimeout <= r.writeBy + ReadTimeout
    /\ r.at = "searching" =>
          /\ r.writeBy \in Nat /\ r.searchBy \in Nat /\ now <= r.searchBy
          /\ r.searchBy + WriteTimeout <= r.writeBy + Busy
    /\ r.at = "writing" =>
          /\ r.writeBy \in Nat /\ r.since \in Nat /\ r.since <= now
          /\ r.since + WriteTimeout <= r.writeBy + Busy
    /\ r.at \in {"over", "cut"} => r.slow \in BOOLEAN
    /\ AtMostBusySince(r, now)

\* No connection is newer than the shutdown; a request that ended late in it had a slow client; and
\* once no request is in flight, Shutdown notices at its next look.
ShuttingInv ==
    /\ main.since \in Nat /\ main.since <= now
    /\ listener \in {"failed", "closed"}
    /\ \A c \in Clients : AtMostBusySince(request[c], main.since)
    /\ calm > main.since + Busy => \E c \in Clients : Slow(c)
    /\ Idle => now <= Later(main.since, calm) + PollInterval

\* What an ended server leaves behind.
EndedInv ==
    /\ Idle
    /\ main.code = 0 => \A c \in Clients : request[c].at # "cut"
    /\ main.why # "listener" => \A c \in Clients : request[c].at = "cut" => Slow(c)
    /\ main.why = "timeout" => \E c \in Clients : Slow(c)

LifeInv ==
    /\ now \in Nat /\ calm \in Nat /\ calm <= now
    /\ DOMAIN request = Clients
    /\ main.at \in {"waiting", "shutting", "exited"}
    /\ \A c \in Clients : RequestInv(request[c])
    /\ Alive => \A c \in Clients : request[c].at # "cut"
    /\ main.at = "shutting" => ShuttingInv
    /\ main.at = "exited" => EndedInv

-----------------------------------------------------------------------------
(* Requests.                                                               *)

\* The timeouts are naturals.
LEMMA Timeouts ==
  /\ ReadTimeout \in Nat /\ WriteTimeout \in Nat /\ SearchTime \in Nat /\ PollInterval \in Nat
  /\ ShutdownTimeout \in Nat /\ Busy \in Nat /\ ReadTimeout <= Busy
  BY LifecycleAssumption DEF Busy

\* A request may go from where it stands to `to` if it keeps to its deadlines, and if it ends late
\* only because of its client.
LEMMA RequestMoves ==
  ASSUME LifeInv, Alive, NEW c \in Clients, InFlight(c), NEW to, Moves(c, to),
         to.at \in {"reading", "searching", "writing", "over"}, RequestInv(to),
         \A t \in Nat : AtMostBusySince(request[c], t) =>
             AtMostBusySince(to, t) /\ (to.at = "over" => to.slow \/ now <= t + Busy)
  PROVE  LifeInv'
<1>1. /\ now \in Nat /\ calm \in Nat /\ calm <= now /\ main.at \in {"waiting", "shutting"}
      /\ DOMAIN request = Clients
  BY DEF LifeInv, Alive
<1>2. /\ request'[c] = to /\ DOMAIN request' = Clients
      /\ \A d \in Clients : d # c => request'[d] = request[d]
      /\ calm' = (IF to.at = "over" THEN now ELSE calm)
      /\ now' = now /\ main' = main /\ listener' = listener
  BY <1>1 DEF Moves
<1>3. \A d \in Clients : RequestInv(request[d])' /\ request'[d].at # "cut"
  <2>1. \A d \in Clients : RequestInv(request[d]) /\ request[d].at # "cut"
    BY DEF LifeInv
  <2>2. RequestInv(to)' /\ \A d \in Clients : RequestInv(request[d]) => d = c \/ RequestInv(request[d])'
    BY <1>2 DEF RequestInv, AtMostBusySince
  <2>3. QED
    BY <1>2, <2>1, <2>2
<1>4. ASSUME main.at = "shutting" PROVE ShuttingInv'
  <2>1. ShuttingInv
    BY <1>4 DEF LifeInv
  <2>2. main.since \in Nat /\ AtMostBusySince(request[c], main.since)
    BY <2>1 DEF ShuttingInv
  <2>3. AtMostBusySince(to, main.since) /\ (to.at = "over" => to.slow \/ now <= main.since + Busy)
    BY <2>2
  <2>4. \A d \in Clients : AtMostBusySince(request[d], main.since)'
    BY <1>2, <2>1, <2>3 DEF ShuttingInv, AtMostBusySince
  <2>5. (calm > main.since + Busy => \E d \in Clients : Slow(d))'
    <3>1. ASSUME NEW d \in Clients, Slow(d) PROVE Slow(d)'
      BY <1>2, <3>1 DEF Slow, InFlight
    <3>2. CASE to.at = "over" /\ to.slow
      BY <1>2, <3>2 DEF Slow
    <3>3. CASE to.at = "over" /\ ~to.slow
      BY <1>1, <1>2, <2>2, <2>3, <3>3, Timeouts
    <3>4. CASE to.at # "over"
      BY <1>2, <2>1, <3>1, <3>4 DEF ShuttingInv
    <3>5. QED
      BY <3>2, <3>3, <3>4
  <2>6. (Idle => now <= Later(main.since, calm) + PollInterval)'
    <3>1. CASE to.at = "over"
      BY <1>1, <1>2, <2>1, <3>1, Timeouts DEF Later, ShuttingInv
    <3>2. CASE to.at # "over"
      BY <1>2, <3>2 DEF Idle, InFlight
    <3>3. QED
      BY <3>1, <3>2
  <2>7. QED
    BY <1>2, <2>1, <2>4, <2>5, <2>6 DEF ShuttingInv
<1>5. QED
  BY <1>1, <1>2, <1>3, <1>4 DEF LifeInv

\* Headers, body, search and answer all keep a request within its deadlines.
LEMMA ServeKeeps ==
  ASSUME LifeInv, NEW c \in Clients, Serve(c)
  PROVE  LifeInv'
<1> DEFINE r == request[c]
<1>1. RequestInv(r) /\ now \in Nat
  BY DEF LifeInv
<1>a. Alive /\ InFlight(c)
  BY DEF Serve, SendHeaders, Decode, Reply, Finish, InFlight
<1>2. CASE SendHeaders(c)
  <2>1. r.at = "connected" /\ r.readBy \in Nat /\ now <= r.readBy /\ r.readBy <= now + ReadTimeout
    BY <1>1, <1>2 DEF SendHeaders, RequestInv, AtMostBusySince
  <2>2. CASE Moves(c, [at |-> "reading", readBy |-> r.readBy, writeBy |-> now + WriteTimeout])
    <3> DEFINE to == [at |-> "reading", readBy |-> r.readBy, writeBy |-> now + WriteTimeout]
    <3>1. to.at = "reading" /\ to.readBy = r.readBy /\ to.writeBy = now + WriteTimeout
      OBVIOUS
    <3> HIDE DEF to
    <3>2. RequestInv(to)
      BY <1>1, <2>1, <3>1, Timeouts DEF RequestInv, AtMostBusySince
    <3>3. \A t \in Nat : AtMostBusySince(r, t) => AtMostBusySince(to, t)
      BY <2>1, <3>1 DEF AtMostBusySince
    <3>4. Moves(c, to)
      BY <2>2 DEF to
    <3>5. QED
      BY <1>a, <3>1, <3>2, <3>3, <3>4, RequestMoves
  <2>3. CASE Moves(c, [at |-> "over", slow |-> FALSE])
    <3> DEFINE to == [at |-> "over", slow |-> FALSE]
    <3>1. to.at = "over" /\ to.slow = FALSE
      OBVIOUS
    <3> HIDE DEF to
    <3>2. RequestInv(to)
      BY <3>1 DEF RequestInv, AtMostBusySince
    <3>3. \A t \in Nat : AtMostBusySince(r, t) => AtMostBusySince(to, t) /\ now <= t + Busy
      BY <1>1, <2>1, <3>1, Timeouts DEF AtMostBusySince
    <3>4. Moves(c, to)
      BY <2>3 DEF to
    <3>5. QED
      BY <1>a, <3>1, <3>2, <3>3, <3>4, RequestMoves
  <2>4. QED
    BY <1>2, <2>2, <2>3 DEF SendHeaders
<1>3. ASSUME NEW to, Moves(c, to), r.at \in {"reading", "searching"}, to = Answering(c),
             r.at = "reading" => now <= r.readBy, r.at = "searching" => now <= r.searchBy
      PROVE  LifeInv'
  <2>1. to.at = "writing" /\ to.writeBy = r.writeBy /\ to.since = now
    BY <1>3 DEF Answering
  <2>2. /\ r.writeBy \in Nat /\ now + WriteTimeout <= r.writeBy + Busy /\ now <= now + Busy
    BY <1>1, <1>3, Timeouts DEF RequestInv, Busy
  <2>3. RequestInv(to)
    BY <1>1, <2>1, <2>2, Timeouts DEF RequestInv, AtMostBusySince
  <2>4. ASSUME NEW t \in Nat, AtMostBusySince(r, t) PROVE AtMostBusySince(to, t)
    BY <1>1, <1>3, <2>1, <2>4, Timeouts DEF AtMostBusySince, RequestInv
  <2>5. QED
    BY <1>a, <1>3, <2>1, <2>3, <2>4, RequestMoves
<1>4. CASE Decode(c)
  <2>1. /\ r.at = "reading" /\ r.readBy \in Nat /\ now <= r.readBy /\ r.readBy <= now + ReadTimeout
        /\ r.writeBy \in Nat /\ r.readBy + WriteTimeout <= r.writeBy + ReadTimeout
    BY <1>1, <1>4 DEF Decode, RequestInv, AtMostBusySince
  <2>2. CASE Moves(c, [at |-> "searching", writeBy |-> r.writeBy, searchBy |-> now + SearchTime])
    <3> DEFINE to == [at |-> "searching", writeBy |-> r.writeBy, searchBy |-> now + SearchTime]
    <3>1. to.at = "searching" /\ to.writeBy = r.writeBy /\ to.searchBy = now + SearchTime
      OBVIOUS
    <3> HIDE DEF to
    <3>2. RequestInv(to)
      BY <1>1, <2>1, <3>1, Timeouts DEF RequestInv, AtMostBusySince, Busy
    <3>3. \A t \in Nat : AtMostBusySince(r, t) => AtMostBusySince(to, t)
      BY <1>1, <2>1, <3>1, Timeouts DEF AtMostBusySince, Busy
    <3>4. Moves(c, to)
      BY <2>2 DEF to
    <3>5. QED
      BY <1>a, <3>1, <3>2, <3>3, <3>4, RequestMoves
  <2>3. CASE Moves(c, Answering(c))
    BY <1>3, <2>1, <2>3
  <2>4. QED
    BY <1>4, <2>2, <2>3 DEF Decode
<1>5. CASE Reply(c)
  BY <1>1, <1>3, <1>5 DEF Reply, RequestInv
<1>6. CASE Finish(c)
  <2> DEFINE to == [at |-> "over", slow |-> r.since < now]
  <2>1. r.at = "writing" /\ r.since \in Nat /\ r.since <= now
    BY <1>1, <1>6 DEF Finish, RequestInv
  <2>2. to.at = "over" /\ to.slow \in BOOLEAN /\ (to.slow <=> r.since < now)
    <3>1. to.at = "over" /\ to.slow = (r.since < now)
      BY Zenon
    <3>2. (r.since < now) \in BOOLEAN
      BY <1>1, <2>1
    <3>3. to.slow <=> r.since < now
      BY <3>1, Zenon
    <3>4. QED
      BY <3>1, <3>2, <3>3, Zenon DEF to
  <2>3. Moves(c, to)
    BY <1>6 DEF Finish
  <2> HIDE DEF to
  <2>4. RequestInv(to)
    BY <2>2 DEF RequestInv, AtMostBusySince
  <2>5. ASSUME NEW t \in Nat, AtMostBusySince(r, t)
        PROVE  AtMostBusySince(to, t) /\ (to.slow \/ now <= t + Busy)
    <3>1. r.since <= t + Busy
      BY <2>1, <2>5 DEF AtMostBusySince
    <3>2. to.slow \/ r.since = now
      BY <1>1, <2>1, <2>2
    <3>3. QED
      BY <2>2, <3>1, <3>2 DEF AtMostBusySince
  <2>6. QED
    BY <1>a, <2>2, <2>3, <2>4, <2>5, RequestMoves
<1>7. QED
  BY <1>2, <1>4, <1>5, <1>6 DEF Serve

\* A connection is made before any shutdown.
LEMMA ConnectKeeps ==
  ASSUME LifeInv, NEW c \in Clients, Connect(c)
  PROVE  LifeInv'
<1> DEFINE to == [at |-> "connected", readBy |-> now + ReadTimeout]
<1>1. to.at = "connected" /\ to.readBy = now + ReadTimeout
  OBVIOUS
<1>2. /\ Alive /\ listener = "open" /\ request' = [request EXCEPT ![c] = to]
      /\ UNCHANGED <<now, listener, main, calm>>
  BY DEF Connect
<1> HIDE DEF to
<1>3. main.at = "waiting" /\ now \in Nat /\ DOMAIN request = Clients
  BY <1>2 DEF LifeInv, Alive, ShuttingInv
<1>4. request'[c] = to /\ \A d \in Clients : d # c => request'[d] = request[d]
  BY <1>2, <1>3
<1>5. RequestInv(request[c])'
  BY <1>1, <1>2, <1>3, <1>4, Timeouts DEF RequestInv, AtMostBusySince
<1>6. \A d \in Clients : RequestInv(request[d]) => d = c \/ RequestInv(request[d])'
  BY <1>2, <1>4 DEF RequestInv, AtMostBusySince
<1>7. \A d \in Clients : RequestInv(request[d])' /\ request'[d].at # "cut"
  BY <1>1, <1>2, <1>4, <1>5, <1>6 DEF LifeInv
<1>8. QED
  BY <1>2, <1>3, <1>7 DEF LifeInv

\* Where requests, clock and main stay as they are, so does the invariant.
LEMMA RestKeeps ==
  ASSUME LifeInv, UNCHANGED <<now, main, request, calm>>,
         main.at = "shutting" => listener' = listener
  PROVE  LifeInv'
<1>1. \A c \in Clients : RequestInv(request[c])'
  BY DEF LifeInv, RequestInv, AtMostBusySince
<1>s. (\A c \in Clients : Slow(c)' <=> Slow(c)) /\ (Idle' <=> Idle)
  BY DEF Slow, Idle, InFlight
<1>2. main.at = "shutting" => ShuttingInv'
  BY <1>s DEF LifeInv, ShuttingInv, AtMostBusySince
<1>3. main.at = "exited" => EndedInv'
  BY <1>s DEF LifeInv, EndedInv
<1>4. QED
  BY <1>1, <1>2, <1>3 DEF LifeInv, Alive

\* While the clock advances every deadline is still to come, and so is the look that ends an idle
\* shutdown.
LEMMA TickKeeps ==
  ASSUME LifeInv, Tick
  PROVE  LifeInv'
<1>1. /\ now \in Nat /\ calm \in Nat /\ calm <= now /\ now' = now + 1 /\ now' \in Nat
      /\ UNCHANGED <<listener, main, request, calm>>
  BY DEF LifeInv, Tick
<1>2. ASSUME NEW c \in Clients PROVE RequestInv(request[c])'
  <2>1. RequestInv(request[c]) /\ ~Overdue(c)
    BY DEF LifeInv, Tick
  <2>2. AtMostBusySince(request[c], now)'
    BY <1>1, <2>1, Timeouts DEF RequestInv, AtMostBusySince, Overdue
  <2>3. QED
    BY <1>1, <2>1, <2>2 DEF RequestInv, Overdue
<1>3. ASSUME main.at = "shutting" PROVE ShuttingInv'
  <2>1. ShuttingInv /\ ~MainIsDue
    BY <1>3 DEF LifeInv, Tick
  <2>2. main.since \in Nat /\ main.since <= now'
    BY <1>1, <2>1 DEF ShuttingInv
  <2>3. (Idle => now <= Later(main.since, calm) + PollInterval)'
    BY <1>1, <1>3, <2>1, <2>2, Timeouts DEF MainIsDue, Idle, InFlight, Later
  <2>4. QED
    BY <1>1, <2>1, <2>2, <2>3 DEF ShuttingInv, AtMostBusySince, Slow
<1>4. main.at # "exited"
  BY DEF Tick, Alive
<1>5. QED
  BY <1>1, <1>2, <1>3, <1>4 DEF LifeInv, Alive

\* A shutdown begins with connections that have been made, and nothing has ended in it yet.
LEMMA BeginShutdownKeeps ==
  ASSUME LifeInv, BeginShutdown
  PROVE  LifeInv'
<1>1. /\ now \in Nat /\ calm \in Nat /\ calm <= now /\ main.at = "waiting"
      /\ main'.at = "shutting" /\ main'.since = now /\ listener' \in {"failed", "closed"}
      /\ UNCHANGED <<now, request, calm>>
  BY DEF LifeInv, BeginShutdown
<1>2. \A c \in Clients : RequestInv(request[c])' /\ AtMostBusySince(request[c], now)
  BY <1>1 DEF LifeInv, RequestInv, AtMostBusySince
<1>3. ShuttingInv'
  <2>1. \A c \in Clients : AtMostBusySince(request[c], main.since)'
    BY <1>1, <1>2 DEF AtMostBusySince
  <2>2. ~(calm > main.since + Busy)'
    BY <1>1, Timeouts
  <2>3. (now <= Later(main.since, calm) + PollInterval)'
    BY <1>1, Timeouts DEF Later
  <2>4. QED
    BY <1>1, <2>1, <2>2, <2>3 DEF ShuttingInv
<1>4. QED
  BY <1>1, <1>2, <1>3 DEF LifeInv, Alive

\* The requests an exit leaves: those in flight are cut off, and whose client was slow stays slow.
LEMMA ExitLeaves ==
  ASSUME LifeInv, Alive, NEW code, NEW why, Exit(code, why)
  PROVE  /\ now' = now /\ calm' = calm /\ main'.at = "exited" /\ main'.code = code /\ main'.why = why
         /\ DOMAIN request' = Clients /\ Idle' /\ \A c \in Clients : RequestInv(request[c])'
         /\ \A c \in Clients : (request'[c].at = "cut") <=> InFlight(c)
         /\ \A c \in Clients : Slow(c) => Slow(c)'
         /\ \A c \in Clients : request[c].at = "writing" /\ request[c].since < now => Slow(c)'
<1> DEFINE late(c) == request[c].at = "writing" /\ request[c].since < now
           cut(c)  == [at |-> "cut", slow |-> late(c)]
<1>1. /\ now' = now /\ calm' = calm /\ main'.at = "exited" /\ main'.code = code /\ main'.why = why
      /\ request' = [c \in Clients |-> IF InFlight(c) THEN cut(c) ELSE request[c]]
  BY DEF Exit
<1>2. ASSUME NEW c \in Clients
      PROVE  cut(c).at = "cut" /\ cut(c).slow \in BOOLEAN /\ (cut(c).slow <=> late(c))
  <2> DEFINE l == late(c)
  <2>1. l \in BOOLEAN
    OBVIOUS
  <2> HIDE DEF l
  <2>2. /\ [at |-> "cut", slow |-> l].at = "cut"
        /\ [at |-> "cut", slow |-> l].slow = l
    BY Zenon
  <2>3. QED
    BY <2>1, <2>2, Zenon DEF l
<1> HIDE DEF late, cut
<1>3. ASSUME NEW c \in Clients
      PROVE  request'[c] = IF InFlight(c) THEN cut(c) ELSE request[c]
  BY <1>1, <1>3
<1>4. \A c \in Clients : RequestInv(request[c]) /\ request[c].at # "cut"
  BY DEF LifeInv
<1>5. ASSUME NEW c \in Clients
      PROVE  /\ RequestInv(request[c])'
             /\ request'[c].at = "cut" <=> InFlight(c)
             /\ ~InFlight(c)'
             /\ Slow(c) => Slow(c)'
             /\ late(c) => Slow(c)'
  <2>1. CASE InFlight(c)
    <3>1. request'[c].at = "cut" /\ request'[c].slow \in BOOLEAN /\ (request'[c].slow <=> late(c))
      BY <1>2, <1>3, <2>1
    <3>2. QED
      BY <2>1, <3>1 DEF RequestInv, AtMostBusySince, InFlight, Slow
  <2>2. CASE ~InFlight(c)
    <3>1. request'[c] = request[c] /\ ~late(c)
      BY <1>3, <2>2 DEF late, InFlight
    <3>2. QED
      BY <1>1, <1>4, <2>2, <3>1 DEF RequestInv, AtMostBusySince, InFlight, Slow
  <2>3. QED
    BY <2>1, <2>2
<1>6. QED
  BY <1>1, <1>5 DEF Idle, late

\* A failed listener cuts off whoever it finds; a finished shutdown finds nobody; and one that gives
\* up has waited for so long that only a slow client can be left, or can have just been left.
LEMMA ExitKeeps ==
  ASSUME LifeInv, Busy + PollInterval < ShutdownTimeout, FailOnError \/ EndShutdown \/ GiveUp
  PROVE  LifeInv'
<1>1. now \in Nat /\ calm \in Nat /\ calm <= now /\ \A c \in Clients : RequestInv(request[c])
  BY DEF LifeInv
<1>2. ASSUME NEW code, NEW why, Alive, Exit(code, why),
             code = 0 => \A c \in Clients : ~InFlight(c),
             why # "listener" => \A c \in Clients : InFlight(c) =>
                                    request[c].at = "writing" /\ request[c].since < now,
             why = "timeout" => \E c \in Clients : Slow(c)
                                    \/ (request[c].at = "writing" /\ request[c].since < now)
      PROVE  LifeInv'
  <2>1. EndedInv'
    BY <1>2, ExitLeaves DEF EndedInv
  <2>2. QED
    BY <1>1, <1>2, <2>1, ExitLeaves DEF LifeInv, Alive
<1>3. CASE FailOnError
  <2>1. Alive /\ Exit(1, "listener")
    BY <1>3 DEF FailOnError, Alive
  <2>2. QED
    BY <1>2, <2>1
<1>4. CASE EndShutdown
  <2>1. Alive /\ Exit(0, "signal") /\ \A c \in Clients : ~InFlight(c)
    BY <1>4 DEF EndShutdown, Alive, Idle
  <2>2. QED
    BY <1>2, <2>1
<1>5. CASE GiveUp
  <2>1. Alive /\ Exit(1, "timeout") /\ ShuttingInv /\ now >= main.since + ShutdownTimeout
    BY <1>5 DEF GiveUp, Alive, LifeInv
  <2>2. main.since \in Nat /\ main.since + Busy + PollInterval < now
    BY <1>1, <2>1, Timeouts DEF ShuttingInv
  <2>3. ASSUME NEW c \in Clients, InFlight(c)
        PROVE  request[c].at = "writing" /\ request[c].since < now
    <3>1. RequestInv(request[c]) /\ AtMostBusySince(request[c], main.since)
      BY <1>1, <2>1 DEF ShuttingInv
    <3>2. QED
      BY <1>1, <2>2, <2>3, <3>1, Timeouts DEF RequestInv, AtMostBusySince, InFlight
  <2>4. \E c \in Clients : Slow(c) \/ (request[c].at = "writing" /\ request[c].since < now)
    <3>1. CASE Idle
      <4>1. now <= Later(main.since, calm) + PollInterval
        BY <2>1, <3>1 DEF ShuttingInv
      <4>2. calm > main.since + Busy
        BY <1>1, <2>2, <4>1, Timeouts DEF Later
      <4>3. QED
        BY <2>1, <4>2 DEF ShuttingInv
    <3>2. CASE ~Idle
      BY <2>3, <3>2 DEF Idle
    <3>3. QED
      BY <3>1, <3>2
  <2>5. QED
    BY <1>2, <2>1, <2>3, <2>4
<1>6. QED
  BY <1>3, <1>4, <1>5

-----------------------------------------------------------------------------
(* The theorem.                                                            *)

\* Every step keeps the invariant, if reading, searching and a look fit into a shutdown.
LEMMA LifeStep ==
  ASSUME LifeInv, Busy + PollInterval < ShutdownTimeout, [Next]_vars
  PROVE  LifeInv'
<1>1. CASE Listen \/ ListenFails \/ Signal
  <2>1. /\ UNCHANGED <<now, main, request, calm>>
        /\ listener' = listener \/ listener \in {"starting", "open"}
    BY <1>1 DEF Listen, ListenFails, Signal
  <2>2. main.at = "shutting" => listener' = listener
    BY <2>1 DEF LifeInv, ShuttingInv
  <2>3. QED
    BY <2>1, <2>2, RestKeeps
<1>2. ASSUME NEW c \in Clients, Connect(c) \/ Serve(c) PROVE LifeInv'
  BY <1>2, ConnectKeeps, ServeKeeps
<1>3. CASE Main
  BY <1>3, BeginShutdownKeeps, ExitKeeps DEF Main
<1>4. CASE Tick
  BY <1>4, TickKeeps
<1>5. CASE Quiet \/ UNCHANGED vars
  <2>1. UNCHANGED <<now, listener, main, request, calm>>
    BY <1>5 DEF Quiet, vars
  <2>2. QED
    BY <2>1, RestKeeps
<1>6. QED
  BY <1>1, <1>2, <1>3, <1>4, <1>5 DEF Next

\* A shutdown is graceful for any number of clients, if reading a request and searching take less
\* than there is to write an answer, and together with a look of Shutdown's less than it waits.
\* (app.go: 5 seconds to read against 10 and 10, which leaves a search just under 5.)
THEOREM ShutdownsAreGraceful ==
  ASSUME Busy < WriteTimeout, Busy + PollInterval < ShutdownTimeout
  PROVE  Spec => []ShutdownIsGraceful
<1>1. Init => LifeInv
  <2> SUFFICES ASSUME Init PROVE LifeInv
    OBVIOUS
  <2>1. \A c \in Clients : request[c].at = "none"
    BY DEF Init
  <2>2. QED
    BY <2>1 DEF Init, LifeInv, RequestInv, AtMostBusySince
<1>2. LifeInv /\ [Next]_vars => LifeInv'
  BY LifeStep
<1>3. LifeInv => ShutdownIsGraceful
  <2> SUFFICES ASSUME LifeInv PROVE ShutdownIsGraceful
    OBVIOUS
  <2>1. ASSUME NEW c \in Clients, request[c].at = "writing"
        PROVE  request[c].since < request[c].writeBy
    <3>1. RequestInv(request[c])
      BY DEF LifeInv
    <3>2. QED
      BY <2>1, <3>1, Timeouts DEF RequestInv
  <2>2. ~Alive => EndedInv
    BY DEF LifeInv, Alive
  <2>3. QED
    BY <2>1, <2>2 DEF EndedInv, ShutdownIsGraceful
<1>4. QED
  BY <1>1, <1>2, <1>3, PTL DEF Spec
=============================================================================
