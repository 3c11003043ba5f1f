------------------------------- MODULE Lifecycle ------------------------------
(***************************************************************************)
(* cmd/app.go: the listening goroutine, main's wait for its failure or for *)
(* a signal, and the graceful shutdown, while requests are in flight.      *)
(*                                                                         *)
(* net/http is outside of the repository.  What the model takes from it:   *)
(* ReadTimeout counts from the connection and covers headers and body,     *)
(* WriteTimeout counts from the headers; Shutdown closes the listener,     *)
(* then looks at intervals whether connections are idle, until they are or *)
(* its context is over.  Clients take as long as they like.                *)
(***************************************************************************)
EXTENDS Integers

CONSTANTS
    Clients,          \* one connection with one request each
    ReadTimeout, WriteTimeout, ShutdownTimeout,   \* as in app.go, in clock ticks
    SearchTime,       \* the longest a search takes: see SearchService, BackInBudget
    PollInterval,     \* the longest between two looks of Shutdown
    Horizon,          \* bound: no connection, failure or signal is later
    MaxTime           \* bound: the clock stops here

ASSUME LifecycleAssumption ==
    /\ ReadTimeout \in Nat \ {0} /\ WriteTimeout \in Nat \ {0} /\ ShutdownTimeout \in Nat \ {0}
    /\ SearchTime \in Nat /\ PollInterval \in Nat /\ Horizon \in Nat /\ MaxTime \in Nat

VARIABLES
    now,         \* the clock
    listener,    \* starting, open, failed or closed
    serverErr,   \* whether the channel holds the listener's error
    signalled,   \* whether the signal context is done
    main,        \* where main stands, with the exit code once it has ended
    request,     \* where each client's request stands
    calm         \* when the last request ended

vars == <<now, listener, serverErr, signalled, main, request, calm>>

Init ==
    /\ now = 0 /\ calm = 0
    /\ listener = "starting"
    /\ serverErr = FALSE /\ signalled = FALSE
    /\ main = [at |-> "waiting"]
    /\ request = [c \in Clients |-> [at |-> "none"]]

Alive == main.at # "exited"

InFlight(c) == request[c].at \in {"connected", "reading", "searching", "writing"}

-----------------------------------------------------------------------------
(* The listening goroutine.                                                *)

Listen ==
    /\ Alive /\ listener = "starting"
    /\ listener' = "open"
    /\ UNCHANGED <<now, serverErr, signalled, main, request, calm>>

\* Mutant: the error is logged, and main never hears of it.
ListenFailsSilently ==
    /\ Alive /\ listener \in {"starting", "open"} /\ now <= Horizon
    /\ listener' = "failed"
    /\ UNCHANGED <<now, serverErr, signalled, main, request, calm>>

\* ListenAndServe returns an error: the address is taken, or accepting fails later on.
ListenFails ==
    /\ Alive /\ listener \in {"starting", "open"} /\ now <= Horizon
    /\ listener' = "failed" /\ serverErr' = TRUE
    /\ UNCHANGED <<now, signalled, main, request, calm>>

-----------------------------------------------------------------------------
(* Requests.                                                               *)

Connect(c) ==
    /\ Alive /\ listener = "open" /\ request[c].at = "none" /\ now <= Horizon
    /\ request' = [request EXCEPT ![c] = [at |-> "connected", readBy |-> now + ReadTimeout]]
    /\ UNCHANGED <<now, listener, serverErr, signalled, main, calm>>

Moves(c, to) ==
    /\ request' = [request EXCEPT ![c] = to]
    /\ calm' = IF to.at = "over" THEN now ELSE calm
    /\ UNCHANGED <<now, listener, serverErr, signalled, main>>

\* The headers arrive and start the time there is to write an answer; or they do not.
SendHeaders(c) ==
    /\ Alive /\ request[c].at = "connected"
    /\ \/ Moves(c, [at |-> "reading", readBy |-> request[c].readBy, writeBy |-> now + WriteTimeout])
       \/ now >= request[c].readBy /\ Moves(c, [at |-> "over", slow |-> FALSE])

Answering(c) == [at |-> "writing", writeBy |-> request[c].writeBy, since |-> now]

\* The handler decodes the body and searches; a body that stays out is answered with 400.
Decode(c) ==
    /\ Alive /\ request[c].at = "reading"
    /\ \/ Moves(c, [at |-> "searching", writeBy |-> request[c].writeBy, searchBy |-> now + SearchTime])
       \/ now >= request[c].readBy /\ Moves(c, Answering(c))

\* The search returns, and the handler writes what it returned.
Reply(c) == Alive /\ request[c].at = "searching" /\ Moves(c, Answering(c))

\* The client has read the answer, or the connection is closed for its taking too long.
\* (history: whether it left the answer waiting).
Finish(c) ==
    /\ Alive /\ request[c].at = "writing"
    /\ Moves(c, [at |-> "over", slow |-> request[c].since < now])

-----------------------------------------------------------------------------
(* main                                                                    *)

\* A signal ends the context; those that follow change nothing.
Signal ==
    /\ Alive /\ ~signalled /\ now <= Horizon
    /\ signalled' = TRUE
    /\ UNCHANGED <<now, listener, serverErr, main, request, calm>>

\* The process ends, and with it every connection.
Exit(code, why) ==
    /\ main' = [at |-> "exited", code |-> code, why |-> why]
    /\ request' = [c \in Clients |->
                      IF InFlight(c)
                      THEN [at |-> "cut", slow |-> request[c].at = "writing" /\ request[c].since < now]
                      ELSE request[c]]
    /\ UNCHANGED <<now, listener, serverErr, signalled, calm>>

\* select: the listener's error ...
FailOnError == main.at = "waiting" /\ serverErr /\ Exit(1, "listener")

\* ... or the signal, whichever is taken if both are there.  Shutdown stops the listener.
BeginShutdown ==
    /\ main.at = "waiting" /\ signalled
    /\ main' = [at |-> "shutting", since |-> now]
    /\ listener' = IF listener = "failed" THEN "failed" ELSE "closed"
    /\ UNCHANGED <<now, serverErr, signalled, request, calm>>

Idle == \A c \in Clients : ~InFlight(c)

\* Shutdown finds all connections idle, and main returns.
EndShutdown == main.at = "shutting" /\ Idle /\ Exit(0, "signal")

\* Mutant: the budget of a shutdown is that of reading a request.
GiveUpTooSoon == main.at = "shutting" /\ now >= main.since + ReadTimeout /\ Exit(1, "timeout")

\* shutdownCtx is over first.
GiveUp == main.at = "shutting" /\ now >= main.since + ShutdownTimeout /\ Exit(1, "timeout")

-----------------------------------------------------------------------------
(* Time.                                                                   *)

Later(a, b) == IF a >= b THEN a ELSE b

\* A deadline has come, and what it interrupts has not been interrupted yet.
Overdue(c) ==
    \/ request[c].at \in {"connected", "reading"} /\ now >= request[c].readBy
    \/ request[c].at = "searching" /\ now >= request[c].searchBy
    \/ request[c].at = "writing" /\ now >= request[c].writeBy

\* main does not sleep past what it waits for.
MainIsDue ==
    \/ main.at = "waiting" /\ (serverErr \/ signalled)
    \/ main.at = "shutting" /\ now >= main.since + ShutdownTimeout
    \/ main.at = "shutting" /\ Idle /\ now >= Later(main.since, calm) + PollInterval

Tick ==
    /\ Alive /\ now < MaxTime
    /\ ~MainIsDue /\ \A c \in Clients : ~Overdue(c)
    /\ now' = now + 1
    /\ UNCHANGED <<listener, serverErr, signalled, main, request, calm>>

Main == FailOnError \/ BeginShutdown \/ EndShutdown \/ GiveUp

\* The server has ended, or nobody asks it to within the bounds.
Quiet == (~Alive \/ now = MaxTime) /\ UNCHANGED vars

Serve(c) == SendHeaders(c) \/ Decode(c) \/ Reply(c) \/ Finish(c)

Next ==
    \/ Listen \/ ListenFails \/ Signal
    \/ \E c \in Clients : Connect(c) \/ Serve(c)
    \/ Main
    \/ Tick
    \/ Quiet

\* Time passes, main goes on when it can, and what a deadline interrupts is interrupted.
Fairness ==
    /\ WF_vars(Tick)
    /\ WF_vars(Main)
    /\ \A c \in Clients : WF_vars(Overdue(c) /\ Serve(c))

Spec == Init /\ [][Next]_vars /\ Fairness

-----------------------------------------------------------------------------
(* Properties.                                                             *)

\* Whether a client left its answer waiting once it was there.
Slow(c) == request[c].at \in {"over", "cut"} /\ request[c].slow

\* A shutdown takes nothing from a client that reads its answer when it is there, however slowly
\* it sent its request: reading and searching fit into what Shutdown waits, and into what there
\* is to write.  Exit code 0 means that nobody was cut off, and a shutdown reports failure only
\* because of a client that leaves its answer waiting (app.go: its timeouts and exit codes).
ShutdownIsGraceful ==
    /\ \A c \in Clients : request[c].at = "writing" => request[c].since < request[c].writeBy
    /\ ~Alive =>
          /\ main.code = 0 => \A c \in Clients : request[c].at # "cut"
          /\ main.why # "listener" => \A c \in Clients : request[c].at = "cut" => Slow(c)
          /\ main.why = "timeout" => \E c \in Clients : Slow(c)

\* A signal, or a listener that fails, ends the server, whatever its clients do.
ServerStops == (signalled \/ listener = "failed") ~> ~Alive
=============================================================================
